--------------------------- MODULE PipelineProofs ---------------------------
(***************************************************************************)
(* Theorems about the consumer side, for every number of consumers,        *)
(* partitions and events and every amount of faults: first about           *)
(* EventConsumer by itself, then about Pipeline, whose steps are steps of  *)
(* the consumers and of the writers and keep the invariants of both.       *)
(***************************************************************************)
EXTENDS Pipeline, DedupWindowProofs

-----------------------------------------------------------------------------
(***************************************************************************)
(* What the actions have in common.                                        *)
(***************************************************************************)
LEMMA FaultType == TypeOK /\ Fault => faults' \in 0..MaxFaults
BY ConsumerAssumption DEF TypeOK, Fault

\* The message in hand is a message of the log.
LEMMA InHandType ==
    ASSUME TypeOK, InHandIsReady, NEW c \in Consumers, Busy(c)
    PROVE  /\ current[c] \in Partitions \X Nat
           /\ current[c][1] \in Partitions
           /\ current[c][2] \in 1..Len(log[current[c][1]])
           /\ InHand(c) \in Events
           /\ InHand(c).key \in Keys
<1>1. current[c] \in Partitions \X Nat
  BY DEF TypeOK, InHandIsReady
<1>2. log[current[c][1]] \in Seq(Events) /\ current[c][2] \in 1..Len(log[current[c][1]])
  BY <1>1 DEF TypeOK, InHandIsReady
<1>3. InHand(c) \in Events
  BY <1>2, ElementOfSeq DEF InHand
<1>. QED BY <1>1, <1>2, <1>3 DEF Events

\* A fetched message is one of the log, and the position moves past it.
LEMMA FetchedType ==
    ASSUME TypeOK, NEW c \in Consumers, NEW p \in Partitions, Fetch(c, p)
    PROVE  /\ position[p] + 1 \in 1..Len(log[p])
           /\ Fetched(p) \in Events
           /\ Fetched(p).key \in Keys
<1>1. log[p] \in Seq(Events) /\ position[p] + 1 \in 1..Len(log[p])
  BY DEF TypeOK, Fetch
<1>2. Fetched(p) \in Events
  BY <1>1, ElementOfSeq DEF Fetched
<1>. QED BY <1>1, <1>2 DEF Events

-----------------------------------------------------------------------------
(***************************************************************************)
(* Type correctness.                                                       *)
(***************************************************************************)
LEMMA InitTypeOK == Init => TypeOK
BY TopicAssumption, ConsumerAssumption
   DEF Init, TypeOK, Statuses, EmptyWindow

LEMMA NextTypeOK == TypeOK /\ InHandIsReady /\ [Next]_vars => TypeOK'
<1> SUFFICES ASSUME TypeOK /\ InHandIsReady, [Next]_vars PROVE TypeOK'
  OBVIOUS
<1> USE ConsumerAssumption, FaultType DEF Become, brokerVars, memoryVars
<1>1. ASSUME NEW p \in Partitions, NEW e \in Events, Publish(p, e)
      PROVE  TypeOK'
  BY <1>1 DEF TypeOK, Statuses, EmptyWindow, Publish
<1>2. ASSUME NEW p \in Partitions, NEW c \in Consumers, Assign(p, c)
      PROVE  TypeOK'
  BY <1>2 DEF TypeOK, Statuses, EmptyWindow, Assign, GivePartition
<1>3. ASSUME NEW p \in Partitions, NEW c \in Consumers, Rebalance(p, c)
      PROVE  TypeOK'
  BY <1>3 DEF TypeOK, Statuses, EmptyWindow, Rebalance, GivePartition
<1>4. ASSUME NEW c \in Consumers, Start(c)
      PROVE  TypeOK'
  BY <1>4 DEF TypeOK, Statuses, EmptyWindow, Start
<1>5. ASSUME NEW c \in Consumers, Crash(c)
      PROVE  TypeOK'
  <2>1. owner' \in [Partitions -> Consumers \cup {None}]
    BY <1>5 DEF TypeOK, Crash, Vanish, Release
  <2>2. dedup' \in [Consumers -> Seq(Keys)] /\ \A d \in Consumers : Len(dedup'[d]) <= Capacity
    BY <1>5 DEF TypeOK, EmptyWindow, Crash, Vanish
  <2>3. faults' \in 0..MaxFaults
    BY <1>5 DEF Crash
  <2>. QED BY <1>5, <2>1, <2>2, <2>3 DEF TypeOK, Statuses, Crash, Vanish
<1>6. ASSUME NEW c \in Consumers, Close(c)
      PROVE  TypeOK'
  BY <1>6 DEF TypeOK, Statuses, EmptyWindow, Close, Release
<1>7. ASSUME NEW c \in Consumers, LeaveLoop(c)
      PROVE  TypeOK'
  BY <1>7 DEF TypeOK, Statuses, EmptyWindow, LeaveLoop, Vanish, Release
<1>8. ASSUME NEW c \in Consumers, Exit(c)
      PROVE  TypeOK'
  BY <1>8 DEF TypeOK, Statuses, EmptyWindow, Exit, Vanish, Release
<1>9. ASSUME NEW c \in Consumers, Resume(c)
      PROVE  TypeOK'
  BY <1>9 DEF TypeOK, Statuses, EmptyWindow, Resume
<1>10. ASSUME NEW c \in Consumers, NEW p \in Partitions, Reject(c, p)
      PROVE  TypeOK'
  <2>1. faults' \in 0..MaxFaults
    BY <1>10, FaultType DEF Reject, TypeOK
  <2>. QED BY <1>10, <2>1 DEF TypeOK, Statuses, Reject, Fetch
<1>11. ASSUME NEW c \in Consumers, NEW p \in Partitions, SkipDuplicate(c, p)
      PROVE  TypeOK'
  <2>1. Fetch(c, p)
    BY <1>11 DEF SkipDuplicate
  <2>2. /\ AfterSeen(dedup[c], Fetched(p).key) \in Seq(Keys)
        /\ Len(AfterSeen(dedup[c], Fetched(p).key)) = Len(dedup[c])
    BY <2>1, FetchedType, AfterSeenProperties DEF TypeOK
  <2>. QED BY <1>11, <2>2 DEF TypeOK, Statuses, SkipDuplicate, Fetch
<1>12. ASSUME NEW c \in Consumers, NEW p \in Partitions, CallHandler(c, p)
      PROVE  TypeOK'
  BY <1>12 DEF TypeOK, Statuses, EmptyWindow, CallHandler, Fetch, Fetched
<1>13. ASSUME NEW c \in Consumers, PollFails(c)
      PROVE  TypeOK'
  BY <1>13 DEF TypeOK, Statuses, EmptyWindow, PollFails
<1>14. ASSUME NEW c \in Consumers, HandlerReturns(c)
      PROVE  TypeOK'
  <2>1. InHand(c).key \in Keys
    BY <1>14, InHandType DEF HandlerReturns, Busy
  <2>2. /\ AfterRecord(dedup[c], InHand(c).key, Capacity) \in Seq(Keys)
        /\ Len(AfterRecord(dedup[c], InHand(c).key, Capacity)) <= Capacity
    BY <2>1, AfterRecordProperties DEF TypeOK
  <2>. QED BY <1>14, <2>1, <2>2 DEF TypeOK, Statuses, HandlerReturns
<1>15. ASSUME NEW c \in Consumers, HandlerRaises(c)
      PROVE  TypeOK'
  BY <1>15
     DEF TypeOK, Statuses, EmptyWindow, HandlerRaises,
         ExceptionFromHandler
<1>16. ASSUME NEW c \in Consumers, Commit(c)
      PROVE  TypeOK'
  <2>1. current[c] \in Partitions \X Nat
    BY <1>16, InHandType DEF Commit, Busy
  <2>. QED BY <1>16, <2>1 DEF TypeOK, Statuses, Commit, CommitOffset
<1>17. ASSUME NEW c \in Consumers, CommitRefused(c)
      PROVE  TypeOK'
  BY <1>17 DEF TypeOK, Statuses, EmptyWindow, CommitRefused
<1>18. ASSUME NEW c \in Consumers, CommitFails(c)
      PROVE  TypeOK'
  <2>1. current[c] \in Partitions \X Nat
    BY <1>18, InHandType DEF CommitFails, Busy
  <2>. QED BY <1>18, <2>1 DEF TypeOK, Statuses, CommitFails, CommitOffset
<1>19. CASE UNCHANGED vars
  BY <1>19 DEF TypeOK, Statuses, EmptyWindow, vars
<1>. QED
  BY <1>1, <1>2, <1>3, <1>4, <1>5, <1>6, <1>7, <1>8, <1>9, <1>10,
     <1>11, <1>12, <1>13, <1>14, <1>15, <1>16, <1>17, <1>18, <1>19
     DEF Next, PollOnce, HandlerEnds, CommitEnds

LEMMA NextInHandIsReady == CallerFreeInv /\ [Next]_vars => InHandIsReady'
<1> SUFFICES ASSUME CallerFreeInv, [Next]_vars PROVE InHandIsReady'
  OBVIOUS
<1> USE ConsumerAssumption DEF Become, brokerVars, memoryVars
<1>1. ASSUME NEW p \in Partitions, NEW e \in Events, Publish(p, e)
      PROVE  InHandIsReady'
  BY <1>1 DEF CallerFreeInv, TypeOK, InHandIsReady, InHand, Busy, Publish
<1>2. ASSUME NEW p \in Partitions, NEW c \in Consumers, Assign(p, c)
      PROVE  InHandIsReady'
  BY <1>2
     DEF CallerFreeInv, TypeOK, InHandIsReady, InHand, Busy, Assign, GivePartition
<1>3. ASSUME NEW p \in Partitions, NEW c \in Consumers, Rebalance(p, c)
      PROVE  InHandIsReady'
  BY <1>3
     DEF CallerFreeInv, TypeOK, InHandIsReady, InHand, Busy, Rebalance,
         GivePartition
<1>4. ASSUME NEW c \in Consumers, Start(c)
      PROVE  InHandIsReady'
  BY <1>4 DEF CallerFreeInv, TypeOK, InHandIsReady, InHand, Busy, Start
<1>5. ASSUME NEW c \in Consumers, Crash(c)
      PROVE  InHandIsReady'
  BY <1>5
     DEF CallerFreeInv, TypeOK, InHandIsReady, InHand, Busy, Crash, Vanish,
         Release
<1>6. ASSUME NEW c \in Consumers, Close(c)
      PROVE  InHandIsReady'
  BY <1>6 DEF CallerFreeInv, TypeOK, InHandIsReady, InHand, Busy, Close, Release
<1>7. ASSUME NEW c \in Consumers, LeaveLoop(c)
      PROVE  InHandIsReady'
  BY <1>7
     DEF CallerFreeInv, TypeOK, InHandIsReady, InHand, Busy, LeaveLoop, Vanish,
         Release
<1>8. ASSUME NEW c \in Consumers, Exit(c)
      PROVE  InHandIsReady'
  BY <1>8
     DEF CallerFreeInv, TypeOK, InHandIsReady, InHand, Busy, Exit, Vanish, Release
<1>9. ASSUME NEW c \in Consumers, Resume(c)
      PROVE  InHandIsReady'
  BY <1>9 DEF CallerFreeInv, TypeOK, InHandIsReady, InHand, Busy, Resume
<1>10. ASSUME NEW c \in Consumers, NEW p \in Partitions, Reject(c, p)
      PROVE  InHandIsReady'
  BY <1>10 DEF CallerFreeInv, TypeOK, InHandIsReady, InHand, Busy, Reject, Fetch
<1>11. ASSUME NEW c \in Consumers, NEW p \in Partitions, SkipDuplicate(c, p)
      PROVE  InHandIsReady'
  <2>1. /\ position[p] + 1 \in 1..Len(log[p])
        /\ Fetched(p) \in Events
    BY <1>11, FetchedType DEF SkipDuplicate, CallerFreeInv
  <2>2. Fetched(p).key \in handled
    BY <1>11
       DEF SkipDuplicate, CallerFreeInv, WindowKeysWereHandled, Seen, Contains,
                 ToSet, TypeOK
  <2>3. current'[c] = <<p, position[p] + 1>> /\ InHand(c)' = Fetched(p)
    BY <1>11 DEF SkipDuplicate, Fetch, Fetched, InHand, CallerFreeInv, TypeOK
  <2>4. ASSUME NEW d \in Consumers, d # c
        PROVE  status'[d] = status[d] /\ current'[d] = current[d] /\ InHand(d)' = InHand(d)
    BY <1>11, <2>4 DEF SkipDuplicate, Fetch, InHand, CallerFreeInv, TypeOK
  <2>. QED BY <1>11, <2>1, <2>2, <2>3, <2>4
           DEF SkipDuplicate, Fetch, InHandIsReady, Busy, CallerFreeInv, TypeOK
<1>12. ASSUME NEW c \in Consumers, NEW p \in Partitions, CallHandler(c, p)
      PROVE  InHandIsReady'
  <2>1. /\ position[p] + 1 \in 1..Len(log[p])
        /\ Fetched(p) \in Events
    BY <1>12, FetchedType DEF CallHandler, CallerFreeInv
  <2>2. current'[c] = <<p, position[p] + 1>> /\ InHand(c)' = Fetched(p)
    BY <1>12 DEF CallHandler, Fetch, Fetched, InHand, CallerFreeInv, TypeOK
  <2>3. ASSUME NEW d \in Consumers, d # c
        PROVE  status'[d] = status[d] /\ current'[d] = current[d] /\ InHand(d)' = InHand(d)
    BY <1>12, <2>3 DEF CallHandler, Fetch, InHand, CallerFreeInv, TypeOK
  <2>. QED BY <1>12, <2>1, <2>2, <2>3
           DEF CallHandler, Fetch, InHandIsReady, Busy, CallerFreeInv, TypeOK
<1>13. ASSUME NEW c \in Consumers, PollFails(c)
      PROVE  InHandIsReady'
  BY <1>13 DEF CallerFreeInv, TypeOK, InHandIsReady, InHand, Busy, PollFails
<1>14. ASSUME NEW c \in Consumers, HandlerReturns(c)
      PROVE  InHandIsReady'
  BY <1>14 DEF CallerFreeInv, TypeOK, InHandIsReady, InHand, Busy, HandlerReturns
<1>15. ASSUME NEW c \in Consumers, HandlerRaises(c)
      PROVE  InHandIsReady'
  BY <1>15
     DEF CallerFreeInv, TypeOK, InHandIsReady, InHand, Busy, HandlerRaises,
         ExceptionFromHandler
<1>16. ASSUME NEW c \in Consumers, Commit(c)
      PROVE  InHandIsReady'
  BY <1>16
     DEF CallerFreeInv, TypeOK, InHandIsReady, InHand, Busy, Commit,
         CommitOffset, MayCommit
<1>17. ASSUME NEW c \in Consumers, CommitRefused(c)
      PROVE  InHandIsReady'
  BY <1>17 DEF CallerFreeInv, TypeOK, InHandIsReady, InHand, Busy, CommitRefused
<1>18. ASSUME NEW c \in Consumers, CommitFails(c)
      PROVE  InHandIsReady'
  BY <1>18
     DEF CallerFreeInv, TypeOK, InHandIsReady, InHand, Busy, CommitFails,
         CommitOffset, MayCommit
<1>19. CASE UNCHANGED vars
  BY <1>19 DEF CallerFreeInv, TypeOK, InHandIsReady, InHand, Busy, vars
<1>. QED
  BY <1>1, <1>2, <1>3, <1>4, <1>5, <1>6, <1>7, <1>8, <1>9, <1>10,
     <1>11, <1>12, <1>13, <1>14, <1>15, <1>16, <1>17, <1>18, <1>19
     DEF Next, PollOnce, HandlerEnds, CommitEnds

LEMMA NextOwnerIsAhead == CallerFreeInv /\ [Next]_vars => OwnerIsAhead'
<1> SUFFICES ASSUME CallerFreeInv, [Next]_vars PROVE OwnerIsAhead'
  OBVIOUS
<1> USE ConsumerAssumption DEF Become, brokerVars, memoryVars
<1>1. ASSUME NEW p \in Partitions, NEW e \in Events, Publish(p, e)
      PROVE  OwnerIsAhead'
  BY <1>1 DEF CallerFreeInv, TypeOK, OwnerIsAhead, Busy, Publish
<1>2. ASSUME NEW p \in Partitions, NEW c \in Consumers, Assign(p, c)
      PROVE  OwnerIsAhead'
  BY <1>2 DEF CallerFreeInv, TypeOK, OwnerIsAhead, Busy, Assign, GivePartition
<1>3. ASSUME NEW p \in Partitions, NEW c \in Consumers, Rebalance(p, c)
      PROVE  OwnerIsAhead'
  BY <1>3 DEF CallerFreeInv, TypeOK, OwnerIsAhead, Busy, Rebalance, GivePartition
<1>4. ASSUME NEW c \in Consumers, Start(c)
      PROVE  OwnerIsAhead'
  BY <1>4 DEF CallerFreeInv, TypeOK, OwnerIsAhead, Busy, Start
<1>5. ASSUME NEW c \in Consumers, Crash(c)
      PROVE  OwnerIsAhead'
  BY <1>5 DEF CallerFreeInv, TypeOK, OwnerIsAhead, Busy, Crash, Vanish, Release
<1>6. ASSUME NEW c \in Consumers, Close(c)
      PROVE  OwnerIsAhead'
  BY <1>6 DEF CallerFreeInv, TypeOK, OwnerIsAhead, Busy, Close, Release
<1>7. ASSUME NEW c \in Consumers, LeaveLoop(c)
      PROVE  OwnerIsAhead'
  BY <1>7 DEF CallerFreeInv, TypeOK, OwnerIsAhead, Busy, LeaveLoop, Vanish, Release
<1>8. ASSUME NEW c \in Consumers, Exit(c)
      PROVE  OwnerIsAhead'
  BY <1>8 DEF CallerFreeInv, TypeOK, OwnerIsAhead, Busy, Exit, Vanish, Release
<1>9. ASSUME NEW c \in Consumers, Resume(c)
      PROVE  OwnerIsAhead'
  BY <1>9 DEF CallerFreeInv, TypeOK, OwnerIsAhead, Busy, Resume
<1>10. ASSUME NEW c \in Consumers, NEW p \in Partitions, Reject(c, p)
      PROVE  OwnerIsAhead'
  BY <1>10 DEF CallerFreeInv, TypeOK, OwnerIsAhead, Busy, Reject, Fetch
<1>11. ASSUME NEW c \in Consumers, NEW p \in Partitions, SkipDuplicate(c, p)
      PROVE  OwnerIsAhead'
  <2>1. \A q \in Partitions : owner'[q] = owner[q] /\ committed'[q] = committed[q]
    BY <1>11 DEF SkipDuplicate, Fetch
  <2>2. /\ position'[p] = position[p] + 1 /\ current'[c] = <<p, position[p] + 1>>
        /\ owner[p] = c
    BY <1>11 DEF SkipDuplicate, Fetch, CallerFreeInv, TypeOK
  <2>3. \A q \in Partitions \ {p} : position'[q] = position[q]
    BY <1>11 DEF SkipDuplicate, Fetch, CallerFreeInv, TypeOK
  <2>4. \A d \in Consumers \ {c} : status'[d] = status[d] /\ current'[d] = current[d]
    BY <1>11 DEF SkipDuplicate, Fetch, CallerFreeInv, TypeOK
  <2>5. committed[p] \in Nat /\ position[p] \in Nat /\ committed[p] <= position[p]
    BY <2>2 DEF OwnerIsAhead, CallerFreeInv, TypeOK
  <2> SUFFICES ASSUME NEW q \in Partitions, owner'[q] # None
               PROVE  /\ committed'[q] <= position'[q]
                      /\ Busy(owner[q])' /\ current'[owner'[q]][1] = q =>
                            /\ current'[owner'[q]][2] = position'[q]
                            /\ committed'[q] < position'[q]
    BY DEF OwnerIsAhead, Busy
  <2>6. CASE q = p
    BY <2>1, <2>2, <2>5, <2>6 DEF Busy
  <2>7. CASE q # p /\ owner[q] = c
    BY <2>1, <2>2, <2>3, <2>7 DEF OwnerIsAhead, CallerFreeInv
  <2>8. CASE q # p /\ owner[q] # c
    <3>1. owner[q] \in Consumers \ {c}
      BY <2>1, <2>8 DEF CallerFreeInv, TypeOK
    <3>2. /\ owner'[q] = owner[q] /\ committed'[q] = committed[q] /\ position'[q] = position[q]
          /\ status'[owner[q]] = status[owner[q]] /\ current'[owner[q]] = current[owner[q]]
      BY <2>1, <2>3, <2>4, <2>8, <3>1
    <3>3. owner[q] # None
      BY <3>1
    <3>. QED BY <3>2, <3>3 DEF OwnerIsAhead, Busy, CallerFreeInv
  <2>. QED BY <2>6, <2>7, <2>8
<1>12. ASSUME NEW c \in Consumers, NEW p \in Partitions, CallHandler(c, p)
      PROVE  OwnerIsAhead'
  <2>1. \A q \in Partitions : owner'[q] = owner[q] /\ committed'[q] = committed[q]
    BY <1>12 DEF CallHandler, Fetch
  <2>2. /\ position'[p] = position[p] + 1 /\ current'[c] = <<p, position[p] + 1>>
        /\ owner[p] = c
    BY <1>12 DEF CallHandler, Fetch, CallerFreeInv, TypeOK
  <2>3. \A q \in Partitions \ {p} : position'[q] = position[q]
    BY <1>12 DEF CallHandler, Fetch, CallerFreeInv, TypeOK
  <2>4. \A d \in Consumers \ {c} : status'[d] = status[d] /\ current'[d] = current[d]
    BY <1>12 DEF CallHandler, Fetch, CallerFreeInv, TypeOK
  <2>5. committed[p] \in Nat /\ position[p] \in Nat /\ committed[p] <= position[p]
    BY <2>2 DEF OwnerIsAhead, CallerFreeInv, TypeOK
  <2> SUFFICES ASSUME NEW q \in Partitions, owner'[q] # None
               PROVE  /\ committed'[q] <= position'[q]
                      /\ Busy(owner[q])' /\ current'[owner'[q]][1] = q =>
                            /\ current'[owner'[q]][2] = position'[q]
                            /\ committed'[q] < position'[q]
    BY DEF OwnerIsAhead, Busy
  <2>6. CASE q = p
    BY <2>1, <2>2, <2>5, <2>6 DEF Busy
  <2>7. CASE q # p /\ owner[q] = c
    BY <2>1, <2>2, <2>3, <2>7 DEF OwnerIsAhead, CallerFreeInv
  <2>8. CASE q # p /\ owner[q] # c
    <3>1. owner[q] \in Consumers \ {c}
      BY <2>1, <2>8 DEF CallerFreeInv, TypeOK
    <3>2. /\ owner'[q] = owner[q] /\ committed'[q] = committed[q] /\ position'[q] = position[q]
          /\ status'[owner[q]] = status[owner[q]] /\ current'[owner[q]] = current[owner[q]]
      BY <2>1, <2>3, <2>4, <2>8, <3>1
    <3>3. owner[q] # None
      BY <3>1
    <3>. QED BY <3>2, <3>3 DEF OwnerIsAhead, Busy, CallerFreeInv
  <2>. QED BY <2>6, <2>7, <2>8
<1>13. ASSUME NEW c \in Consumers, PollFails(c)
      PROVE  OwnerIsAhead'
  BY <1>13 DEF CallerFreeInv, TypeOK, OwnerIsAhead, Busy, PollFails
<1>14. ASSUME NEW c \in Consumers, HandlerReturns(c)
      PROVE  OwnerIsAhead'
  BY <1>14 DEF CallerFreeInv, TypeOK, OwnerIsAhead, Busy, HandlerReturns
<1>15. ASSUME NEW c \in Consumers, HandlerRaises(c)
      PROVE  OwnerIsAhead'
  BY <1>15
     DEF CallerFreeInv, TypeOK, OwnerIsAhead, Busy, HandlerRaises,
         ExceptionFromHandler
<1>16. ASSUME NEW c \in Consumers, Commit(c)
      PROVE  OwnerIsAhead'
  <2>1. owner' = owner /\ position' = position /\ ~Busy(c)'
    BY <1>16 DEF Commit, Busy, CallerFreeInv, TypeOK
  <2>2. \A d \in Consumers \ {c} : status'[d] = status[d] /\ current'[d] = current[d]
    BY <1>16 DEF Commit, CallerFreeInv, TypeOK
  <2>3. PICK p \in Partitions : /\ owner[p] = c
                               /\ committed' = [committed EXCEPT ![p] = position[p]]
    <3>1. current[c] \in Partitions \X Nat /\ Busy(c) /\ owner[current[c][1]] = c
      BY <1>16, InHandType DEF Commit, MayCommit, Busy, CallerFreeInv
    <3>2. current[c][2] = position[current[c][1]]
      BY <3>1 DEF OwnerIsAhead, CallerFreeInv
    <3>. QED BY <1>16, <3>1, <3>2 DEF Commit, CommitOffset
  <2> SUFFICES ASSUME NEW q \in Partitions, owner'[q] # None
               PROVE  /\ committed'[q] <= position'[q]
                      /\ Busy(owner[q])' /\ current'[owner'[q]][1] = q =>
                            /\ current'[owner'[q]][2] = position'[q]
                            /\ committed'[q] < position'[q]
    BY <2>1 DEF OwnerIsAhead, Busy
  <2>4. CASE q = p
    BY <2>1, <2>3, <2>4 DEF CallerFreeInv, TypeOK, Busy
  <2>5. CASE q # p
    <3>1. committed'[q] = committed[q]
      BY <2>3, <2>5 DEF CallerFreeInv, TypeOK
    <3>2. CASE owner[q] = c
      BY <2>1, <3>1, <3>2 DEF OwnerIsAhead, CallerFreeInv, Busy
    <3>3. CASE owner[q] # c
      <4>1. owner[q] \in Consumers \ {c}
        BY <2>1, <3>3 DEF CallerFreeInv, TypeOK
      <4>. QED BY <2>1, <2>2, <3>1, <4>1 DEF OwnerIsAhead, CallerFreeInv, Busy
    <3>. QED BY <3>2, <3>3
  <2>. QED BY <2>4, <2>5
<1>17. ASSUME NEW c \in Consumers, CommitRefused(c)
      PROVE  OwnerIsAhead'
  <2>1. UNCHANGED <<committed, owner, position, current>>
    BY <1>17 DEF CommitRefused
  <2>2. \A d \in Consumers : Busy(d)' => Busy(d)
    BY <1>17 DEF CommitRefused, Busy, CallerFreeInv, TypeOK
  <2>3. \A q \in Partitions : owner[q] # None => owner[q] \in Consumers
    BY DEF CallerFreeInv, TypeOK
  <2>. QED BY <2>1, <2>2, <2>3 DEF OwnerIsAhead, CallerFreeInv, Busy
<1>18. ASSUME NEW c \in Consumers, CommitFails(c)
      PROVE  OwnerIsAhead'
  <2>1. owner' = owner /\ position' = position /\ ~Busy(c)'
    BY <1>18 DEF CommitFails, Busy, CallerFreeInv, TypeOK
  <2>2. \A d \in Consumers \ {c} : status'[d] = status[d] /\ current'[d] = current[d]
    BY <1>18 DEF CommitFails, CallerFreeInv, TypeOK
  <2>3. \/ committed' = committed
        \/ \E p \in Partitions : /\ owner[p] = c
                                 /\ committed' = [committed EXCEPT ![p] = position[p]]
    <3>1. current[c] \in Partitions \X Nat /\ Busy(c)
      BY <1>18, InHandType DEF CommitFails, Busy, CallerFreeInv
    <3>2. CASE MayCommit(c) /\ CommitOffset(c)
      <4>1. current[c][2] = position[current[c][1]]
        BY <3>1, <3>2 DEF OwnerIsAhead, MayCommit, CallerFreeInv
      <4>. QED BY <3>1, <3>2, <4>1 DEF MayCommit, CommitOffset
    <3>. QED BY <1>18, <3>2 DEF CommitFails
  <2> SUFFICES ASSUME NEW q \in Partitions, owner'[q] # None
               PROVE  /\ committed'[q] <= position'[q]
                      /\ Busy(owner[q])' /\ current'[owner'[q]][1] = q =>
                            /\ current'[owner'[q]][2] = position'[q]
                            /\ committed'[q] < position'[q]
    BY <2>1 DEF OwnerIsAhead, Busy
  <2>4. CASE owner[q] = c
    <3>1. committed'[q] = committed[q] \/ committed'[q] = position[q]
      BY <2>3 DEF CallerFreeInv, TypeOK
    <3>. QED BY <2>1, <2>4, <3>1 DEF OwnerIsAhead, CallerFreeInv, TypeOK, Busy
  <2>5. CASE owner[q] # c
    <3>1. committed'[q] = committed[q] /\ owner[q] \in Consumers \ {c}
      BY <2>1, <2>3, <2>5 DEF CallerFreeInv, TypeOK
    <3>. QED BY <2>1, <2>2, <3>1 DEF OwnerIsAhead, CallerFreeInv, Busy
  <2>. QED BY <2>4, <2>5
<1>19. CASE UNCHANGED vars
  BY <1>19 DEF CallerFreeInv, TypeOK, OwnerIsAhead, Busy, vars
<1>. QED
  BY <1>1, <1>2, <1>3, <1>4, <1>5, <1>6, <1>7, <1>8, <1>9, <1>10,
     <1>11, <1>12, <1>13, <1>14, <1>15, <1>16, <1>17, <1>18, <1>19
     DEF Next, PollOnce, HandlerEnds, CommitEnds

LEMMA NextWindowKeysWereHandled == CallerFreeInv /\ [Next]_vars => WindowKeysWereHandled'
<1> SUFFICES ASSUME CallerFreeInv, [Next]_vars PROVE WindowKeysWereHandled'
  OBVIOUS
<1> USE ConsumerAssumption DEF Become, brokerVars, memoryVars
<1>1. ASSUME NEW p \in Partitions, NEW e \in Events, Publish(p, e)
      PROVE  WindowKeysWereHandled'
  BY <1>1
     DEF CallerFreeInv, TypeOK, WindowKeysWereHandled, EmptyWindow, ToSet, Publish
<1>2. ASSUME NEW p \in Partitions, NEW c \in Consumers, Assign(p, c)
      PROVE  WindowKeysWereHandled'
  BY <1>2
     DEF CallerFreeInv, TypeOK, WindowKeysWereHandled, EmptyWindow, ToSet,
         Assign, GivePartition
<1>3. ASSUME NEW p \in Partitions, NEW c \in Consumers, Rebalance(p, c)
      PROVE  WindowKeysWereHandled'
  BY <1>3
     DEF CallerFreeInv, TypeOK, WindowKeysWereHandled, EmptyWindow, ToSet,
         Rebalance, GivePartition
<1>4. ASSUME NEW c \in Consumers, Start(c)
      PROVE  WindowKeysWereHandled'
  BY <1>4
     DEF CallerFreeInv, TypeOK, WindowKeysWereHandled, EmptyWindow, ToSet, Start
<1>5. ASSUME NEW c \in Consumers, Crash(c)
      PROVE  WindowKeysWereHandled'
  BY <1>5
     DEF CallerFreeInv, TypeOK, WindowKeysWereHandled, EmptyWindow, ToSet, Crash,
         Vanish, Release
<1>6. ASSUME NEW c \in Consumers, Close(c)
      PROVE  WindowKeysWereHandled'
  BY <1>6
     DEF CallerFreeInv, TypeOK, WindowKeysWereHandled, EmptyWindow, ToSet, Close,
         Release
<1>7. ASSUME NEW c \in Consumers, LeaveLoop(c)
      PROVE  WindowKeysWereHandled'
  BY <1>7
     DEF CallerFreeInv, TypeOK, WindowKeysWereHandled, EmptyWindow, ToSet,
         LeaveLoop, Vanish, Release
<1>8. ASSUME NEW c \in Consumers, Exit(c)
      PROVE  WindowKeysWereHandled'
  BY <1>8
     DEF CallerFreeInv, TypeOK, WindowKeysWereHandled, EmptyWindow, ToSet, Exit,
         Vanish, Release
<1>9. ASSUME NEW c \in Consumers, Resume(c)
      PROVE  WindowKeysWereHandled'
  BY <1>9
     DEF CallerFreeInv, TypeOK, WindowKeysWereHandled, EmptyWindow, ToSet, Resume
<1>10. ASSUME NEW c \in Consumers, NEW p \in Partitions, Reject(c, p)
      PROVE  WindowKeysWereHandled'
  BY <1>10
     DEF CallerFreeInv, TypeOK, WindowKeysWereHandled, EmptyWindow, ToSet,
         Reject, Fetch
<1>11. ASSUME NEW c \in Consumers, NEW p \in Partitions, SkipDuplicate(c, p)
      PROVE  WindowKeysWereHandled'
  <2>1. Fetched(p).key \in Keys
    BY <1>11, FetchedType DEF SkipDuplicate, CallerFreeInv
  <2>2. ToSet(AfterSeen(dedup[c], Fetched(p).key)) \subseteq ToSet(dedup[c])
    BY <2>1, AfterSeenProperties DEF CallerFreeInv, TypeOK
  <2>. QED BY <1>11, <2>2
           DEF SkipDuplicate, Fetch, WindowKeysWereHandled, CallerFreeInv, TypeOK
<1>12. ASSUME NEW c \in Consumers, NEW p \in Partitions, CallHandler(c, p)
      PROVE  WindowKeysWereHandled'
  BY <1>12
     DEF CallerFreeInv, TypeOK, WindowKeysWereHandled, EmptyWindow, ToSet,
         CallHandler, Fetch, Fetched
<1>13. ASSUME NEW c \in Consumers, PollFails(c)
      PROVE  WindowKeysWereHandled'
  BY <1>13
     DEF CallerFreeInv, TypeOK, WindowKeysWereHandled, EmptyWindow, ToSet,
         PollFails
<1>14. ASSUME NEW c \in Consumers, HandlerReturns(c)
      PROVE  WindowKeysWereHandled'
  <2>1. InHand(c).key \in Keys
    BY <1>14, InHandType DEF HandlerReturns, Busy, CallerFreeInv
  <2>2. ToSet(AfterRecord(dedup[c], InHand(c).key, Capacity))
            \subseteq ToSet(dedup[c]) \cup {InHand(c).key}
    BY <2>1, AfterRecordProperties DEF CallerFreeInv, TypeOK
  <2>. QED BY <1>14, <2>2
           DEF HandlerReturns, WindowKeysWereHandled, CallerFreeInv, TypeOK
<1>15. ASSUME NEW c \in Consumers, HandlerRaises(c)
      PROVE  WindowKeysWereHandled'
  BY <1>15
     DEF CallerFreeInv, TypeOK, WindowKeysWereHandled, EmptyWindow, ToSet,
         HandlerRaises, ExceptionFromHandler
<1>16. ASSUME NEW c \in Consumers, Commit(c)
      PROVE  WindowKeysWereHandled'
  BY <1>16
     DEF CallerFreeInv, TypeOK, WindowKeysWereHandled, EmptyWindow, ToSet,
         Commit, CommitOffset, MayCommit
<1>17. ASSUME NEW c \in Consumers, CommitRefused(c)
      PROVE  WindowKeysWereHandled'
  BY <1>17
     DEF CallerFreeInv, TypeOK, WindowKeysWereHandled, EmptyWindow, ToSet,
         CommitRefused
<1>18. ASSUME NEW c \in Consumers, CommitFails(c)
      PROVE  WindowKeysWereHandled'
  BY <1>18
     DEF CallerFreeInv, TypeOK, WindowKeysWereHandled, EmptyWindow, ToSet,
         CommitFails, CommitOffset, MayCommit
<1>19. CASE UNCHANGED vars
  BY <1>19
     DEF CallerFreeInv, TypeOK, WindowKeysWereHandled, EmptyWindow, ToSet, vars
<1>. QED
  BY <1>1, <1>2, <1>3, <1>4, <1>5, <1>6, <1>7, <1>8, <1>9, <1>10,
     <1>11, <1>12, <1>13, <1>14, <1>15, <1>16, <1>17, <1>18, <1>19
     DEF Next, PollOnce, HandlerEnds, CommitEnds

LEMMA NextCommittedWithinLog == CallerFreeInv /\ [Next]_vars => CommittedWithinLog'
<1> SUFFICES ASSUME CallerFreeInv, [Next]_vars PROVE CommittedWithinLog'
  OBVIOUS
<1> USE ConsumerAssumption DEF Become, brokerVars, memoryVars
<1>1. ASSUME NEW p \in Partitions, NEW e \in Events, Publish(p, e)
      PROVE  CommittedWithinLog'
  BY <1>1 DEF CallerFreeInv, TypeOK, CommittedWithinLog, Publish
<1>2. ASSUME NEW p \in Partitions, NEW c \in Consumers, Assign(p, c)
      PROVE  CommittedWithinLog'
  BY <1>2 DEF CallerFreeInv, TypeOK, CommittedWithinLog, Assign, GivePartition
<1>3. ASSUME NEW p \in Partitions, NEW c \in Consumers, Rebalance(p, c)
      PROVE  CommittedWithinLog'
  BY <1>3 DEF CallerFreeInv, TypeOK, CommittedWithinLog, Rebalance, GivePartition
<1>4. ASSUME NEW c \in Consumers, Start(c)
      PROVE  CommittedWithinLog'
  BY <1>4 DEF CallerFreeInv, TypeOK, CommittedWithinLog, Start
<1>5. ASSUME NEW c \in Consumers, Crash(c)
      PROVE  CommittedWithinLog'
  BY <1>5 DEF CallerFreeInv, TypeOK, CommittedWithinLog, Crash, Vanish, Release
<1>6. ASSUME NEW c \in Consumers, Close(c)
      PROVE  CommittedWithinLog'
  BY <1>6 DEF CallerFreeInv, TypeOK, CommittedWithinLog, Close, Release
<1>7. ASSUME NEW c \in Consumers, LeaveLoop(c)
      PROVE  CommittedWithinLog'
  BY <1>7 DEF CallerFreeInv, TypeOK, CommittedWithinLog, LeaveLoop, Vanish, Release
<1>8. ASSUME NEW c \in Consumers, Exit(c)
      PROVE  CommittedWithinLog'
  BY <1>8 DEF CallerFreeInv, TypeOK, CommittedWithinLog, Exit, Vanish, Release
<1>9. ASSUME NEW c \in Consumers, Resume(c)
      PROVE  CommittedWithinLog'
  BY <1>9 DEF CallerFreeInv, TypeOK, CommittedWithinLog, Resume
<1>10. ASSUME NEW c \in Consumers, NEW p \in Partitions, Reject(c, p)
      PROVE  CommittedWithinLog'
  BY <1>10 DEF CallerFreeInv, TypeOK, CommittedWithinLog, Reject, Fetch
<1>11. ASSUME NEW c \in Consumers, NEW p \in Partitions, SkipDuplicate(c, p)
      PROVE  CommittedWithinLog'
  BY <1>11
     DEF CallerFreeInv, TypeOK, CommittedWithinLog, SkipDuplicate, Fetch, Fetched
<1>12. ASSUME NEW c \in Consumers, NEW p \in Partitions, CallHandler(c, p)
      PROVE  CommittedWithinLog'
  BY <1>12
     DEF CallerFreeInv, TypeOK, CommittedWithinLog, CallHandler, Fetch, Fetched
<1>13. ASSUME NEW c \in Consumers, PollFails(c)
      PROVE  CommittedWithinLog'
  BY <1>13 DEF CallerFreeInv, TypeOK, CommittedWithinLog, PollFails
<1>14. ASSUME NEW c \in Consumers, HandlerReturns(c)
      PROVE  CommittedWithinLog'
  BY <1>14 DEF CallerFreeInv, TypeOK, CommittedWithinLog, HandlerReturns
<1>15. ASSUME NEW c \in Consumers, HandlerRaises(c)
      PROVE  CommittedWithinLog'
  BY <1>15
     DEF CallerFreeInv, TypeOK, CommittedWithinLog, HandlerRaises,
         ExceptionFromHandler
<1>16. ASSUME NEW c \in Consumers, Commit(c)
      PROVE  CommittedWithinLog'
  <2>1. /\ current[c] \in Partitions \X Nat
        /\ current[c][2] \in 1..Len(log[current[c][1]])
    BY <1>16, InHandType DEF Commit, Busy, CallerFreeInv
  <2>. QED BY <1>16, <2>1
     DEF Commit, CommitOffset, CommittedWithinLog, CallerFreeInv, TypeOK
<1>17. ASSUME NEW c \in Consumers, CommitRefused(c)
      PROVE  CommittedWithinLog'
  BY <1>17 DEF CallerFreeInv, TypeOK, CommittedWithinLog, CommitRefused
<1>18. ASSUME NEW c \in Consumers, CommitFails(c)
      PROVE  CommittedWithinLog'
  <2>1. /\ current[c] \in Partitions \X Nat
        /\ current[c][2] \in 1..Len(log[current[c][1]])
    BY <1>18, InHandType DEF CommitFails, Busy, CallerFreeInv
  <2>2. /\ log' = log
        /\ \/ committed' = committed
           \/ committed' = [committed EXCEPT ![current[c][1]] = current[c][2]]
    BY <1>18 DEF CommitFails, CommitOffset
  <2>3. CASE committed' = committed
    BY <2>2, <2>3 DEF CommittedWithinLog, CallerFreeInv
  <2>4. CASE committed' = [committed EXCEPT ![current[c][1]] = current[c][2]]
    BY <2>1, <2>2, <2>4 DEF CommittedWithinLog, CallerFreeInv, TypeOK
  <2>. QED BY <2>2, <2>3, <2>4
<1>19. CASE UNCHANGED vars
  BY <1>19 DEF CallerFreeInv, TypeOK, CommittedWithinLog, vars
<1>. QED
  BY <1>1, <1>2, <1>3, <1>4, <1>5, <1>6, <1>7, <1>8, <1>9, <1>10,
     <1>11, <1>12, <1>13, <1>14, <1>15, <1>16, <1>17, <1>18, <1>19
     DEF Next, PollOnce, HandlerEnds, CommitEnds

-----------------------------------------------------------------------------
(***************************************************************************)
(* What holds whatever the caller does after an exception.                 *)
(***************************************************************************)
LEMMA InitCallerFreeInv == Init => CallerFreeInv
BY InitTypeOK, TopicAssumption, ConsumerAssumption
   DEF Init, CallerFreeInv, InHandIsReady, OwnerIsAhead, WindowKeysWereHandled,
       CommittedWithinLog, Busy, EmptyWindow, ToSet

LEMMA NextCallerFreeInv == CallerFreeInv /\ [Next]_vars => CallerFreeInv'
BY NextTypeOK, NextInHandIsReady, NextOwnerIsAhead, NextWindowKeysWereHandled,
   NextCommittedWithinLog DEF CallerFreeInv

LEMMA AlwaysCallerFreeInv == Spec => []CallerFreeInv
BY InitCallerFreeInv, NextCallerFreeInv, PTL DEF Spec

\* Type correctness: through any number of crashes, rebalances, exceptions and
\* resumptions the state of the group keeps its shape, and the window of
\* InMemoryDedupStore its capacity (consumer.py 83-114).
THEOREM TypeCorrect == Spec => []TypeOK
<1>1. CallerFreeInv => TypeOK
  BY DEF CallerFreeInv
<1>. QED BY <1>1, AlwaysCallerFreeInv, PTL

\* A step that changes a committed offset is the commit of a busy consumer
\* that owns the partition; it moves the offset to the message in hand.
LEMMA OnlyCommitMovesOffsets ==
    ASSUME CallerFreeInv, [Next]_vars, NEW p \in Partitions, committed'[p] # committed[p]
    PROVE  /\ log' = log /\ handled' = handled
           /\ \E c \in Consumers :
                 /\ status[c] = "committing" /\ owner[p] = c
                 /\ current[c] = <<p, committed'[p]>>
                 /\ committed' = [committed EXCEPT ![p] = current[c][2]]
<1>1. ASSUME NEW c \in Consumers, status[c] = "committing", MayCommit(c), CommitOffset(c)
      PROVE  /\ owner[p] = c
             /\ current[c] = <<p, committed'[p]>>
             /\ committed' = [committed EXCEPT ![p] = current[c][2]]
  <2>1. current[c] \in Partitions \X Nat
    BY <1>1, InHandType DEF Busy, CallerFreeInv
  <2>2. current[c][1] = p
    BY <1>1, <2>1 DEF CommitOffset, CallerFreeInv, TypeOK
  <2>. QED BY <1>1, <2>1, <2>2 DEF CommitOffset, MayCommit, CallerFreeInv, TypeOK
<1>2. ASSUME NEW c \in Consumers, Commit(c)
      PROVE  log' = log /\ handled' = handled /\ status[c] = "committing"
                /\ MayCommit(c) /\ CommitOffset(c)
  BY <1>2 DEF Commit
<1>3. ASSUME NEW c \in Consumers, CommitFails(c)
      PROVE  log' = log /\ handled' = handled /\ status[c] = "committing"
                /\ MayCommit(c) /\ CommitOffset(c)
  BY <1>3 DEF CommitFails
<1>4. \E c \in Consumers : Commit(c) \/ CommitFails(c)
  BY DEF Next, Publish, Assign, Rebalance, GivePartition, Start, Crash, Vanish, Close,
         LeaveLoop, Exit, Resume, PollOnce, Reject, SkipDuplicate, CallHandler, Fetch,
         PollFails, HandlerEnds, HandlerReturns, HandlerRaises,
         ExceptionFromHandler, CommitEnds,
         CommitRefused, brokerVars, vars
<1>. QED BY <1>1, <1>2, <1>3, <1>4

LEMMA StepCommitFollowsSuccess ==
    ASSUME CallerFreeInv, [Next]_vars, NEW p \in Partitions, committed'[p] # committed[p]
    PROVE  LET e == log[p][committed'[p]]
           IN  IsValid(e) /\ e.key \in handled
<1>1. PICK c \in Consumers : status[c] = "committing" /\ current[c] = <<p, committed'[p]>>
  BY OnlyCommitMovesOffsets
<1>2. InHand(c) = log[p][committed'[p]]
  BY <1>1 DEF InHand
<1>3. IsValid(InHand(c)) /\ InHand(c).key \in handled
  BY <1>1 DEF CallerFreeInv, InHandIsReady, Busy
<1>. QED BY <1>2, <1>3

\* poll_once commits only after the handler returned or seen() answered True
\* (consumer.py 219-230): the offset that a commit sets is that of a valid
\* event whose key was handled, whatever the caller does after an exception.
THEOREM CommitsFollowSuccess == Spec => CommitFollowsSuccess
<1>1. CallerFreeInv /\ [Next]_vars =>
        [\A p \in Partitions : committed'[p] # committed[p] =>
            LET e == log[p][committed'[p]]
            IN  IsValid(e) /\ e.key \in handled]_vars
  BY StepCommitFollowsSuccess
<1>. QED BY <1>1, AlwaysCallerFreeInv, PTL DEF Spec, CommitFollowsSuccess

LEMMA StepCommittedNeverRetreats ==
    ASSUME CallerFreeInv, [Next]_vars, NEW p \in Partitions
    PROVE  committed'[p] >= committed[p]
<1>1. CASE committed'[p] = committed[p]
  BY <1>1 DEF CallerFreeInv, TypeOK
<1>2. CASE committed'[p] # committed[p]
  <2>1. PICK c \in Consumers : /\ status[c] = "committing" /\ owner[p] = c
                               /\ current[c] = <<p, committed'[p]>>
    BY <1>2, OnlyCommitMovesOffsets
  <2>2. current[c][1] = p /\ current[c][2] = committed'[p]
    BY <2>1
  <2>3. current[c][2] = position[p] /\ committed[p] < position[p]
    BY <2>1, <2>2, ConsumerAssumption DEF CallerFreeInv, OwnerIsAhead, Busy
  <2>. QED BY <2>2, <2>3 DEF CallerFreeInv, TypeOK
<1>. QED BY <1>1, <1>2

\* The commit of a consumer that lost its partition, or that resumed after an
\* exception (consumer.py 275-285), never moves the group back.
THEOREM CommittedOnlyGrows == Spec => CommittedNeverRetreats
<1>1. CallerFreeInv /\ [Next]_vars =>
        [\A p \in Partitions : committed'[p] >= committed[p]]_vars
  BY StepCommittedNeverRetreats
<1>. QED BY <1>1, AlwaysCallerFreeInv, PTL DEF Spec, CommittedNeverRetreats

-----------------------------------------------------------------------------
(***************************************************************************)
(* What holds when the caller gives its consumer up after an exception.    *)
(***************************************************************************)
LEMMA NextStoppedOwnsNothing ==
    ExitingCallerInv /\ ~CallerResumes /\ [Next]_vars => StoppedOwnsNothing'
<1> SUFFICES ASSUME ExitingCallerInv /\ ~CallerResumes, [Next]_vars
             PROVE  StoppedOwnsNothing'
  OBVIOUS
<1> USE ConsumerAssumption DEF Become, brokerVars, memoryVars
<1>1. ASSUME NEW p \in Partitions, NEW e \in Events, Publish(p, e)
      PROVE  StoppedOwnsNothing'
  BY <1>1 DEF ExitingCallerInv, CallerFreeInv, TypeOK, StoppedOwnsNothing, Publish
<1>2. ASSUME NEW p \in Partitions, NEW c \in Consumers, Assign(p, c)
      PROVE  StoppedOwnsNothing'
  BY <1>2
     DEF ExitingCallerInv, CallerFreeInv, TypeOK, StoppedOwnsNothing, Assign,
         GivePartition
<1>3. ASSUME NEW p \in Partitions, NEW c \in Consumers, Rebalance(p, c)
      PROVE  StoppedOwnsNothing'
  BY <1>3
     DEF ExitingCallerInv, CallerFreeInv, TypeOK, StoppedOwnsNothing, Rebalance,
         GivePartition
<1>4. ASSUME NEW c \in Consumers, Start(c)
      PROVE  StoppedOwnsNothing'
  BY <1>4 DEF ExitingCallerInv, CallerFreeInv, TypeOK, StoppedOwnsNothing, Start
<1>5. ASSUME NEW c \in Consumers, Crash(c)
      PROVE  StoppedOwnsNothing'
  BY <1>5
     DEF ExitingCallerInv, CallerFreeInv, TypeOK, StoppedOwnsNothing, Crash,
         Vanish, Release
<1>6. ASSUME NEW c \in Consumers, Close(c)
      PROVE  StoppedOwnsNothing'
  BY <1>6
     DEF ExitingCallerInv, CallerFreeInv, TypeOK, StoppedOwnsNothing, Close,
         Release
<1>7. ASSUME NEW c \in Consumers, LeaveLoop(c)
      PROVE  StoppedOwnsNothing'
  BY <1>7
     DEF ExitingCallerInv, CallerFreeInv, TypeOK, StoppedOwnsNothing, LeaveLoop,
         Vanish, Release
<1>8. ASSUME NEW c \in Consumers, Exit(c)
      PROVE  StoppedOwnsNothing'
  BY <1>8
     DEF ExitingCallerInv, CallerFreeInv, TypeOK, StoppedOwnsNothing, Exit,
         Vanish, Release
<1>9. ASSUME NEW c \in Consumers, Resume(c)
      PROVE  StoppedOwnsNothing'
  BY <1>9 DEF ExitingCallerInv, CallerFreeInv, TypeOK, StoppedOwnsNothing, Resume
<1>10. ASSUME NEW c \in Consumers, NEW p \in Partitions, Reject(c, p)
      PROVE  StoppedOwnsNothing'
  BY <1>10
     DEF ExitingCallerInv, CallerFreeInv, TypeOK, StoppedOwnsNothing, Reject,
         Fetch
<1>11. ASSUME NEW c \in Consumers, NEW p \in Partitions, SkipDuplicate(c, p)
      PROVE  StoppedOwnsNothing'
  BY <1>11
     DEF ExitingCallerInv, CallerFreeInv, TypeOK, StoppedOwnsNothing,
         SkipDuplicate, Fetch, Fetched
<1>12. ASSUME NEW c \in Consumers, NEW p \in Partitions, CallHandler(c, p)
      PROVE  StoppedOwnsNothing'
  BY <1>12
     DEF ExitingCallerInv, CallerFreeInv, TypeOK, StoppedOwnsNothing,
         CallHandler, Fetch, Fetched
<1>13. ASSUME NEW c \in Consumers, PollFails(c)
      PROVE  StoppedOwnsNothing'
  BY <1>13
     DEF ExitingCallerInv, CallerFreeInv, TypeOK, StoppedOwnsNothing, PollFails
<1>14. ASSUME NEW c \in Consumers, HandlerReturns(c)
      PROVE  StoppedOwnsNothing'
  BY <1>14
     DEF ExitingCallerInv, CallerFreeInv, TypeOK, StoppedOwnsNothing,
         HandlerReturns
<1>15. ASSUME NEW c \in Consumers, HandlerRaises(c)
      PROVE  StoppedOwnsNothing'
  BY <1>15
     DEF ExitingCallerInv, CallerFreeInv, TypeOK, StoppedOwnsNothing,
         HandlerRaises, ExceptionFromHandler
<1>16. ASSUME NEW c \in Consumers, Commit(c)
      PROVE  StoppedOwnsNothing'
  BY <1>16
     DEF ExitingCallerInv, CallerFreeInv, TypeOK, StoppedOwnsNothing, Commit,
         CommitOffset, MayCommit
<1>17. ASSUME NEW c \in Consumers, CommitRefused(c)
      PROVE  StoppedOwnsNothing'
  BY <1>17
     DEF ExitingCallerInv, CallerFreeInv, TypeOK, StoppedOwnsNothing,
         CommitRefused
<1>18. ASSUME NEW c \in Consumers, CommitFails(c)
      PROVE  StoppedOwnsNothing'
  BY <1>18
     DEF ExitingCallerInv, CallerFreeInv, TypeOK, StoppedOwnsNothing,
         CommitFails, CommitOffset, MayCommit
<1>19. CASE UNCHANGED vars
  BY <1>19 DEF ExitingCallerInv, CallerFreeInv, TypeOK, StoppedOwnsNothing, vars
<1>. QED
  BY <1>1, <1>2, <1>3, <1>4, <1>5, <1>6, <1>7, <1>8, <1>9, <1>10,
     <1>11, <1>12, <1>13, <1>14, <1>15, <1>16, <1>17, <1>18, <1>19
     DEF Next, PollOnce, HandlerEnds, CommitEnds

LEMMA NextInHandIsNext == ExitingCallerInv /\ ~CallerResumes /\ [Next]_vars => InHandIsNext'
<1> SUFFICES ASSUME ExitingCallerInv /\ ~CallerResumes, [Next]_vars
             PROVE  InHandIsNext'
  OBVIOUS
<1> USE ConsumerAssumption DEF Become, brokerVars, memoryVars
<1>1. ASSUME NEW p \in Partitions, NEW e \in Events, Publish(p, e)
      PROVE  InHandIsNext'
  BY <1>1 DEF ExitingCallerInv, CallerFreeInv, TypeOK, InHandIsNext, Busy, Publish
<1>2. ASSUME NEW p \in Partitions, NEW c \in Consumers, Assign(p, c)
      PROVE  InHandIsNext'
  BY <1>2
     DEF ExitingCallerInv, CallerFreeInv, TypeOK, InHandIsNext, Busy, Assign,
         GivePartition
<1>3. ASSUME NEW p \in Partitions, NEW c \in Consumers, Rebalance(p, c)
      PROVE  InHandIsNext'
  BY <1>3
     DEF ExitingCallerInv, CallerFreeInv, TypeOK, InHandIsNext, Busy, Rebalance,
         GivePartition
<1>4. ASSUME NEW c \in Consumers, Start(c)
      PROVE  InHandIsNext'
  BY <1>4 DEF ExitingCallerInv, CallerFreeInv, TypeOK, InHandIsNext, Busy, Start
<1>5. ASSUME NEW c \in Consumers, Crash(c)
      PROVE  InHandIsNext'
  BY <1>5
     DEF ExitingCallerInv, CallerFreeInv, TypeOK, InHandIsNext, Busy, Crash,
         Vanish, Release
<1>6. ASSUME NEW c \in Consumers, Close(c)
      PROVE  InHandIsNext'
  BY <1>6
     DEF ExitingCallerInv, CallerFreeInv, TypeOK, InHandIsNext, Busy, Close,
         Release
<1>7. ASSUME NEW c \in Consumers, LeaveLoop(c)
      PROVE  InHandIsNext'
  BY <1>7
     DEF ExitingCallerInv, CallerFreeInv, TypeOK, InHandIsNext, Busy, LeaveLoop,
         Vanish, Release
<1>8. ASSUME NEW c \in Consumers, Exit(c)
      PROVE  InHandIsNext'
  BY <1>8
     DEF ExitingCallerInv, CallerFreeInv, TypeOK, InHandIsNext, Busy, Exit,
         Vanish, Release
<1>9. ASSUME NEW c \in Consumers, Resume(c)
      PROVE  InHandIsNext'
  BY <1>9 DEF ExitingCallerInv, CallerFreeInv, TypeOK, InHandIsNext, Busy, Resume
<1>10. ASSUME NEW c \in Consumers, NEW p \in Partitions, Reject(c, p)
      PROVE  InHandIsNext'
  BY <1>10
     DEF ExitingCallerInv, CallerFreeInv, TypeOK, InHandIsNext, Busy, Reject,
         Fetch
<1>11. ASSUME NEW c \in Consumers, NEW p \in Partitions, SkipDuplicate(c, p)
      PROVE  InHandIsNext'
  <2>1. /\ current'[c] = <<p, position[p] + 1>> /\ position[p] = committed[p]
        /\ committed' = committed
    BY <1>11
       DEF SkipDuplicate, Fetch, ExitingCallerInv, CallerFreeInv, TypeOK,
           PositionIsCommitted
  <2>2. \A d \in Consumers \ {c} : status'[d] = status[d] /\ current'[d] = current[d]
    BY <1>11 DEF SkipDuplicate, Fetch, ExitingCallerInv, CallerFreeInv, TypeOK
  <2>3. \A d \in Consumers \ {c} : Busy(d)' <=> Busy(d)
    BY <2>2 DEF Busy
  <2>4. p \in Partitions /\ committed[p] \in Nat
    BY DEF ExitingCallerInv, CallerFreeInv, TypeOK
  <2>. QED BY <2>1, <2>2, <2>3, <2>4 DEF InHandIsNext, ExitingCallerInv
<1>12. ASSUME NEW c \in Consumers, NEW p \in Partitions, CallHandler(c, p)
      PROVE  InHandIsNext'
  <2>1. /\ current'[c] = <<p, position[p] + 1>> /\ position[p] = committed[p]
        /\ committed' = committed
    BY <1>12
       DEF CallHandler, Fetch, ExitingCallerInv, CallerFreeInv, TypeOK,
           PositionIsCommitted
  <2>2. \A d \in Consumers \ {c} : status'[d] = status[d] /\ current'[d] = current[d]
    BY <1>12 DEF CallHandler, Fetch, ExitingCallerInv, CallerFreeInv, TypeOK
  <2>3. \A d \in Consumers \ {c} : Busy(d)' <=> Busy(d)
    BY <2>2 DEF Busy
  <2>4. p \in Partitions /\ committed[p] \in Nat
    BY DEF ExitingCallerInv, CallerFreeInv, TypeOK
  <2>. QED BY <2>1, <2>2, <2>3, <2>4 DEF InHandIsNext, ExitingCallerInv
<1>13. ASSUME NEW c \in Consumers, PollFails(c)
      PROVE  InHandIsNext'
  BY <1>13
     DEF ExitingCallerInv, CallerFreeInv, TypeOK, InHandIsNext, Busy, PollFails
<1>14. ASSUME NEW c \in Consumers, HandlerReturns(c)
      PROVE  InHandIsNext'
  BY <1>14
     DEF ExitingCallerInv, CallerFreeInv, TypeOK, InHandIsNext, Busy,
         HandlerReturns
<1>15. ASSUME NEW c \in Consumers, HandlerRaises(c)
      PROVE  InHandIsNext'
  BY <1>15
     DEF ExitingCallerInv, CallerFreeInv, TypeOK, InHandIsNext, Busy,
         HandlerRaises, ExceptionFromHandler
<1>16. ASSUME NEW c \in Consumers, Commit(c)
      PROVE  InHandIsNext'
  <2>1. \A p \in Partitions : committed'[p] >= committed[p]
    BY StepCommittedNeverRetreats DEF ExitingCallerInv
  <2>2. \A d \in Consumers : Busy(d)' => Busy(d) /\ current'[d] = current[d]
    BY <1>16 DEF Commit, Busy, ExitingCallerInv, CallerFreeInv, TypeOK
  <2>3. \A d \in Consumers : Busy(d) => current[d] \in Partitions \X Nat
    BY DEF ExitingCallerInv, CallerFreeInv, InHandIsReady, TypeOK
  <2>4. committed' \in [Partitions -> Nat] /\ committed \in [Partitions -> Nat]
    BY NextCallerFreeInv DEF ExitingCallerInv, CallerFreeInv, TypeOK
  <2>. QED BY <2>1, <2>2, <2>3, <2>4 DEF InHandIsNext, ExitingCallerInv
<1>17. ASSUME NEW c \in Consumers, CommitRefused(c)
      PROVE  InHandIsNext'
  BY <1>17
     DEF ExitingCallerInv, CallerFreeInv, TypeOK, InHandIsNext, Busy,
         CommitRefused
<1>18. ASSUME NEW c \in Consumers, CommitFails(c)
      PROVE  InHandIsNext'
  <2>1. \A p \in Partitions : committed'[p] >= committed[p]
    BY StepCommittedNeverRetreats DEF ExitingCallerInv
  <2>2. \A d \in Consumers : Busy(d)' => Busy(d) /\ current'[d] = current[d]
    BY <1>18 DEF CommitFails, Busy, ExitingCallerInv, CallerFreeInv, TypeOK
  <2>3. \A d \in Consumers : Busy(d) => current[d] \in Partitions \X Nat
    BY DEF ExitingCallerInv, CallerFreeInv, InHandIsReady, TypeOK
  <2>4. committed' \in [Partitions -> Nat] /\ committed \in [Partitions -> Nat]
    BY NextCallerFreeInv DEF ExitingCallerInv, CallerFreeInv, TypeOK
  <2>. QED BY <2>1, <2>2, <2>3, <2>4 DEF InHandIsNext, ExitingCallerInv
<1>19. CASE UNCHANGED vars
  BY <1>19 DEF ExitingCallerInv, CallerFreeInv, TypeOK, InHandIsNext, Busy, vars
<1>. QED
  BY <1>1, <1>2, <1>3, <1>4, <1>5, <1>6, <1>7, <1>8, <1>9, <1>10,
     <1>11, <1>12, <1>13, <1>14, <1>15, <1>16, <1>17, <1>18, <1>19
     DEF Next, PollOnce, HandlerEnds, CommitEnds

LEMMA NextPositionIsCommitted ==
    ExitingCallerInv /\ ~CallerResumes /\ [Next]_vars => PositionIsCommitted'
<1> SUFFICES ASSUME ExitingCallerInv /\ ~CallerResumes, [Next]_vars
             PROVE  PositionIsCommitted'
  OBVIOUS
<1> USE ConsumerAssumption DEF Become, brokerVars, memoryVars
<1>1. ASSUME NEW p \in Partitions, NEW e \in Events, Publish(p, e)
      PROVE  PositionIsCommitted'
  BY <1>1
     DEF ExitingCallerInv, CallerFreeInv, TypeOK, PositionIsCommitted,
         StoppedOwnsNothing, Busy, Publish
<1>2. ASSUME NEW p \in Partitions, NEW c \in Consumers, Assign(p, c)
      PROVE  PositionIsCommitted'
  BY <1>2
     DEF ExitingCallerInv, CallerFreeInv, TypeOK, PositionIsCommitted,
         StoppedOwnsNothing, Busy, Assign, GivePartition
<1>3. ASSUME NEW p \in Partitions, NEW c \in Consumers, Rebalance(p, c)
      PROVE  PositionIsCommitted'
  BY <1>3
     DEF ExitingCallerInv, CallerFreeInv, TypeOK, PositionIsCommitted,
         StoppedOwnsNothing, Busy, Rebalance, GivePartition
<1>4. ASSUME NEW c \in Consumers, Start(c)
      PROVE  PositionIsCommitted'
  BY <1>4
     DEF ExitingCallerInv, CallerFreeInv, TypeOK, PositionIsCommitted,
         StoppedOwnsNothing, Busy, Start
<1>5. ASSUME NEW c \in Consumers, Crash(c)
      PROVE  PositionIsCommitted'
  BY <1>5
     DEF ExitingCallerInv, CallerFreeInv, TypeOK, PositionIsCommitted,
         StoppedOwnsNothing, Busy, Crash, Vanish, Release
<1>6. ASSUME NEW c \in Consumers, Close(c)
      PROVE  PositionIsCommitted'
  BY <1>6
     DEF ExitingCallerInv, CallerFreeInv, TypeOK, PositionIsCommitted,
         StoppedOwnsNothing, Busy, Close, Release
<1>7. ASSUME NEW c \in Consumers, LeaveLoop(c)
      PROVE  PositionIsCommitted'
  BY <1>7
     DEF ExitingCallerInv, CallerFreeInv, TypeOK, PositionIsCommitted,
         StoppedOwnsNothing, Busy, LeaveLoop, Vanish, Release
<1>8. ASSUME NEW c \in Consumers, Exit(c)
      PROVE  PositionIsCommitted'
  BY <1>8
     DEF ExitingCallerInv, CallerFreeInv, TypeOK, PositionIsCommitted,
         StoppedOwnsNothing, Busy, Exit, Vanish, Release
<1>9. ASSUME NEW c \in Consumers, Resume(c)
      PROVE  PositionIsCommitted'
  BY <1>9
     DEF ExitingCallerInv, CallerFreeInv, TypeOK, PositionIsCommitted,
         StoppedOwnsNothing, Busy, Resume
<1>10. ASSUME NEW c \in Consumers, NEW p \in Partitions, Reject(c, p)
      PROVE  PositionIsCommitted'
  BY <1>10
     DEF ExitingCallerInv, CallerFreeInv, TypeOK, PositionIsCommitted,
         StoppedOwnsNothing, Busy, Reject, Fetch
<1>11. ASSUME NEW c \in Consumers, NEW p \in Partitions, SkipDuplicate(c, p)
      PROVE  PositionIsCommitted'
  BY <1>11
     DEF ExitingCallerInv, CallerFreeInv, TypeOK, PositionIsCommitted,
         StoppedOwnsNothing, Busy, SkipDuplicate, Fetch, Fetched
<1>12. ASSUME NEW c \in Consumers, NEW p \in Partitions, CallHandler(c, p)
      PROVE  PositionIsCommitted'
  BY <1>12
     DEF ExitingCallerInv, CallerFreeInv, TypeOK, PositionIsCommitted,
         StoppedOwnsNothing, Busy, CallHandler, Fetch, Fetched
<1>13. ASSUME NEW c \in Consumers, PollFails(c)
      PROVE  PositionIsCommitted'
  BY <1>13
     DEF ExitingCallerInv, CallerFreeInv, TypeOK, PositionIsCommitted,
         StoppedOwnsNothing, Busy, PollFails
<1>14. ASSUME NEW c \in Consumers, HandlerReturns(c)
      PROVE  PositionIsCommitted'
  BY <1>14
     DEF ExitingCallerInv, CallerFreeInv, TypeOK, PositionIsCommitted,
         StoppedOwnsNothing, Busy, HandlerReturns
<1>15. ASSUME NEW c \in Consumers, HandlerRaises(c)
      PROVE  PositionIsCommitted'
  BY <1>15
     DEF ExitingCallerInv, CallerFreeInv, TypeOK, PositionIsCommitted,
         StoppedOwnsNothing, Busy, HandlerRaises, ExceptionFromHandler
<1>16. ASSUME NEW c \in Consumers, Commit(c)
      PROVE  PositionIsCommitted'
  <2>1. \A q \in Partitions : owner'[q] = owner[q] /\ position'[q] = position[q]
    BY <1>16 DEF Commit
  <2>2. PICK p \in Partitions :
              /\ current[c] = <<p, position[p]>> /\ owner[p] = c
              /\ committed' = [committed EXCEPT ![p] = position[p]]
    <3>1. current[c] \in Partitions \X Nat /\ current[c][1] \in Partitions
      BY <1>16, InHandType DEF Commit, Busy, ExitingCallerInv, CallerFreeInv
    <3>2. Busy(c) /\ owner[current[c][1]] = c
      BY <1>16 DEF Commit, MayCommit, Busy
    <3>3. current[c][2] = position[current[c][1]]
      BY <3>1, <3>2 DEF OwnerIsAhead, ExitingCallerInv, CallerFreeInv
    <3>4. committed' = [committed EXCEPT ![current[c][1]] = position[current[c][1]]]
      BY <1>16, <3>3 DEF Commit, CommitOffset
    <3>5. current[c] = <<current[c][1], position[current[c][1]]>>
      BY <3>1, <3>3
    <3>. QED BY <3>1, <3>2, <3>4, <3>5
  <2>3. Busy(c) /\ current[c][1] = p
    BY <1>16, <2>2 DEF Commit, Busy
  <2>4. \A d \in Consumers \ {c} : status'[d] = status[d] /\ current'[d] = current[d]
    BY <1>16 DEF Commit, ExitingCallerInv, CallerFreeInv, TypeOK
  <2> SUFFICES ASSUME NEW q \in Partitions, owner'[q] # None,
                      \/ status'[owner'[q]] = "polling"
                      \/ Busy(owner[q])' /\ current'[owner'[q]][1] # q
               PROVE  position'[q] = committed'[q]
    BY <2>1 DEF PositionIsCommitted, Busy
  <2>5. CASE q = p
    BY <2>1, <2>2, <2>5 DEF ExitingCallerInv, CallerFreeInv, TypeOK
  <2>6. CASE q # p
    <3>1. committed'[q] = committed[q]
      BY <2>2, <2>6 DEF ExitingCallerInv, CallerFreeInv, TypeOK
    <3>2. CASE owner[q] = c
      BY <2>1, <2>3, <2>6, <3>1, <3>2 DEF PositionIsCommitted, ExitingCallerInv
    <3>3. CASE owner[q] # c
      <4>1. owner[q] \in Consumers \ {c}
        BY <2>1, <3>3 DEF ExitingCallerInv, CallerFreeInv, TypeOK
      <4>2. status'[owner[q]] = status[owner[q]] /\ current'[owner[q]] = current[owner[q]]
        BY <2>4, <4>1
      <4>. QED BY <2>1, <3>1, <4>1, <4>2
         DEF PositionIsCommitted, Busy, ExitingCallerInv
    <3>. QED BY <3>2, <3>3
  <2>. QED BY <2>5, <2>6
<1>17. ASSUME NEW c \in Consumers, CommitRefused(c)
      PROVE  PositionIsCommitted'
  BY <1>17
     DEF ExitingCallerInv, CallerFreeInv, TypeOK, PositionIsCommitted,
         StoppedOwnsNothing, Busy, CommitRefused
<1>18. ASSUME NEW c \in Consumers, CommitFails(c)
      PROVE  PositionIsCommitted'
  BY <1>18
     DEF ExitingCallerInv, CallerFreeInv, TypeOK, PositionIsCommitted,
         StoppedOwnsNothing, Busy, CommitFails, CommitOffset, MayCommit
<1>19. CASE UNCHANGED vars
  BY <1>19
     DEF ExitingCallerInv, CallerFreeInv, TypeOK, PositionIsCommitted,
         StoppedOwnsNothing, Busy, vars
<1>. QED
  BY <1>1, <1>2, <1>3, <1>4, <1>5, <1>6, <1>7, <1>8, <1>9, <1>10,
     <1>11, <1>12, <1>13, <1>14, <1>15, <1>16, <1>17, <1>18, <1>19
     DEF Next, PollOnce, HandlerEnds, CommitEnds

\* No step takes an event out of the log or a key out of handled.
LEMMA HistoryGrows ==
    ASSUME TypeOK, [Next]_vars
    PROVE  /\ handled \subseteq handled'
           /\ \A p \in Partitions : \A i \in 1..Len(log[p]) : log'[p][i] = log[p][i]
<1>1. CASE \E p \in Partitions, e \in Events : Publish(p, e)
  <2>1. PICK p \in Partitions, e \in Events : Publish(p, e)
    BY <1>1
  <2>2. log[p] \in Seq(Events) /\ log' = [log EXCEPT ![p] = Append(@, e)] /\ handled' = handled
    BY <2>1 DEF Publish, TypeOK
  <2>3. \A i \in 1..Len(log[p]) : Append(log[p], e)[i] = log[p][i]
    BY <2>2
  <2>. QED BY <2>2, <2>3 DEF TypeOK
<1>2. CASE ~ \E p \in Partitions, e \in Events : Publish(p, e)
  <2>1. log' = log
    BY <1>2 DEF Next, Assign, Rebalance, GivePartition, Start, Crash, Vanish, Close,
         LeaveLoop, Exit, Resume, PollOnce, Reject, SkipDuplicate, CallHandler, Fetch,
         PollFails, HandlerEnds, HandlerReturns, HandlerRaises,
         ExceptionFromHandler, CommitEnds, Commit,
         CommitRefused, CommitFails, brokerVars, vars
  <2>2. handled \subseteq handled'
    BY DEF Next, Publish, Assign, Rebalance, GivePartition, Start, Crash, Vanish, Close,
         LeaveLoop, Exit, Resume, PollOnce, Reject, SkipDuplicate, CallHandler, Fetch,
         PollFails, HandlerEnds, HandlerReturns, HandlerRaises,
         ExceptionFromHandler, CommitEnds, Commit,
         CommitRefused, CommitFails, brokerVars, vars
  <2>. QED BY <2>1, <2>2
<1>. QED BY <1>1, <1>2

\* The commit of a caller that gives up passes exactly the next event.
LEMMA CommitIsNext ==
    ASSUME ExitingCallerInv, [Next]_vars, NEW p \in Partitions, committed'[p] # committed[p]
    PROVE  /\ log' = log /\ handled' = handled
           /\ committed[p] + 1 \in 1..Len(log[p])
           /\ committed' = [committed EXCEPT ![p] = @ + 1]
           /\ IsValid(log[p][committed[p] + 1])
           /\ log[p][committed[p] + 1].key \in handled
<1>1. PICK c \in Consumers :
            /\ status[c] = "committing" /\ owner[p] = c
            /\ current[c] = <<p, committed'[p]>>
            /\ committed' = [committed EXCEPT ![p] = current[c][2]]
  BY OnlyCommitMovesOffsets DEF ExitingCallerInv
<1>2. committed'[p] \in 1..Len(log[p]) /\ committed'[p] <= committed[p] + 1
  BY <1>1 DEF ExitingCallerInv, CallerFreeInv, InHandIsReady, InHandIsNext, Busy
<1>3. committed'[p] >= committed[p]
  BY StepCommittedNeverRetreats DEF ExitingCallerInv
<1>4. committed'[p] = committed[p] + 1
  <2>1. committed[p] \in Nat /\ Len(log[p]) \in Nat
    BY DEF ExitingCallerInv, CallerFreeInv, TypeOK
  <2>. QED BY <1>2, <1>3, <2>1
<1>5. /\ log' = log /\ handled' = handled
      /\ IsValid(log[p][committed'[p]]) /\ log[p][committed'[p]].key \in handled
  BY OnlyCommitMovesOffsets, StepCommitFollowsSuccess DEF ExitingCallerInv
<1>. QED BY <1>1, <1>2, <1>4, <1>5

LEMMA NextNoEventSkipped == ExitingCallerInv /\ [Next]_vars => NoEventSkipped'
<1> SUFFICES ASSUME ExitingCallerInv, [Next]_vars,
                    NEW p \in Partitions, NEW i \in 1..committed'[p]
             PROVE  IsValid(log'[p][i]) /\ log'[p][i].key \in handled'
  BY DEF NoEventSkipped, IsValid
<1>1. committed[p] \in Nat /\ Len(log[p]) \in Nat /\ committed[p] <= Len(log[p])
  BY DEF ExitingCallerInv, CallerFreeInv, TypeOK, CommittedWithinLog
<1>2. CASE i \in 1..committed[p]
  <2>1. IsValid(log[p][i]) /\ log[p][i].key \in handled
    BY <1>2 DEF ExitingCallerInv, NoEventSkipped
  <2>2. log'[p][i] = log[p][i] /\ handled \subseteq handled'
    BY <1>1, <1>2, HistoryGrows DEF ExitingCallerInv, CallerFreeInv
  <2>. QED BY <2>1, <2>2
<1>3. CASE i \notin 1..committed[p]
  <2>1. committed'[p] # committed[p]
    BY <1>3
  <2>2. /\ log' = log /\ handled' = handled
        /\ committed' = [committed EXCEPT ![p] = @ + 1]
        /\ IsValid(log[p][committed[p] + 1])
        /\ log[p][committed[p] + 1].key \in handled
    BY <2>1, CommitIsNext
  <2>3. i = committed[p] + 1
    BY <1>1, <1>3, <2>2 DEF ExitingCallerInv, CallerFreeInv, TypeOK
  <2>. QED BY <2>2, <2>3
<1>. QED BY <1>2, <1>3

LEMMA AlwaysExitingCallerInv ==
    ASSUME CallerResumes = FALSE
    PROVE  Spec => []ExitingCallerInv
<1>1. Init => ExitingCallerInv
  BY InitCallerFreeInv, ConsumerAssumption
     DEF Init, ExitingCallerInv, StoppedOwnsNothing, InHandIsNext, Busy,
         PositionIsCommitted, NoEventSkipped
<1>2. ExitingCallerInv /\ [Next]_vars => ExitingCallerInv'
  BY NextCallerFreeInv, NextStoppedOwnsNothing, NextInHandIsNext,
     NextPositionIsCommitted, NextNoEventSkipped DEF ExitingCallerInv
<1>. QED BY <1>1, <1>2, PTL DEF Spec

\* At-least-once (consumer.py 33-36, 198-200): when an exception ends the life
\* of the consumer, as it does in a with block, no crash, rebalance, refused
\* commit or poison message lets the group pass an event that was not handled.
THEOREM NoEventIsSkipped ==
    ASSUME CallerResumes = FALSE
    PROVE  Spec => []NoEventSkipped
<1>1. ExitingCallerInv => NoEventSkipped
  BY DEF ExitingCallerInv
<1>. QED BY <1>1, AlwaysExitingCallerInv, PTL

-----------------------------------------------------------------------------
(***************************************************************************)
(* The group of consumers implements AtLeastOnceDelivery.                  *)
(***************************************************************************)
LEMMA StepDelivers ==
    ASSUME ExitingCallerInv, [Next]_vars
    PROVE  [Delivery!Next]_Delivery!vars
<1> USE DEF Delivery!HasNext, Delivery!NextEvent, Delivery!IsValid, IsValid
<1>1. CASE \E p \in Partitions, e \in Events : Publish(p, e)
  <2>1. PICK p \in Partitions, e \in Events : Publish(p, e)
    BY <1>1
  <2>2. Delivery!Publish(p, e)
    BY <2>1 DEF Publish, Delivery!Publish
  <2>. QED BY <2>2 DEF Delivery!Next, Delivery!Events, Events
<1>2. CASE \E p \in Partitions : committed'[p] # committed[p]
  <2>1. PICK p \in Partitions : committed'[p] # committed[p]
    BY <1>2
  <2>2. /\ log' = log /\ handled' = handled
        /\ committed[p] + 1 \in 1..Len(log[p])
        /\ committed' = [committed EXCEPT ![p] = @ + 1]
        /\ IsValid(log[p][committed[p] + 1])
        /\ log[p][committed[p] + 1].key \in handled
    BY <2>1, CommitIsNext
  <2>3. committed[p] \in Nat /\ Len(log[p]) \in Nat
    BY DEF ExitingCallerInv, CallerFreeInv, TypeOK
  <2>4. Delivery!Pass(p)
    BY <2>2, <2>3 DEF Delivery!Pass
  <2>. QED BY <2>4 DEF Delivery!Next
<1>3. CASE \E c \in Consumers : HandlerReturns(c)
  <2>1. PICK c \in Consumers : HandlerReturns(c)
    BY <1>3
  <2>2. /\ Busy(c) /\ log' = log /\ committed' = committed
        /\ handled' = handled \cup {InHand(c).key}
    BY <2>1 DEF HandlerReturns, Busy, brokerVars
  <2>3. PICK p \in Partitions : p = current[c][1]
    BY <2>2, InHandType DEF ExitingCallerInv, CallerFreeInv
  <2>4. /\ current[c][2] \in 1..Len(log[p]) /\ current[c][2] <= committed[p] + 1
        /\ InHand(c) = log[p][current[c][2]] /\ IsValid(InHand(c))
    BY <2>2, <2>3, InHandType
       DEF ExitingCallerInv, CallerFreeInv, InHandIsNext, InHandIsReady, InHand
  <2>5. committed[p] \in Nat /\ Len(log[p]) \in Nat
    BY DEF ExitingCallerInv, CallerFreeInv, TypeOK
  <2>6. CASE current[c][2] = committed[p] + 1
    <3>1. Delivery!Handle(p)
      BY <2>2, <2>4, <2>5, <2>6 DEF Delivery!Handle
    <3>. QED BY <3>1 DEF Delivery!Next
  <2>7. CASE current[c][2] # committed[p] + 1
    <3>1. InHand(c).key \in handled
      BY <2>4, <2>5, <2>7 DEF ExitingCallerInv, NoEventSkipped
    <3>. QED BY <2>2, <3>1 DEF Delivery!vars
  <2>. QED BY <2>6, <2>7
<1>4. CASE /\ ~ \E p \in Partitions, e \in Events : Publish(p, e)
           /\ ~ \E p \in Partitions : committed'[p] # committed[p]
           /\ ~ \E c \in Consumers : HandlerReturns(c)
  <2>1. log' = log /\ handled' = handled
    BY <1>4 DEF Next, Assign, Rebalance, GivePartition, Start, Crash, Vanish, Close,
         LeaveLoop, Exit, Resume, PollOnce, Reject, SkipDuplicate, CallHandler, Fetch,
         PollFails, HandlerEnds, HandlerRaises,
         ExceptionFromHandler, CommitEnds, Commit, CommitRefused,
         CommitFails, brokerVars, vars
  <2>2. committed' = committed
    BY <1>4, NextCallerFreeInv DEF ExitingCallerInv, CallerFreeInv, TypeOK
  <2>. QED BY <2>1, <2>2 DEF Delivery!vars
<1>. QED BY <1>1, <1>2, <1>3, <1>4

\* The consumers, with their crashes, rebalances, duplicates and failures,
\* only take steps that AtLeastOnceDelivery allows: publish, handle the next
\* event, pass a handled event (consumer.py 173-231).
THEOREM GroupDelivers ==
    ASSUME CallerResumes = FALSE
    PROVE  Spec => DeliversAtLeastOnce
<1>1. Init => Delivery!Init
  BY DEF Init, Delivery!Init
<1>2. ExitingCallerInv /\ [Next]_vars => [Delivery!Next]_Delivery!vars
  BY StepDelivers
<1>. QED BY <1>1, <1>2, AlwaysExitingCallerInv, PTL
         DEF Spec, DeliversAtLeastOnce, Delivery!Spec

-----------------------------------------------------------------------------
(***************************************************************************)
(* A handler call is repeated only for a key that may have been evicted.   *)
(***************************************************************************)
\* A window with room has forgotten nothing, and a key in a handler's hands is not
\* in the window.
WindowsForgetWhenFull ==
    \A c \in Consumers :
        /\ mine[c] \subseteq ToSet(dedup[c]) \/ Len(dedup[c]) = Capacity
        /\ status[c] = "handling" => InHand(c).key \notin ToSet(dedup[c])

LEMMA NextWindowsForget ==
    CallerFreeInv /\ WindowsForgetWhenFull /\ [Next]_vars => WindowsForgetWhenFull'
<1> SUFFICES ASSUME CallerFreeInv, WindowsForgetWhenFull, [Next]_vars
             PROVE  WindowsForgetWhenFull'
  OBVIOUS
<1> USE ConsumerAssumption DEF CallerFreeInv
<1>1. ASSUME NEW c \in Consumers, Vanish(c)
      PROVE  WindowsForgetWhenFull'
  <2>1. /\ log' = log /\ mine'[c] = {} /\ status'[c] = "stopped"
        /\ \A d \in Consumers \ {c} : /\ mine'[d] = mine[d] /\ dedup'[d] = dedup[d]
                                      /\ status'[d] = status[d] /\ current'[d] = current[d]
    BY <1>1 DEF Vanish, Become, TypeOK
  <2>. QED BY <2>1 DEF WindowsForgetWhenFull, InHand
<1>2. ASSUME NEW c \in Consumers, NEW p \in Partitions, SkipDuplicate(c, p)
      PROVE  WindowsForgetWhenFull'
  <2>1. /\ log' = log /\ mine' = mine /\ status'[c] = "committing"
        /\ dedup'[c] = AfterSeen(dedup[c], Fetched(p).key)
        /\ \A d \in Consumers \ {c} : /\ dedup'[d] = dedup[d]
                                      /\ status'[d] = status[d] /\ current'[d] = current[d]
    BY <1>2 DEF SkipDuplicate, Fetch, Become, TypeOK
  <2>2. Fetched(p).key \in Keys
    BY <1>2, FetchedType DEF SkipDuplicate
  <2>3. /\ Len(dedup'[c]) = Len(dedup[c])
        /\ ToSet(dedup[c]) \subseteq ToSet(dedup'[c])
    BY <2>1, <2>2, AfterSeenProperties, AfterSeenForgetsNothing DEF TypeOK
  <2>. QED BY <2>1, <2>3 DEF WindowsForgetWhenFull, InHand
<1>3. ASSUME NEW c \in Consumers, NEW p \in Partitions, CallHandler(c, p)
      PROVE  WindowsForgetWhenFull'
  <2>1. /\ log' = log /\ mine' = mine /\ dedup' = dedup
        /\ current'[c] = <<p, position[p] + 1>>
        /\ \A d \in Consumers \ {c} : status'[d] = status[d] /\ current'[d] = current[d]
    BY <1>3 DEF CallHandler, Fetch, Become, TypeOK
  <2>2. InHand(c)' = Fetched(p)
    BY <2>1 DEF InHand, Fetched
  <2>3. Fetched(p).key \notin ToSet(dedup[c])
    BY <1>3 DEF CallHandler, Seen, Contains, ToSet
  <2>. QED BY <2>1, <2>2, <2>3 DEF WindowsForgetWhenFull, InHand
<1>4. ASSUME NEW c \in Consumers, HandlerReturns(c)
      PROVE  WindowsForgetWhenFull'
  <2>1. /\ log' = log /\ current' = current /\ status'[c] = "committing"
        /\ mine'[c] = mine[c] \cup {InHand(c).key}
        /\ dedup'[c] = AfterRecord(dedup[c], InHand(c).key, Capacity)
        /\ \A d \in Consumers \ {c} : /\ mine'[d] = mine[d] /\ dedup'[d] = dedup[d]
                                      /\ status'[d] = status[d]
    BY <1>4 DEF HandlerReturns, Become, brokerVars, TypeOK
  <2>2. InHand(c).key \in Keys
    BY <1>4, InHandType DEF HandlerReturns, Busy
  <2>3. \/ ToSet(dedup[c]) \cup {InHand(c).key} \subseteq ToSet(dedup'[c])
        \/ Len(dedup'[c]) = Capacity
    BY <2>1, <2>2, AfterRecordForgetsWhenFull DEF TypeOK
  <2>4. Len(dedup[c]) = Capacity => Len(dedup'[c]) = Capacity
    BY <2>1, <2>2, AfterRecordForgetsWhenFull DEF TypeOK
  <2>5. mine'[c] \subseteq ToSet(dedup'[c]) \/ Len(dedup'[c]) = Capacity
    BY <2>1, <2>3, <2>4 DEF WindowsForgetWhenFull
  <2>. QED BY <2>1, <2>5 DEF WindowsForgetWhenFull, InHand
<1>5. CASE /\ mine' = mine /\ dedup' = dedup
           /\ \A d \in Consumers : status'[d] = "handling" =>
                  status[d] = "handling" /\ current'[d] = current[d]
  <2>1. ASSUME NEW d \in Consumers, status'[d] = "handling"
        PROVE  InHand(d)' = InHand(d)
    <3>1. /\ status[d] = "handling" /\ current'[d] = current[d] /\ Busy(d)
      BY <1>5, <2>1 DEF Busy
    <3>2. PICK p \in Partitions, n \in Nat : current[d] = <<p, n>> /\ n \in 1..Len(log[p])
      BY <3>1, InHandType
    <3>3. log'[p][n] = log[p][n]
      BY <3>2, HistoryGrows
    <3>. QED BY <3>1, <3>2, <3>3 DEF InHand
  <2>. QED BY <1>5, <2>1 DEF WindowsForgetWhenFull
<1>. QED BY <1>1, <1>2, <1>3, <1>4, <1>5
         DEF Next, Publish, Assign, Rebalance, GivePartition, Start, Crash, Close,
             LeaveLoop, Exit, Resume, PollOnce, Reject, Fetch, PollFails, HandlerEnds,
             HandlerRaises, ExceptionFromHandler, CommitEnds, Commit, CommitRefused,
             CommitFails, brokerVars, memoryVars, vars, Become, TypeOK

\* Whatever the caller does after an exception, and over rebalances and failed
\* commits, a process calls the handler again for a key it completed only when
\* its window was full enough to have evicted the key (consumer.py 83-92): the
\* key is recorded before the commit (consumer.py 227-230).
THEOREM RepeatsAreEvictions == Spec => []RepeatsOnlyAfterEviction
<1>1. Init => WindowsForgetWhenFull
  BY DEF Init, WindowsForgetWhenFull
<1>2. CallerFreeInv /\ WindowsForgetWhenFull /\ [Next]_vars => WindowsForgetWhenFull'
  BY NextWindowsForget
<1>3. WindowsForgetWhenFull => RepeatsOnlyAfterEviction
  BY DEF WindowsForgetWhenFull, RepeatsOnlyAfterEviction
<1>. QED BY <1>1, <1>2, <1>3, AlwaysCallerFreeInv, PTL DEF Spec

-----------------------------------------------------------------------------
(***************************************************************************)
(* Pipeline.                                                               *)
(***************************************************************************)
\* The theorems about the writers of the pipeline.
EW == INSTANCE EvidenceWriterProofs WITH Writers <- Consumers

-----------------------------------------------------------------------------
(***************************************************************************)
(* The writers' side.                                                      *)
(***************************************************************************)
LEMMA SameActions ==
    ASSUME NEW w
    PROVE  /\ Writer!Statement(w) <=> EW!Statement(w)
           /\ Writer!Returns(w) <=> EW!Returns(w)
           /\ Writer!RaiseMultipleFound(w) <=> EW!RaiseMultipleFound(w)
           /\ Writer!Fails(w) <=> EW!Fails(w)
           /\ \A k : Writer!Handle(w, k) <=> EW!Handle(w, k)
<1>1. Writer!FindNone(w) <=> EW!FindNone(w)
  BY DEF Writer!FindNone, Writer!Existing, Writer!Goto, Writer!store, EW!FindNone,
         EW!Existing, EW!Goto, EW!store
<1>2. Writer!SelectDomain(w) <=> EW!SelectDomain(w)
  BY DEF Writer!SelectDomain, Writer!Goto, Writer!store, EW!SelectDomain, EW!Goto,
         EW!store
<1>3. Writer!InsertDomain(w) <=> EW!InsertDomain(w)
  BY DEF Writer!InsertDomain, Writer!Goto, Writer!store, EW!InsertDomain, EW!Goto,
         EW!store
<1>4. Writer!InsertProvenance(w) <=> EW!InsertProvenance(w)
  BY DEF Writer!InsertProvenance, Writer!Goto, Writer!store, Writer!NewId,
         Writer!UsedIds, EW!InsertProvenance, EW!Goto, EW!store, EW!NewId, EW!UsedIds
<1>5. Writer!InsertEvidence(w) <=> EW!InsertEvidence(w)
  BY DEF Writer!InsertEvidence, Writer!Goto, Writer!store, EW!InsertEvidence, EW!Goto,
         EW!store
<1>6. Writer!ReturnExisting(w) <=> EW!ReturnExisting(w)
  BY DEF Writer!ReturnExisting, Writer!Existing, Writer!Return, Writer!End,
         Writer!NoRows, Writer!Goto, Writer!store, EW!ReturnExisting, EW!Existing,
         EW!Return, EW!End, EW!NoRows, EW!Goto, EW!store
<1>7. Writer!Commit(w) <=> EW!Commit(w)
  BY DEF Writer!Commit, Writer!StoreOpenRows, Writer!Return, Writer!End, Writer!NoRows,
         Writer!Goto, EW!Commit, EW!StoreOpenRows, EW!Return, EW!End, EW!NoRows,
         EW!Goto
<1>8. Writer!CommitUnanswered(w) <=> EW!CommitUnanswered(w)
  BY DEF Writer!CommitUnanswered, Writer!StoreOpenRows, Writer!End, Writer!NoRows,
         Writer!Goto, EW!CommitUnanswered, EW!StoreOpenRows, EW!End, EW!NoRows,
         EW!Goto
<1>9. Writer!RollBack(w) <=> EW!RollBack(w)
  BY DEF Writer!RollBack, Writer!End, Writer!NoRows, Writer!Goto, Writer!store,
         EW!RollBack, EW!End, EW!NoRows, EW!Goto, EW!store
<1>10. Writer!RaiseMultipleFound(w) <=> EW!RaiseMultipleFound(w)
  BY DEF Writer!RaiseMultipleFound, Writer!Existing, Writer!Cardinality, Writer!End,
         Writer!NoRows, Writer!Goto, Writer!store, EW!RaiseMultipleFound, EW!Existing,
         EW!Cardinality, EW!End, EW!NoRows, EW!Goto, EW!store
<1>11. \A k : Writer!Handle(w, k) <=> EW!Handle(w, k)
  BY DEF Writer!Handle, Writer!Goto, Writer!store, EW!Handle, EW!Goto, EW!store
<1>. QED
  BY <1>1, <1>2, <1>3, <1>4, <1>5, <1>6, <1>7, <1>8, <1>9, <1>10, <1>11
  DEF Writer!Statement, Writer!Returns, Writer!Fails, EW!Statement, EW!Returns,
      EW!Fails

LEMMA SameInit == Writer!Init <=> EW!Init
BY DEF Writer!Init, EW!Init, Writer!NoRows, EW!NoRows

LEMMA SameWriterInv == Writer!WriterInv <=> EW!WriterInv
BY DEF Writer!WriterInv, Writer!TypeOK, Writer!NoOrphans, Writer!OnePairPerWriter,
       Writer!ResultsAreStored, Writer!OpenRowsFollowStage, Writer!RowsFollowStage,
       Writer!InsertedDomain, Writer!InsertedProvenance, Writer!OpenIdsAreFresh,
       Writer!IdsAreUnique, Writer!WritesOnlyWhatIsMissing, Writer!ProvenanceRows,
       Writer!EvidenceRows, Writer!WriteResults, Writer!Stages, Writer!NoRows,
       Writer!Existing, EW!WriterInv, EW!TypeOK, EW!NoOrphans, EW!OnePairPerWriter,
       EW!ResultsAreStored, EW!OpenRowsFollowStage, EW!RowsFollowStage,
       EW!InsertedDomain, EW!InsertedProvenance, EW!OpenIdsAreFresh, EW!IdsAreUnique,
       EW!WritesOnlyWhatIsMissing, EW!ProvenanceRows, EW!EvidenceRows, EW!WriteResults,
       EW!Stages, EW!NoRows, EW!Existing

\* A step of the pipeline is a step of the writers, or leaves them alone.
LEMMA WriterStep ==
    TypeOK /\ InHandIsReady /\ [PipelineNext]_pipelineVars => [EW!Next]_EW!vars
<1> SUFFICES ASSUME TypeOK, InHandIsReady, PipelineNext, ~UNCHANGED writerVars
             PROVE  EW!Next
  BY DEF pipelineVars, writerVars, EW!vars, EW!store
<1>1. PICK c \in Consumers :
         \/ \E p \in Partitions : HandEvent(c, p)
         \/ Writer!Statement(c) \/ Writer!Returns(c) \/ Writer!Fails(c)
         \/ Writer!RaiseMultipleFound(c)
  BY DEF PipelineNext, OutsideHandler, HandleReturns, HandleFails, HandleFindsMultiple,
         CrashInHandler
<1>2. ASSUME NEW p \in Partitions, HandEvent(c, p)
      PROVE  \E k \in Keys : EW!Handle(c, k)
  <2>1. Fetched(p).key \in Keys
    BY <1>2, FetchedType DEF HandEvent, CallHandler
  <2>. QED BY <1>2, <2>1, SameActions DEF HandEvent
<1>. QED BY <1>1, <1>2, SameActions DEF EW!Next

\* The stored rows only grow, and a transaction that returns leaves its event
\* stored.
LEMMA StoreGrows ==
    ASSUME NEW c \in Consumers,
           Writer!Statement(c) \/ Writer!Returns(c) \/ Writer!RaiseMultipleFound(c) \/ Writer!Fails(c)
    PROVE  \A k : Writer!Existing(k) \subseteq Writer!Existing(k)'
<1>1. provenance \subseteq provenance' /\ evidence \subseteq evidence'
  BY DEF Writer!Statement, Writer!FindNone, Writer!SelectDomain, Writer!InsertDomain,
         Writer!InsertProvenance, Writer!InsertEvidence, Writer!Returns,
         Writer!ReturnExisting, Writer!Commit, Writer!StoreOpenRows,
         Writer!RaiseMultipleFound, Writer!Fails, Writer!RollBack,
         Writer!CommitUnanswered, Writer!store
<1>. QED BY <1>1 DEF Writer!Existing

LEMMA ReturnedIsStored ==
    ASSUME NEW c \in Consumers, Writer!WriterInv', Writer!Returns(c), NEW k, k = key[c]
    PROVE  Writer!Existing(k)' # {}
<1>1. PICK id, isNew : Writer!Return(c, id, isNew)
  BY DEF Writer!Returns, Writer!ReturnExisting, Writer!Commit
<1>2. [provenance_id |-> id, idempotency_key |-> k, created |-> isNew] \in results'
  BY <1>1 DEF Writer!Return
<1>3. Writer!ResultsAreStored'
  BY DEF Writer!WriterInv
<1>. QED BY <1>2, <1>3 DEF Writer!ResultsAreStored

-----------------------------------------------------------------------------
(***************************************************************************)
(* The consumers' side.                                                    *)
(***************************************************************************)

\* An exception that costs no fault, of a lookup that finds two pairs, is the
\* one step of the pipeline that the consumers do not take by themselves.
LEMMA ConsumerStep ==
    [PipelineNext]_pipelineVars =>
        \/ [Next]_vars
        \/ \E c \in Consumers : ExceptionFromHandler(c) /\ UNCHANGED faults
BY DEF PipelineNext, pipelineVars, OutsideHandler, HandEvent, HandleReturns, HandleFails,
       HandleFindsMultiple, CrashInHandler, Next, PollOnce, HandlerEnds

LEMMA ExceptionKeepsInv ==
    ASSUME ExitingCallerInv, NEW c \in Consumers, ExceptionFromHandler(c), UNCHANGED faults
    PROVE  ExitingCallerInv'
<1> USE DEF ExceptionFromHandler, brokerVars, memoryVars
<1>1. /\ UNCHANGED <<log, committed, owner, position, current, dedup, closed, processed,
                     handled, mine, faults>>
      /\ status \in [Consumers -> Statuses]
      /\ status' = [status EXCEPT ![c] = "raised"]
      /\ status[c] = "handling"
  BY DEF ExitingCallerInv, CallerFreeInv, TypeOK, Become
<1> HIDE DEF ExceptionFromHandler
<1>2. TypeOK'
  BY <1>1 DEF ExitingCallerInv, CallerFreeInv, TypeOK, Statuses
<1>3. \A d \in Consumers : /\ Busy(d)' => Busy(d) /\ status'[d] = status[d]
                           /\ InHand(d)' = InHand(d)
                           /\ status'[d] = "polling" => status[d] = "polling"
                           /\ status'[d] = "stopped" => status[d] = "stopped"
  BY <1>1 DEF Busy, InHand
<1>4. InHandIsReady'
  BY <1>1, <1>3 DEF ExitingCallerInv, CallerFreeInv, InHandIsReady, IsValid
<1>5. \A p \in Partitions : owner[p] # None => owner[p] \in Consumers
  BY DEF ExitingCallerInv, CallerFreeInv, TypeOK
<1>6. OwnerIsAhead'
  BY <1>1, <1>3, <1>5 DEF ExitingCallerInv, CallerFreeInv, OwnerIsAhead
<1>7. WindowKeysWereHandled' /\ CommittedWithinLog'
  BY <1>1 DEF ExitingCallerInv, CallerFreeInv, WindowKeysWereHandled, CommittedWithinLog
<1>8. StoppedOwnsNothing'
  BY <1>1, <1>3, <1>5 DEF ExitingCallerInv, StoppedOwnsNothing
<1>9. InHandIsNext'
  BY <1>1, <1>3 DEF ExitingCallerInv, InHandIsNext
<1>10. PositionIsCommitted'
  BY <1>1, <1>3, <1>5 DEF ExitingCallerInv, PositionIsCommitted
<1>11. NoEventSkipped'
  BY <1>1 DEF ExitingCallerInv, NoEventSkipped, IsValid
<1>. QED BY <1>2, <1>4, <1>6, <1>7, <1>8, <1>9, <1>10, <1>11
         DEF ExitingCallerInv, CallerFreeInv

LEMMA NextConsumers ==
    ASSUME CallerResumes = FALSE, ExitingCallerInv, [PipelineNext]_pipelineVars
    PROVE  ExitingCallerInv'
<1>1. CASE [Next]_vars
  BY <1>1, NextCallerFreeInv, NextStoppedOwnsNothing, NextInHandIsNext,
     NextPositionIsCommitted, NextNoEventSkipped DEF ExitingCallerInv
<1>2. CASE \E c \in Consumers : ExceptionFromHandler(c) /\ UNCHANGED faults
  BY <1>2, ExceptionKeepsInv
<1>. QED BY <1>1, <1>2, ConsumerStep

-----------------------------------------------------------------------------
(***************************************************************************)
(* What ties the two together.                                             *)
(***************************************************************************)

\* A busy writer's statements keep it busy, with the same event.
LEMMA StatementKeepsKey ==
    ASSUME Writer!TypeOK, NEW c \in Consumers, Writer!Statement(c)
    PROVE  /\ key' = key /\ stage[c] # "idle" /\ stage'[c] # "idle"
           /\ \A d \in Consumers \ {c} : stage'[d] = stage[d]
BY DEF Writer!TypeOK, Writer!Statement, Writer!FindNone, Writer!SelectDomain,
       Writer!InsertDomain, Writer!InsertProvenance, Writer!InsertEvidence, Writer!Goto

\* The other steps of a busy writer end its transaction.
LEMMA TransactionEnds ==
    ASSUME Writer!TypeOK, NEW c \in Consumers,
           Writer!Returns(c) \/ Writer!RaiseMultipleFound(c) \/ Writer!Fails(c)
    PROVE  /\ stage'[c] = "idle"
           /\ \A d \in Consumers \ {c} : stage'[d] = stage[d] /\ key'[d] = key[d]
BY DEF Writer!TypeOK, Writer!Returns, Writer!ReturnExisting, Writer!Commit,
       Writer!RaiseMultipleFound, Writer!Fails, Writer!RollBack, Writer!CommitUnanswered,
       Writer!End, Writer!Goto

LEMMA NextTransactionIsHandlerCall ==
    PipelineInv /\ [PipelineNext]_pipelineVars => TransactionIsHandlerCall'
<1> SUFFICES ASSUME PipelineInv, [PipelineNext]_pipelineVars, NEW d \in Consumers
             PROVE  /\ status'[d] = "handling" <=> stage'[d] # "idle"
                    /\ status'[d] = "handling" => key'[d] = InHand(d).key'
  BY DEF TransactionIsHandlerCall
<1>1. TypeOK /\ InHandIsReady /\ Writer!TypeOK
  BY DEF PipelineInv, ExitingCallerInv, CallerFreeInv, Writer!WriterInv
<1>2. /\ status[d] = "handling" <=> stage[d] # "idle"
      /\ status[d] = "handling" => key[d] = InHand(d).key
  BY DEF PipelineInv, TransactionIsHandlerCall
<1>3. CASE UNCHANGED pipelineVars
  BY <1>2, <1>3 DEF pipelineVars, vars, writerVars, InHand
<1>4. ASSUME NEW p \in Partitions, NEW e \in Events, Publish(p, e), UNCHANGED writerVars
      PROVE  /\ status'[d] = "handling" <=> stage'[d] # "idle"
             /\ status'[d] = "handling" => key'[d] = InHand(d).key'
  <2>1. status' = status /\ current' = current /\ stage' = stage /\ key' = key
    BY <1>4 DEF Publish, memoryVars, writerVars
  <2>2. status[d] = "handling" => InHand(d)' = InHand(d)
    <3> SUFFICES ASSUME status[d] = "handling"
                 PROVE  InHand(d)' = InHand(d)
      OBVIOUS
    <3>1. current[d][1] \in Partitions /\ current[d][2] \in 1..Len(log[current[d][1]])
      BY <1>1, InHandType DEF Busy
    <3>2. log \in [Partitions -> Seq(Events)] /\ log' = [log EXCEPT ![p] = Append(@, e)]
      BY <1>1, <1>4 DEF TypeOK, Publish
    <3>3. log'[current[d][1]][current[d][2]] = log[current[d][1]][current[d][2]]
      <4>1. CASE current[d][1] = p
        BY <3>1, <3>2, <4>1
      <4>2. CASE current[d][1] # p
        BY <3>1, <3>2, <4>2
      <4>. QED BY <4>1, <4>2
    <3>. QED BY <2>1, <3>3 DEF InHand
  <2>. QED BY <1>2, <2>1, <2>2
<1>5. ASSUME NEW c \in Consumers, OutsideHandler(c)
      PROVE  /\ status'[d] = "handling" <=> stage'[d] # "idle"
             /\ status'[d] = "handling" => key'[d] = InHand(d).key'
  <2>1. stage' = stage /\ key' = key /\ log' = log
    BY <1>5 DEF OutsideHandler, writerVars, Start, Close, LeaveLoop, Exit, PollFails,
                CommitEnds, Commit, CommitRefused, CommitFails, Reject, SkipDuplicate, Fetch,
                Assign, Rebalance, GivePartition, Crash, Vanish, brokerVars
  <2>2. \/ status'[d] = status[d] /\ (status[d] = "handling" => current'[d] = current[d])
        \/ status[d] # "handling" /\ status'[d] # "handling"
    BY <1>1, <1>5
       DEF OutsideHandler, Start, Close, LeaveLoop, Exit, PollFails,
           CommitEnds, Commit, CommitRefused, CommitFails, Reject, SkipDuplicate, Fetch,
           Assign, Rebalance, GivePartition, Crash, Vanish, Become, TypeOK, memoryVars
  <2>. QED BY <1>2, <2>1, <2>2 DEF InHand
<1>6. ASSUME NEW c \in Consumers, NEW p \in Partitions, HandEvent(c, p)
      PROVE  /\ status'[d] = "handling" <=> stage'[d] # "idle"
             /\ status'[d] = "handling" => key'[d] = InHand(d).key'
  <2>1. /\ status' = [status EXCEPT ![c] = "handling"]
        /\ current' = [current EXCEPT ![c] = <<p, position[p] + 1>>]
        /\ log' = log
        /\ stage' = [stage EXCEPT ![c] = "find_existing"]
        /\ key' = [key EXCEPT ![c] = Fetched(p).key]
    BY <1>6 DEF HandEvent, CallHandler, Fetch, Become, Writer!Handle, Writer!Goto
  <2>2. d = c => InHand(d)' = Fetched(p)
    BY <1>1, <2>1 DEF InHand, Fetched, TypeOK
  <2>. QED BY <1>1, <1>2, <2>1, <2>2 DEF TypeOK, Writer!TypeOK, InHand
<1>7. ASSUME NEW c \in Consumers, Writer!Statement(c), UNCHANGED vars
      PROVE  /\ status'[d] = "handling" <=> stage'[d] # "idle"
             /\ status'[d] = "handling" => key'[d] = InHand(d).key'
  BY <1>1, <1>2, <1>7, StatementKeepsKey DEF vars, InHand
<1>8. ASSUME NEW c \in Consumers,
             HandleReturns(c) \/ HandleFails(c) \/ HandleFindsMultiple(c) \/ CrashInHandler(c)
      PROVE  /\ status'[d] = "handling" <=> stage'[d] # "idle"
             /\ status'[d] = "handling" => key'[d] = InHand(d).key'
  <2>1. /\ stage'[c] = "idle"
        /\ d # c => stage'[d] = stage[d] /\ key'[d] = key[d]
    BY <1>1, <1>8, TransactionEnds
       DEF HandleReturns, HandleFails, HandleFindsMultiple, CrashInHandler
  <2>2. /\ status'[c] # "handling" /\ log' = log
        /\ d # c => status'[d] = status[d] /\ current'[d] = current[d]
    BY <1>1, <1>8
       DEF HandleReturns, HandleFails, HandleFindsMultiple, CrashInHandler, HandlerReturns,
           HandlerRaises, ExceptionFromHandler, Crash, Vanish, Become, brokerVars, memoryVars,
           TypeOK
  <2>. QED BY <1>2, <2>1, <2>2 DEF InHand
<1>. QED BY <1>3, <1>4, <1>5, <1>6, <1>7, <1>8 DEF PipelineNext

LEMMA NextHandledAreStored ==
    ASSUME PipelineInv, [PipelineNext]_pipelineVars, Writer!WriterInv'
    PROVE  HandledAreStored'
<1> SUFFICES ASSUME NEW k \in handled'
             PROVE  Writer!Existing(k)' # {}
  BY DEF HandledAreStored
<1>1. k \in handled => Writer!Existing(k) # {}
  BY DEF PipelineInv, HandledAreStored
<1>2. CASE UNCHANGED writerVars /\ handled' = handled
  BY <1>1, <1>2 DEF writerVars, Writer!Existing
<1>3. ASSUME NEW c \in Consumers, HandleReturns(c)
      PROVE  Writer!Existing(k)' # {}
  <2>1. status[c] = "handling" /\ handled' = handled \cup {InHand(c).key}
    BY <1>3 DEF HandleReturns, HandlerReturns
  <2>2. key[c] = InHand(c).key
    BY <2>1 DEF PipelineInv, TransactionIsHandlerCall
  <2>3. CASE k = key[c]
    BY <1>3, <2>3, ReturnedIsStored DEF HandleReturns
  <2>4. CASE k \in handled
    BY <1>1, <1>3, <2>4, StoreGrows DEF HandleReturns
  <2>. QED BY <2>1, <2>2, <2>3, <2>4
<1>4. ASSUME NEW c \in Consumers, handled' = handled,
             Writer!Statement(c) \/ Writer!RaiseMultipleFound(c) \/ Writer!Fails(c)
      PROVE  Writer!Existing(k)' # {}
  BY <1>1, <1>4, StoreGrows
<1>5. ASSUME NEW c \in Consumers, NEW p \in Partitions, HandEvent(c, p)
      PROVE  Writer!Existing(k)' # {}
  BY <1>1, <1>5 DEF HandEvent, CallHandler, Fetch, Writer!Handle, Writer!store, Writer!Existing
<1>6. ASSUME NEW c \in Consumers, OutsideHandler(c)
      PROVE  UNCHANGED writerVars /\ handled' = handled
  BY <1>6 DEF OutsideHandler, Start, Close, LeaveLoop, Exit, PollFails, CommitEnds, Commit,
              CommitRefused, CommitFails, Reject, SkipDuplicate, Fetch, Assign, Rebalance,
              GivePartition, Crash, Vanish
<1>7. ASSUME NEW p \in Partitions, NEW e \in Events, Publish(p, e)
      PROVE  handled' = handled
  BY <1>7 DEF Publish
<1>8. ASSUME NEW c \in Consumers, HandleFails(c) \/ HandleFindsMultiple(c) \/ CrashInHandler(c)
      PROVE  /\ handled' = handled
             /\ Writer!RaiseMultipleFound(c) \/ Writer!Fails(c)
  BY <1>8 DEF HandleFails, HandleFindsMultiple, CrashInHandler, HandlerRaises,
              ExceptionFromHandler, Crash, Vanish
<1>9. UNCHANGED vars => handled' = handled
  BY DEF vars
<1>. QED BY <1>2, <1>3, <1>4, <1>5, <1>6, <1>7, <1>8, <1>9 DEF PipelineNext, pipelineVars

-----------------------------------------------------------------------------
(***************************************************************************)
(* The theorems.                                                           *)
(***************************************************************************)
LEMMA WritersInPipeline ==
    ASSUME CallerResumes = FALSE
    PROVE  PipelineSpec => [](ExitingCallerInv /\ Writer!WriterInv)
<1>1. PipelineInit => ExitingCallerInv /\ EW!Init
  BY InitCallerFreeInv, ConsumerAssumption, SameInit
     DEF PipelineInit, Init, ExitingCallerInv, StoppedOwnsNothing, InHandIsNext, Busy,
         PositionIsCommitted, NoEventSkipped
<1>2. ExitingCallerInv /\ [PipelineNext]_pipelineVars => ExitingCallerInv' /\ [EW!Next]_EW!vars
  BY NextConsumers, WriterStep DEF ExitingCallerInv, CallerFreeInv
<1>3. PipelineSpec => []ExitingCallerInv /\ EW!Spec
  BY <1>1, <1>2, PTL DEF PipelineSpec, EW!Spec
<1>4. EW!Spec => []EW!WriterInv
  BY EW!AlwaysWriterInv, PipelineAssumption
<1>. QED BY <1>3, <1>4, SameWriterInv, PTL

LEMMA AlwaysPipelineInv ==
    ASSUME CallerResumes = FALSE
    PROVE  PipelineSpec => []PipelineInv
<1>1. PipelineInit => TransactionIsHandlerCall /\ HandledAreStored
  BY DEF PipelineInit, Init, Writer!Init, TransactionIsHandlerCall, HandledAreStored
<1>2. PipelineInv /\ [PipelineNext]_pipelineVars /\ Writer!WriterInv'
      => TransactionIsHandlerCall' /\ HandledAreStored'
  BY NextTransactionIsHandlerCall, NextHandledAreStored
<1>3. PipelineInv <=> /\ ExitingCallerInv /\ Writer!WriterInv
                      /\ TransactionIsHandlerCall /\ HandledAreStored
  BY DEF PipelineInv
<1>. QED BY <1>1, <1>2, <1>3, WritersInPipeline, PTL DEF PipelineSpec

\* End to end (evidence_writer.py 38-48, consumer.py 33-36): for every group
\* whose callers give a consumer up after an exception, an event that the group
\* has passed is stored, and stored twice only by two consumers.
THEOREM PassedIsStored ==
    ASSUME CallerResumes = FALSE
    PROVE  PipelineSpec => []PassedEventsStored
<1>1. PipelineInv => PassedEventsStored
  <2> SUFFICES ASSUME PipelineInv, NEW p \in Partitions, NEW i \in 1..committed[p]
               PROVE  /\ Writer!Existing(log[p][i].key) # {}
                      /\ \A a, b \in Writer!Existing(log[p][i].key) :
                            a # b => a.writer # b.writer
    BY DEF PassedEventsStored
  <2>1. log[p][i].key \in handled
    BY DEF PipelineInv, ExitingCallerInv, NoEventSkipped
  <2>2. Writer!OnePairPerWriter
    BY DEF PipelineInv, Writer!WriterInv
  <2>. QED BY <2>1, <2>2
           DEF PipelineInv, HandledAreStored, Writer!OnePairPerWriter, Writer!Existing
<1>. QED BY <1>1, AlwaysPipelineInv, PTL

\* What a consumer skips as a duplicate is in the database, whatever crashed in
\* between (consumer.py 219-229).
THEOREM WindowIsBackedByStore ==
    ASSUME CallerResumes = FALSE
    PROVE  PipelineSpec => []WindowKeysAreStored
<1>1. PipelineInv => WindowKeysAreStored
  BY DEF PipelineInv, ExitingCallerInv, CallerFreeInv, WindowKeysWereHandled,
         HandledAreStored, WindowKeysAreStored
<1>. QED BY <1>1, AlwaysPipelineInv, PTL

\* With real handlers, whose transactions take several steps and can raise for a
\* lookup that finds two pairs, the consumers still implement
\* AtLeastOnceDelivery (consumer.py 173-231).
THEOREM PipelineDelivers ==
    ASSUME CallerResumes = FALSE
    PROVE  PipelineSpec => DeliversAtLeastOnce
<1>1. PipelineInit => Delivery!Init
  BY DEF PipelineInit, Init, Delivery!Init
<1>2. ExitingCallerInv /\ [PipelineNext]_pipelineVars => [Delivery!Next]_Delivery!vars
  <2> SUFFICES ASSUME ExitingCallerInv, [PipelineNext]_pipelineVars
               PROVE  [Delivery!Next]_Delivery!vars
    OBVIOUS
  <2>1. CASE [Next]_vars
    BY <2>1, StepDelivers
  <2>2. CASE \E c \in Consumers : ExceptionFromHandler(c) /\ UNCHANGED faults
    BY <2>2 DEF ExceptionFromHandler, brokerVars, Delivery!vars
  <2>. QED BY <2>1, <2>2, ConsumerStep
<1>. QED BY <1>1, <1>2, WritersInPipeline, PTL DEF PipelineSpec, DeliversAtLeastOnce,
                                               Delivery!Spec

\* Called by the consumers, with their redeliveries, crashes and rebalances, the
\* writers still store whole pairs in single steps (evidence_writer.py 26-53).
THEOREM PipelineStoresAtomically ==
    ASSUME CallerResumes = FALSE
    PROVE  PipelineSpec => Writer!WritesAreAtomic
<1>1. PipelineInit => EW!Init
  BY SameInit DEF PipelineInit
<1>2. ExitingCallerInv /\ [PipelineNext]_pipelineVars => [EW!Next]_EW!vars
  BY WriterStep DEF ExitingCallerInv, CallerFreeInv
<1>3. PipelineSpec => EW!Spec
  BY <1>1, <1>2, WritersInPipeline, PTL DEF PipelineSpec, EW!Spec
<1>4. EW!Spec => EW!WritesAreAtomic
  BY EW!WritersImplementStore, PipelineAssumption
<1>5. EW!Atomic!Init <=> Writer!Atomic!Init
  BY DEF EW!Atomic!Init, Writer!Atomic!Init
<1>6. [EW!Atomic!Next]_EW!Atomic!vars <=> [Writer!Atomic!Next]_Writer!Atomic!vars
  BY DEF EW!Atomic!Next, EW!Atomic!Store, EW!Atomic!Find, EW!Atomic!Stored,
         EW!Atomic!Answer, EW!Atomic!vars, Writer!Atomic!Next, Writer!Atomic!Store,
         Writer!Atomic!Find, Writer!Atomic!Stored, Writer!Atomic!Answer,
         Writer!Atomic!vars
<1>. QED BY <1>3, <1>4, <1>5, <1>6, PTL
         DEF EW!WritesAreAtomic, EW!Atomic!Spec, Writer!WritesAreAtomic,
             Writer!Atomic!Spec
=============================================================================
