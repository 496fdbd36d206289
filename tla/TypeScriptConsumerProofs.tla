---------------------- MODULE TypeScriptConsumerProofs ----------------------
(***************************************************************************)
(* Theorems about TypeScriptConsumer, for every number of processes,       *)
(* topics and events and every amount of faults.                           *)
(***************************************************************************)
EXTENDS TypeScriptConsumer, DedupWindowProofs

-----------------------------------------------------------------------------
(***************************************************************************)
(* What the actions have in common.                                        *)
(***************************************************************************)
LEMMA FaultType == TypeOK /\ Fault => faults' \in 0..MaxFaults
BY TypeScriptConsumerAssumption DEF TypeOK, Fault

\* The message in hand is a message of the log.
LEMMA InHandType ==
    ASSUME TypeOK, InHandIsReady, NEW c \in Consumers, Busy(c)
    PROVE  /\ current[c] \in Partitions \X Nat
           /\ current[c][1] \in Partitions
           /\ current[c][2] \in 1..Len(log[current[c][1]])
           /\ InHand(c) \in Events
           /\ InHand(c).key \in Keys
<1>1. current[c] \in Partitions \X Nat
  BY DEF TypeOK, InHandIsReady
<1>2. log[current[c][1]] \in Seq(Events) /\ current[c][2] \in 1..Len(log[current[c][1]])
  BY <1>1 DEF TypeOK, InHandIsReady
<1>3. InHand(c) \in Events
  BY <1>2, ElementOfSeq DEF InHand
<1>. QED BY <1>1, <1>2, <1>3 DEF Events

\* A message that is fed is one of the log.
LEMMA NextMessageType ==
    ASSUME TypeOK, NEW c \in Consumers, NEW t \in Partitions, Feeds(c, t)
    PROVE  /\ position[t] \in Nat
           /\ position[t] + 1 \in 1..Len(log[t])
           /\ NextMessage(t) \in Events
           /\ NextMessage(t).key \in Keys
<1>1. /\ log[t] \in Seq(Events) /\ position[t] \in Nat
      /\ position[t] + 1 \in 1..Len(log[t])
  BY DEF TypeOK, Feeds
<1>2. NextMessage(t) \in Events
  BY <1>1, ElementOfSeq DEF NextMessage
<1>. QED BY <1>1, <1>2 DEF Events

LEMMA FeedAgainType ==
    ASSUME TypeOK, NEW c \in Consumers, FeedAgain(c), committed' \in [Partitions -> Nat]
    PROVE  position' \in [Partitions -> Nat]
BY DEF TypeOK, FeedAgain

\* A commit that the broker accepts is for the event at the fetch position, which
\* is the next event or, when an earlier commit only seemed to fail, the last.
LEMMA CommitIsNext ==
    ASSUME ConsumerInv, NEW c \in Consumers, status[c] = "committing",
           MayCommit(c), CommitOffset(c)
    PROVE  \E t \in Partitions : \E n \in {committed[t], committed[t] + 1} :
              /\ current[c][1] = t /\ current[c][2] = n
              /\ owner[t] = c /\ n = position[t] + 1
              /\ committed' = [committed EXCEPT ![t] = n]
              /\ n \in 1..Len(log[t])
              /\ IsValid(log[t][n])
              /\ log[t][n].key \in handled
<1> USE DEF ConsumerInv
<1>1. Busy(c)
  BY DEF Busy
<1>2. PICK t \in Partitions : t = current[c][1]
  BY <1>1, InHandType
<1>3. PICK n : n = current[c][2]
  OBVIOUS
<1>4. /\ owner[t] = c /\ committed' = [committed EXCEPT ![t] = n]
      /\ n \in 1..Len(log[t]) /\ n \in Nat
  BY <1>1, <1>2, <1>3, InHandType DEF MayCommit, CommitOffset
<1>5. /\ n <= committed[t] + 1 /\ IsValid(log[t][n]) /\ log[t][n].key \in handled
  BY <1>1, <1>2, <1>3 DEF InHandIsReady, InHand
<1>6. n = position[t] + 1 /\ committed[t] <= position[t] + 1
  BY <1>1, <1>2, <1>3, <1>4, TypeScriptConsumerAssumption DEF OwnerKeepsPace
<1>7. committed[t] \in Nat /\ position[t] \in Nat
  BY DEF TypeOK
<1>8. n \in {committed[t], committed[t] + 1}
  BY <1>4, <1>5, <1>6, <1>7
<1>. QED BY <1>2, <1>3, <1>4, <1>5, <1>6, <1>8

\* Nothing but an accepted commit moves a committed offset.
LEMMA OnlyCommitMovesOffsets ==
    ASSUME [Next]_vars, committed' # committed
    PROVE  \E c \in Consumers :
              /\ status[c] = "committing" /\ MayCommit(c) /\ CommitOffset(c)
              /\ log' = log /\ handled' = handled
BY
   DEF Publish, HandlerResolves, Next, Assign, Rebalance, GivePartition,
       Crash, Run, Close, Disconnect, EachMessage, SkipUnhandled, Reject,
       SkipDuplicate, CallHandler, Decoded, MessageEnds, HandlerRejects,
       Commit, CommitRefused, CommitRejects, EndMessage, brokerVars, memoryVars, vars

\* No step takes an event out of the log or a key out of handled.
LEMMA HistoryGrows ==
    ASSUME TypeOK, [Next]_vars
    PROVE  /\ handled \subseteq handled'
           /\ \A t \in Partitions : /\ Len(log[t]) <= Len(log'[t])
                                   /\ \A i \in 1..Len(log[t]) : log'[t][i] = log[t][i]
<1>1. CASE \E t \in Partitions, e \in Events : Publish(t, e)
  <2>1. PICK t \in Partitions, e \in Events : Publish(t, e)
    BY <1>1
  <2>2. log[t] \in Seq(Events) /\ log' = [log EXCEPT ![t] = Append(@, e)] /\ handled' = handled
    BY <2>1 DEF Publish, TypeOK
  <2>3. /\ Len(Append(log[t], e)) = Len(log[t]) + 1
        /\ \A i \in 1..Len(log[t]) : Append(log[t], e)[i] = log[t][i]
    BY <2>2
  <2>. QED BY <2>2, <2>3 DEF TypeOK
<1>2. CASE ~ \E t \in Partitions, e \in Events : Publish(t, e)
  <2>1. log' = log
    BY <1>2
       DEF HandlerResolves, Next, Assign, Rebalance, GivePartition, Crash,
           Run, Close, Disconnect, EachMessage, SkipUnhandled, Reject,
           SkipDuplicate, CallHandler, Decoded, MessageEnds, HandlerRejects,
           Commit, CommitRefused, CommitRejects, EndMessage, brokerVars, memoryVars, vars
  <2>2. handled \subseteq handled'
    BY <1>2
       DEF HandlerResolves, Next, Assign, Rebalance, GivePartition, Crash,
           Run, Close, Disconnect, EachMessage, SkipUnhandled, Reject,
           SkipDuplicate, CallHandler, Decoded, MessageEnds, HandlerRejects,
           Commit, CommitRefused, CommitRejects, EndMessage, brokerVars, memoryVars, vars
  <2>. QED BY <2>1, <2>2 DEF TypeOK
<1>. QED BY <1>1, <1>2

LEMMA CommittedGrows ==
    ASSUME ConsumerInv, [Next]_vars
    PROVE  /\ committed' \in [Partitions -> Nat]
           /\ \A t \in Partitions : committed[t] <= committed'[t]
<1>1. committed \in [Partitions -> Nat]
  BY DEF ConsumerInv, TypeOK
<1>2. CASE committed' # committed
  <2>1. PICK c \in Consumers : status[c] = "committing" /\ MayCommit(c) /\ CommitOffset(c)
    BY <1>2, OnlyCommitMovesOffsets
  <2>2. PICK t \in Partitions : \E n \in {committed[t], committed[t] + 1} :
          committed' = [committed EXCEPT ![t] = n]
    BY <2>1, CommitIsNext
  <2>. QED BY <1>1, <2>2
<1>. QED BY <1>1, <1>2

-----------------------------------------------------------------------------
(***************************************************************************)
(* The invariant is inductive: its parts one by one.                       *)
(***************************************************************************)
LEMMA InitConsumerInv == Init => ConsumerInv
BY TopicAssumption, TypeScriptConsumerAssumption
   DEF Init, ConsumerInv, TypeOK, InHandIsReady, OwnerKeepsPace, WindowKeysWereHandled,
       NoEventSkipped, Busy, Running, EmptyWindow, ToSet

LEMMA NextTypeOK == ConsumerInv /\ [Next]_vars => TypeOK'
<1> SUFFICES ASSUME ConsumerInv, [Next]_vars PROVE TypeOK'
  OBVIOUS
<1> USE TypeScriptConsumerAssumption DEF ConsumerInv, Become, brokerVars, memoryVars
<1>1. ASSUME NEW t \in Partitions, NEW e \in Events, Publish(t, e)
      PROVE  TypeOK'
  BY <1>1
     DEF TypeOK, Running, Publish
<1>2. ASSUME NEW t \in Partitions, NEW c \in Consumers, Assign(t, c)
      PROVE  TypeOK'
  BY <1>2
     DEF TypeOK, Running, Assign, GivePartition
<1>3. ASSUME NEW t \in Partitions, NEW c \in Consumers, Rebalance(t, c)
      PROVE  TypeOK'
  BY <1>3, FaultType
     DEF TypeOK, Running, Rebalance, GivePartition
<1>4. ASSUME NEW c \in Consumers, Crash(c)
      PROVE  TypeOK'
  <2>1. owner' \in [Partitions -> Consumers \cup {None}]
    BY <1>4 DEF TypeOK, Crash, Release
  <2>2. \A t \in Partitions : owner'[t] # None => status'[owner'[t]] \in Running
    BY <1>4 DEF TypeOK, Crash, Release
  <2>3. dedup' \in [Consumers -> Seq(Keys)] /\ \A d \in Consumers : Len(dedup'[d]) <= Capacity
    BY <1>4 DEF TypeOK, EmptyWindow, Crash
  <2>4. faults' \in 0..MaxFaults
    BY <1>4, FaultType DEF Crash
  <2>5. \A d \in Consumers : closing'[d] => status'[d] \in Running /\ connected'[d]
    BY <1>4 DEF TypeOK, Crash
  <2>. QED BY <1>4, <2>1, <2>2, <2>3, <2>4, <2>5 DEF TypeOK, Crash
<1>5. ASSUME NEW c \in Consumers, Run(c)
      PROVE  TypeOK'
  <2>1. faults' \in 0..MaxFaults
    BY <1>5, FaultType DEF Run, TypeOK
  <2>2. connected' \in [Consumers -> BOOLEAN] /\ \A d \in Consumers \ {c} : connected'[d] = connected[d]
    BY <1>5 DEF Run, TypeOK
  <2>3. \A d \in Consumers : closing'[d] => status'[d] \in Running /\ connected'[d]
    BY <1>5, <2>2 DEF Run, TypeOK, Running
  <2>4. handlers' \in [Consumers -> SUBSET Partitions]
    BY <1>5 DEF Run, TypeOK
  <2>. QED BY <1>5, <2>1, <2>2, <2>3, <2>4 DEF TypeOK, Running, Run
<1>6. ASSUME NEW c \in Consumers, Close(c)
      PROVE  TypeOK'
  BY <1>6, FaultType
     DEF TypeOK, Running, Close
<1>7. ASSUME NEW c \in Consumers, Disconnect(c)
      PROVE  TypeOK'
  <2>1. owner' \in [Partitions -> Consumers \cup {None}]
    BY <1>7 DEF TypeOK, Disconnect, Release
  <2>2. \A t \in Partitions : owner'[t] # None => status'[owner'[t]] \in Running
    BY <1>7 DEF TypeOK, Disconnect, Release
  <2>. QED BY <1>7, <2>1, <2>2 DEF TypeOK, Disconnect
<1>8. ASSUME NEW c \in Consumers, HandlerResolves(c)
      PROVE  TypeOK'
  <2>1. InHand(c).key \in Keys
    BY <1>8, InHandType DEF HandlerResolves, Busy
  <2>2. /\ AfterRecord(dedup[c], InHand(c).key, Capacity) \in Seq(Keys)
        /\ Len(AfterRecord(dedup[c], InHand(c).key, Capacity)) <= Capacity
    BY <2>1, AfterRecordProperties DEF TypeOK
  <2>. QED BY <1>8, <2>1, <2>2 DEF TypeOK, Running, HandlerResolves
<1>9. ASSUME NEW c \in Consumers, HandlerRejects(c)
      PROVE  TypeOK'
  <2>1. committed' \in [Partitions -> Nat] /\ FeedAgain(c)
    BY <1>9, CommittedGrows DEF HandlerRejects
  <2>2. position' \in [Partitions -> Nat]
    BY <2>1, FeedAgainType
  <2>3. faults' \in 0..MaxFaults
    BY <1>9, FaultType DEF HandlerRejects, TypeOK
  <2>. QED BY <1>9, <2>1, <2>2, <2>3 DEF HandlerRejects, EndMessage, TypeOK, Running
<1>10. ASSUME NEW c \in Consumers, Commit(c)
      PROVE  TypeOK'
  <2>1. current[c] \in Partitions \X Nat
    BY <1>10, InHandType DEF Commit, Busy
  <2>. QED BY <1>10, <2>1 DEF TypeOK, Running, Commit, CommitOffset, EndMessage
<1>11. ASSUME NEW c \in Consumers, CommitRefused(c)
      PROVE  TypeOK'
  <2>1. committed' \in [Partitions -> Nat] /\ FeedAgain(c)
    BY <1>11, CommittedGrows DEF CommitRefused
  <2>2. position' \in [Partitions -> Nat]
    BY <2>1, FeedAgainType
  <2>3. faults' \in 0..MaxFaults
    BY <1>11, FaultType DEF CommitRefused, TypeOK
  <2>. QED BY <1>11, <2>1, <2>2, <2>3 DEF CommitRefused, EndMessage, TypeOK, Running
<1>12. ASSUME NEW c \in Consumers, CommitRejects(c)
      PROVE  TypeOK'
  <2>1. committed' \in [Partitions -> Nat] /\ FeedAgain(c)
    BY <1>12, CommittedGrows DEF CommitRejects
  <2>2. position' \in [Partitions -> Nat]
    BY <2>1, FeedAgainType
  <2>3. faults' \in 0..MaxFaults
    BY <1>12, FaultType DEF CommitRejects, TypeOK
  <2>. QED BY <1>12, <2>1, <2>2, <2>3 DEF CommitRejects, EndMessage, TypeOK, Running
<1>13. ASSUME NEW c \in Consumers, NEW t \in Partitions, SkipUnhandled(c, t)
      PROVE  TypeOK'
  BY <1>13
     DEF TypeOK, Running, SkipUnhandled, Feeds
<1>14. ASSUME NEW c \in Consumers, NEW t \in Partitions, Reject(c, t)
      PROVE  TypeOK'
  <2>1. committed' \in [Partitions -> Nat] /\ FeedAgain(c)
    BY <1>14, CommittedGrows DEF Reject
  <2>2. position' \in [Partitions -> Nat]
    BY <2>1, FeedAgainType
  <2>3. faults' \in 0..MaxFaults
    BY <1>14, FaultType DEF Reject, TypeOK
  <2>. QED BY <1>14, <2>1, <2>2, <2>3 DEF Reject, TypeOK, Running
<1>15. ASSUME NEW c \in Consumers, NEW t \in Partitions, SkipDuplicate(c, t)
      PROVE  TypeOK'
  <2>1. Feeds(c, t)
    BY <1>15 DEF SkipDuplicate, Decoded
  <2>2. /\ AfterSeen(dedup[c], NextMessage(t).key) \in Seq(Keys)
        /\ Len(AfterSeen(dedup[c], NextMessage(t).key)) = Len(dedup[c])
    BY <2>1, NextMessageType, AfterSeenProperties DEF TypeOK
  <2>3. <<t, position[t] + 1>> \in Partitions \X Nat
    BY <2>1, NextMessageType
  <2>. QED BY <1>15, <2>2, <2>3 DEF TypeOK, Running, SkipDuplicate, Decoded
<1>16. ASSUME NEW c \in Consumers, NEW t \in Partitions, CallHandler(c, t)
      PROVE  TypeOK'
  <2>1. Feeds(c, t)
    BY <1>16 DEF CallHandler, Decoded
  <2>2. <<t, position[t] + 1>> \in Partitions \X Nat
    BY <2>1, NextMessageType
  <2>. QED BY <1>16, <2>2 DEF TypeOK, Running, CallHandler, Decoded
<1>17. CASE UNCHANGED vars
  BY <1>17
     DEF TypeOK, Running, vars
<1>. QED
  BY <1>1, <1>2, <1>3, <1>4, <1>5, <1>6, <1>7, <1>8, <1>9,
     <1>10, <1>11, <1>12, <1>13, <1>14, <1>15, <1>16, <1>17
     DEF Next, EachMessage, MessageEnds

\* Who has a message in hand had it before, or has just taken it.
LEMMA InHandStays ==
    ASSUME ConsumerInv, [Next]_vars,
           \A d \in Consumers : Busy(d)' =>
              /\ Busy(d) /\ current'[d] = current[d]
              /\ status'[d] = "committing" =>
                    status[d] = "committing" \/ InHand(d).key \in handled'
    PROVE  InHandIsReady'
<1> SUFFICES ASSUME NEW d \in Consumers, Busy(d)'
             PROVE  /\ current'[d] # None
                    /\ current'[d][2] \in 1..Len(log'[current'[d][1]])
                    /\ current'[d][2] <= committed'[current'[d][1]] + 1
                    /\ IsValid(InHand(d)')
                    /\ status'[d] = "committing" => InHand(d)'.key \in handled'
  BY DEF InHandIsReady, IsValid
<1> USE DEF ConsumerInv
<1>1. /\ Busy(d) /\ current'[d] = current[d]
      /\ status'[d] = "committing" =>
            status[d] = "committing" \/ InHand(d).key \in handled'
  OBVIOUS
<1>2. PICK t \in Partitions, n \in Nat : current[d] = <<t, n>>
  BY <1>1, InHandType
<1>3. /\ n \in 1..Len(log[t]) /\ n <= committed[t] + 1 /\ IsValid(log[t][n])
      /\ status[d] = "committing" => log[t][n].key \in handled
      /\ current[d] # None
  BY <1>1, <1>2 DEF InHandIsReady, InHand
<1>4. /\ Len(log[t]) <= Len(log'[t]) /\ log'[t][n] = log[t][n] /\ handled \subseteq handled'
  BY <1>3, HistoryGrows
<1>5. /\ committed[t] <= committed'[t] /\ committed[t] \in Nat /\ committed'[t] \in Nat
  BY CommittedGrows DEF TypeOK
<1>6. Len(log[t]) \in Nat /\ Len(log'[t]) \in Nat
  <2>1. TypeOK'
    BY NextTypeOK
  <2>2. log[t] \in Seq(Events) /\ log'[t] \in Seq(Events)
    BY <2>1 DEF TypeOK
  <2>. QED BY <2>2
<1>7. InHand(d)' = log[t][n] /\ InHand(d) = log[t][n]
  BY <1>1, <1>2, <1>4 DEF InHand
<1>8. /\ current'[d] # None /\ IsValid(InHand(d)')
      /\ status'[d] = "committing" => InHand(d)'.key \in handled'
  <2>1. current'[d] # None
    BY <1>1, <1>3
  <2>2. IsValid(InHand(d)')
    BY <1>3, <1>7 DEF IsValid
  <2>3. ASSUME status'[d] = "committing"
        PROVE  InHand(d)'.key \in handled'
    BY <2>3, <1>1, <1>3, <1>4, <1>7
  <2>. QED BY <2>1, <2>2, <2>3
<1>9. /\ current'[d][2] \in 1..Len(log'[current'[d][1]])
      /\ current'[d][2] <= committed'[current'[d][1]] + 1
  BY <1>1, <1>2, <1>3, <1>4, <1>5, <1>6
<1>. QED BY <1>8, <1>9

LEMMA NextInHandIsReady == ConsumerInv /\ [Next]_vars => InHandIsReady'
<1> SUFFICES ASSUME ConsumerInv, [Next]_vars PROVE InHandIsReady'
  OBVIOUS
<1> USE TypeScriptConsumerAssumption DEF ConsumerInv, Become, brokerVars, memoryVars
<1>1. ASSUME NEW t \in Partitions, NEW e \in Events, Publish(t, e)
      PROVE  InHandIsReady'
  BY <1>1, InHandStays
     DEF Publish, Busy, TypeOK
<1>2. ASSUME NEW t \in Partitions, NEW c \in Consumers, Assign(t, c)
      PROVE  InHandIsReady'
  BY <1>2, InHandStays
     DEF Assign, GivePartition, Busy, TypeOK
<1>3. ASSUME NEW t \in Partitions, NEW c \in Consumers, Rebalance(t, c)
      PROVE  InHandIsReady'
  BY <1>3, InHandStays
     DEF Rebalance, GivePartition, Busy, TypeOK
<1>4. ASSUME NEW c \in Consumers, Crash(c)
      PROVE  InHandIsReady'
  BY <1>4, InHandStays DEF Crash, Busy, TypeOK
<1>5. ASSUME NEW c \in Consumers, Run(c)
      PROVE  InHandIsReady'
  BY <1>5, InHandStays
     DEF Run, Busy, TypeOK
<1>6. ASSUME NEW c \in Consumers, Close(c)
      PROVE  InHandIsReady'
  BY <1>6, InHandStays
     DEF Close, Busy, TypeOK
<1>7. ASSUME NEW c \in Consumers, Disconnect(c)
      PROVE  InHandIsReady'
  BY <1>7, InHandStays
     DEF Disconnect, Release, Busy, TypeOK
<1>8. ASSUME NEW c \in Consumers, HandlerResolves(c)
      PROVE  InHandIsReady'
  <2>1. InHand(c).key \in handled'
    BY <1>8 DEF HandlerResolves
  <2>2. \A d \in Consumers \ {c} : status'[d] = status[d] /\ current'[d] = current[d]
    BY <1>8 DEF HandlerResolves, TypeOK
  <2>3. Busy(c) /\ current'[c] = current[c]
    BY <1>8 DEF HandlerResolves, Busy
  <2>. QED BY <2>1, <2>2, <2>3, InHandStays DEF Busy
<1>9. ASSUME NEW c \in Consumers, HandlerRejects(c)
      PROVE  InHandIsReady'
  BY <1>9, InHandStays
     DEF HandlerRejects, EndMessage, Busy, TypeOK
<1>10. ASSUME NEW c \in Consumers, Commit(c)
      PROVE  InHandIsReady'
  BY <1>10, InHandStays
     DEF Commit, EndMessage, Busy, TypeOK
<1>11. ASSUME NEW c \in Consumers, CommitRefused(c)
      PROVE  InHandIsReady'
  BY <1>11, InHandStays
     DEF CommitRefused, EndMessage, Busy, TypeOK
<1>12. ASSUME NEW c \in Consumers, CommitRejects(c)
      PROVE  InHandIsReady'
  BY <1>12, InHandStays
     DEF CommitRejects, EndMessage, Busy, TypeOK
<1>13. ASSUME NEW c \in Consumers, NEW t \in Partitions, SkipUnhandled(c, t)
      PROVE  InHandIsReady'
  BY <1>13, InHandStays
     DEF SkipUnhandled, Feeds, Busy, TypeOK
<1>14. ASSUME NEW c \in Consumers, NEW t \in Partitions, Reject(c, t)
      PROVE  InHandIsReady'
  BY <1>14, InHandStays
     DEF Reject, Feeds, Busy, TypeOK
<1>15. ASSUME NEW c \in Consumers, NEW t \in Partitions, SkipDuplicate(c, t)
      PROVE  InHandIsReady'
  <2>1. /\ log' = log /\ committed' = committed /\ handled' = handled
        /\ current'[c] = <<t, position[t] + 1>> /\ status'[c] = "committing"
    BY <1>15 DEF SkipDuplicate, Decoded, TypeOK
  <2>2. /\ position[t] + 1 \in 1..Len(log[t]) /\ position[t] \in Nat
        /\ NextMessage(t) = log[t][position[t] + 1] /\ IsValid(NextMessage(t))
    BY <1>15, NextMessageType DEF SkipDuplicate, Decoded, NextMessage
  <2>3. position[t] + 1 <= committed[t] + 1
    <3>1. owner[t] = c /\ t \in handlers[c] /\ c # None
      BY <1>15 DEF SkipDuplicate, Decoded, Feeds
    <3>2. position[t] <= committed[t]
      BY <3>1 DEF OwnerKeepsPace
    <3>. QED BY <3>2, <2>2 DEF TypeOK
  <2>4. \A d \in Consumers \ {c} : status'[d] = status[d] /\ current'[d] = current[d]
    BY <1>15 DEF SkipDuplicate, Decoded, TypeOK
  <2>5. NextMessage(t).key \in handled /\ <<t, position[t] + 1>> # None
    BY <1>15, <2>2
       DEF SkipDuplicate, Seen, Contains, ToSet, WindowKeysWereHandled, TypeOK
  <2>6. ASSUME NEW d \in Consumers, Busy(d)'
        PROVE  /\ current'[d] # None
               /\ current'[d][2] \in 1..Len(log'[current'[d][1]])
               /\ current'[d][2] <= committed'[current'[d][1]] + 1
               /\ IsValid(InHand(d)')
               /\ status'[d] = "committing" => InHand(d)'.key \in handled'
    <3>1. CASE d = c
      <4>1. /\ current'[d] = <<t, position[t] + 1>>
            /\ InHand(d)' = NextMessage(t)
        BY <2>1, <2>2, <3>1 DEF InHand
      <4>2. /\ current'[d][1] = t /\ current'[d][2] = position[t] + 1
        BY <4>1
      <4>. QED BY <2>1, <2>2, <2>3, <2>5, <3>1, <4>1, <4>2
    <3>2. CASE d # c
      <4>1. d \in Consumers \ {c} /\ Busy(d) /\ InHand(d)' = InHand(d)
        BY <2>1, <2>4, <2>6, <3>2 DEF Busy, InHand
      <4>. QED BY <2>1, <2>4, <4>1 DEF InHandIsReady
    <3>. QED BY <3>1, <3>2
  <2>. QED BY <2>6 DEF InHandIsReady, IsValid
<1>16. ASSUME NEW c \in Consumers, NEW t \in Partitions, CallHandler(c, t)
      PROVE  InHandIsReady'
  <2>1. /\ log' = log /\ committed' = committed /\ handled' = handled
        /\ current'[c] = <<t, position[t] + 1>> /\ status'[c] = "handling"
    BY <1>16 DEF CallHandler, Decoded, TypeOK
  <2>2. /\ position[t] + 1 \in 1..Len(log[t]) /\ position[t] \in Nat
        /\ NextMessage(t) = log[t][position[t] + 1] /\ IsValid(NextMessage(t))
    BY <1>16, NextMessageType DEF CallHandler, Decoded, NextMessage
  <2>3. position[t] + 1 <= committed[t] + 1
    <3>1. owner[t] = c /\ t \in handlers[c] /\ c # None
      BY <1>16 DEF CallHandler, Decoded, Feeds
    <3>2. position[t] <= committed[t]
      BY <3>1 DEF OwnerKeepsPace
    <3>. QED BY <3>2, <2>2 DEF TypeOK
  <2>4. \A d \in Consumers \ {c} : status'[d] = status[d] /\ current'[d] = current[d]
    BY <1>16 DEF CallHandler, Decoded, TypeOK
  <2>5. <<t, position[t] + 1>> # None
    BY <2>2
  <2>6. ASSUME NEW d \in Consumers, Busy(d)'
        PROVE  /\ current'[d] # None
               /\ current'[d][2] \in 1..Len(log'[current'[d][1]])
               /\ current'[d][2] <= committed'[current'[d][1]] + 1
               /\ IsValid(InHand(d)')
               /\ status'[d] = "committing" => InHand(d)'.key \in handled'
    <3>1. CASE d = c
      <4>1. /\ current'[d] = <<t, position[t] + 1>>
            /\ InHand(d)' = NextMessage(t)
        BY <2>1, <2>2, <3>1 DEF InHand
      <4>2. /\ current'[d][1] = t /\ current'[d][2] = position[t] + 1
        BY <4>1
      <4>. QED BY <2>1, <2>2, <2>3, <2>5, <3>1, <4>1, <4>2
    <3>2. CASE d # c
      <4>1. d \in Consumers \ {c} /\ Busy(d) /\ InHand(d)' = InHand(d)
        BY <2>1, <2>4, <2>6, <3>2 DEF Busy, InHand
      <4>. QED BY <2>1, <2>4, <4>1 DEF InHandIsReady
    <3>. QED BY <3>1, <3>2
  <2>. QED BY <2>6 DEF InHandIsReady, IsValid
<1>17. CASE UNCHANGED vars
  BY <1>17, InHandStays
     DEF Busy, vars
<1>. QED
  BY <1>1, <1>2, <1>3, <1>4, <1>5, <1>6, <1>7, <1>8, <1>9,
     <1>10, <1>11, <1>12, <1>13, <1>14, <1>15, <1>16, <1>17
     DEF Next, EachMessage, MessageEnds

\* A rejected message is fed again from the position or from the committed offset.
LEMMA FedAgainKeepsPace ==
    ASSUME ConsumerInv, NEW c \in Consumers, FeedAgain(c), ~Busy(c)',
           owner' = owner, handlers' = handlers, committed' \in [Partitions -> Nat],
           \A d \in Consumers \ {c} : status'[d] = status[d] /\ current'[d] = current[d],
           \A t \in Partitions : \/ committed'[t] = committed[t]
                                 \/ owner[t] = c /\ committed'[t] = position[t] + 1
    PROVE  OwnerKeepsPace'
<1> USE TypeScriptConsumerAssumption DEF ConsumerInv
<1> SUFFICES ASSUME NEW t \in Partitions, owner'[t] # None
             PROVE  /\ committed'[t] <= position'[t] + 1
                    /\ t \in handlers'[owner'[t]] => position'[t] <= committed'[t]
                    /\ Busy(owner[t])' /\ current'[owner'[t]][1] = t =>
                          current'[owner'[t]][2] = position'[t] + 1
  BY DEF OwnerKeepsPace, Busy
<1>1. committed[t] \in Nat /\ committed'[t] \in Nat /\ position[t] \in Nat
  BY DEF TypeOK
<1>2. /\ committed[t] <= position[t] + 1
      /\ t \in handlers[owner[t]] => position[t] <= committed[t]
  BY DEF OwnerKeepsPace
<1>3. CASE owner[t] = c
  <2>1. position'[t] = position[t] \/ position'[t] = committed'[t]
    BY <1>3 DEF FeedAgain
  <2>. QED BY <1>1, <1>2, <1>3, <2>1 DEF Busy
<1>4. CASE owner[t] # c
  <2>1. owner[t] \in Consumers \ {c} /\ position'[t] = position[t]
    BY <1>4 DEF FeedAgain, TypeOK
  <2>2. committed'[t] = committed[t]
    BY <1>4
  <2>. QED BY <1>1, <1>2, <1>4, <2>1, <2>2 DEF OwnerKeepsPace, Busy
<1>. QED BY <1>3, <1>4

LEMMA NextOwnerKeepsPace == ConsumerInv /\ [Next]_vars => OwnerKeepsPace'
<1> SUFFICES ASSUME ConsumerInv, [Next]_vars PROVE OwnerKeepsPace'
  OBVIOUS
<1> USE TypeScriptConsumerAssumption DEF ConsumerInv, Become, brokerVars, memoryVars
<1>1. ASSUME NEW t \in Partitions, NEW e \in Events, Publish(t, e)
      PROVE  OwnerKeepsPace'
  BY <1>1
     DEF OwnerKeepsPace, Busy, TypeOK, Publish
<1>2. ASSUME NEW t \in Partitions, NEW c \in Consumers, Assign(t, c)
      PROVE  OwnerKeepsPace'
  BY <1>2
     DEF OwnerKeepsPace, Busy, TypeOK, Assign, GivePartition
<1>3. ASSUME NEW t \in Partitions, NEW c \in Consumers, Rebalance(t, c)
      PROVE  OwnerKeepsPace'
  BY <1>3
     DEF OwnerKeepsPace, Busy, TypeOK, Rebalance, GivePartition
<1>4. ASSUME NEW c \in Consumers, Crash(c)
      PROVE  OwnerKeepsPace'
  <2>1. \A t \in Partitions : owner'[t] # None => owner'[t] = owner[t] /\ owner[t] # c
    BY <1>4 DEF Crash, Release, TypeOK
  <2>2. \A d \in Consumers \ {c} : /\ status'[d] = status[d] /\ current'[d] = current[d]
                                  /\ handlers'[d] = handlers[d]
    BY <1>4 DEF Crash, TypeOK
  <2>. QED BY <1>4, <2>1, <2>2 DEF Crash, OwnerKeepsPace, Busy, TypeOK
<1>5. ASSUME NEW c \in Consumers, Run(c)
      PROVE  OwnerKeepsPace'
  <2>1. \A t \in Partitions : owner[t] # c
    BY <1>5 DEF Run, Running, TypeOK
  <2>2. \A d \in Consumers \ {c} : status'[d] = status[d] /\ handlers'[d] = handlers[d]
    BY <1>5 DEF Run, TypeOK
  <2>. QED BY <1>5, <2>1, <2>2 DEF Run, OwnerKeepsPace, Busy, TypeOK
<1>6. ASSUME NEW c \in Consumers, Close(c)
      PROVE  OwnerKeepsPace'
  BY <1>6
     DEF OwnerKeepsPace, Busy, TypeOK, Close
<1>7. ASSUME NEW c \in Consumers, Disconnect(c)
      PROVE  OwnerKeepsPace'
  <2>1. \A t \in Partitions : owner'[t] # None => owner'[t] = owner[t] /\ owner[t] # c
    BY <1>7 DEF Disconnect, Release, TypeOK
  <2>2. \A d \in Consumers \ {c} : status'[d] = status[d]
    BY <1>7 DEF Disconnect, TypeOK
  <2>. QED BY <1>7, <2>1, <2>2 DEF Disconnect, OwnerKeepsPace, Busy, TypeOK
<1>8. ASSUME NEW c \in Consumers, HandlerResolves(c)
      PROVE  OwnerKeepsPace'
  BY <1>8
     DEF OwnerKeepsPace, Busy, TypeOK, HandlerResolves
<1>9. ASSUME NEW c \in Consumers, HandlerRejects(c)
      PROVE  OwnerKeepsPace'
  <2>1. /\ FeedAgain(c) /\ owner' = owner /\ handlers' = handlers /\ committed' = committed
        /\ \A d \in Consumers \ {c} : status'[d] = status[d] /\ current'[d] = current[d]
        /\ status'[c] = "running"
    BY <1>9 DEF HandlerRejects, EndMessage, TypeOK
  <2>. QED BY <2>1, FedAgainKeepsPace DEF Busy, TypeOK
<1>10. ASSUME NEW c \in Consumers, Commit(c)
      PROVE  OwnerKeepsPace'
  <2>1. /\ status[c] = "committing" /\ MayCommit(c) /\ CommitOffset(c)
        /\ owner' = owner /\ handlers' = handlers /\ ~Busy(c)'
        /\ position' = [position EXCEPT ![current[c][1]] = current[c][2]]
    BY <1>10 DEF Commit, EndMessage, Busy, TypeOK
  <2>2. PICK t \in Partitions : \E n \in {committed[t], committed[t] + 1} :
              /\ current[c][1] = t /\ current[c][2] = n
              /\ owner[t] = c
              /\ committed' = [committed EXCEPT ![t] = n]
    BY <2>1, CommitIsNext
  <2>3. /\ position'[t] = committed'[t] /\ committed'[t] \in Nat /\ owner[t] = c
        /\ \A u \in Partitions \ {t} : /\ position'[u] = position[u]
                                       /\ committed'[u] = committed[u]
    BY <2>1, <2>2 DEF TypeOK
  <2>4. \A d \in Consumers \ {c} : status'[d] = status[d] /\ current'[d] = current[d]
    BY <1>10 DEF Commit, EndMessage, TypeOK
  <2> SUFFICES ASSUME NEW u \in Partitions, owner'[u] # None
               PROVE  /\ committed'[u] <= position'[u] + 1
                      /\ u \in handlers'[owner'[u]] => position'[u] <= committed'[u]
                      /\ Busy(owner[u])' /\ current'[owner'[u]][1] = u =>
                            current'[owner'[u]][2] = position'[u] + 1
    BY DEF OwnerKeepsPace, Busy
  <2>5. CASE u = t
    BY <2>1, <2>3, <2>5 DEF Busy
  <2>6. CASE u # t /\ owner[u] = c
    BY <2>1, <2>3, <2>6 DEF OwnerKeepsPace, Busy
  <2>7. CASE u # t /\ owner[u] # c
    <3>1. owner[u] \in Consumers \ {c}
      BY <2>1, <2>7 DEF TypeOK
    <3>. QED BY <2>1, <2>3, <2>4, <2>7, <3>1 DEF OwnerKeepsPace, Busy
  <2>. QED BY <2>5, <2>6, <2>7
<1>11. ASSUME NEW c \in Consumers, CommitRefused(c)
      PROVE  OwnerKeepsPace'
  <2>1. /\ FeedAgain(c) /\ owner' = owner /\ handlers' = handlers /\ committed' = committed
        /\ \A d \in Consumers \ {c} : status'[d] = status[d] /\ current'[d] = current[d]
        /\ status'[c] = "running"
    BY <1>11 DEF CommitRefused, EndMessage, TypeOK
  <2>. QED BY <2>1, FedAgainKeepsPace DEF Busy, TypeOK
<1>12. ASSUME NEW c \in Consumers, CommitRejects(c)
      PROVE  OwnerKeepsPace'
  <2>1. /\ FeedAgain(c) /\ owner' = owner /\ handlers' = handlers
        /\ \A d \in Consumers \ {c} : status'[d] = status[d] /\ current'[d] = current[d]
        /\ status'[c] = "running"
    BY <1>12 DEF CommitRejects, EndMessage, TypeOK
  <2>2. \A t \in Partitions : \/ committed'[t] = committed[t]
                              \/ owner[t] = c /\ committed'[t] = position[t] + 1
    <3>1. CASE committed' = committed
      BY <3>1
    <3>2. CASE MayCommit(c) /\ CommitOffset(c)
      <4>1. PICK t \in Partitions : /\ owner[t] = c
                                   /\ committed' = [committed EXCEPT ![t] = position[t] + 1]
        BY <1>12, <3>2, CommitIsNext DEF CommitRejects
      <4>. QED BY <4>1 DEF TypeOK
    <3>. QED BY <1>12, <3>1, <3>2 DEF CommitRejects
  <2>3. committed' \in [Partitions -> Nat]
    BY CommittedGrows
  <2>. QED BY <2>1, <2>2, <2>3, FedAgainKeepsPace DEF Busy
<1>13. ASSUME NEW c \in Consumers, NEW t \in Partitions, SkipUnhandled(c, t)
      PROVE  OwnerKeepsPace'
  BY <1>13
     DEF OwnerKeepsPace, Busy, TypeOK, SkipUnhandled, Feeds
<1>14. ASSUME NEW c \in Consumers, NEW t \in Partitions, Reject(c, t)
      PROVE  OwnerKeepsPace'
  <2>1. /\ FeedAgain(c) /\ owner' = owner /\ handlers' = handlers /\ committed' = committed
        /\ status' = status /\ current' = current /\ status[c] = "running"
    BY <1>14 DEF Reject, Feeds
  <2>. QED BY <2>1, FedAgainKeepsPace DEF Busy, TypeOK
<1>15. ASSUME NEW c \in Consumers, NEW t \in Partitions, SkipDuplicate(c, t)
      PROVE  OwnerKeepsPace'
  <2>1. /\ owner[t] = c /\ current'[c][1] = t /\ current'[c][2] = position[t] + 1
    BY <1>15 DEF SkipDuplicate, Decoded, Feeds, TypeOK
  <2>2. \A d \in Consumers \ {c} : status'[d] = status[d] /\ current'[d] = current[d]
    BY <1>15 DEF SkipDuplicate, Decoded, TypeOK
  <2>. QED BY <1>15, <2>1, <2>2 DEF SkipDuplicate, Decoded, OwnerKeepsPace, Busy, TypeOK
<1>16. ASSUME NEW c \in Consumers, NEW t \in Partitions, CallHandler(c, t)
      PROVE  OwnerKeepsPace'
  <2>1. /\ owner[t] = c /\ current'[c][1] = t /\ current'[c][2] = position[t] + 1
    BY <1>16 DEF CallHandler, Decoded, Feeds, TypeOK
  <2>2. \A d \in Consumers \ {c} : status'[d] = status[d] /\ current'[d] = current[d]
    BY <1>16 DEF CallHandler, Decoded, TypeOK
  <2>. QED BY <1>16, <2>1, <2>2 DEF CallHandler, Decoded, OwnerKeepsPace, Busy, TypeOK
<1>17. CASE UNCHANGED vars
  BY <1>17
     DEF OwnerKeepsPace, Busy, TypeOK, vars
<1>. QED
  BY <1>1, <1>2, <1>3, <1>4, <1>5, <1>6, <1>7, <1>8, <1>9,
     <1>10, <1>11, <1>12, <1>13, <1>14, <1>15, <1>16, <1>17
     DEF Next, EachMessage, MessageEnds

LEMMA NextWindowKeysWereHandled == ConsumerInv /\ [Next]_vars => WindowKeysWereHandled'
<1> SUFFICES ASSUME ConsumerInv, [Next]_vars PROVE WindowKeysWereHandled'
  OBVIOUS
<1> USE TypeScriptConsumerAssumption DEF ConsumerInv
<1>1. handled \subseteq handled'
  BY HistoryGrows
<1>2. ASSUME NEW c \in Consumers, Crash(c)
      PROVE  WindowKeysWereHandled'
  BY <1>2 DEF Crash, WindowKeysWereHandled, EmptyWindow, ToSet, TypeOK
<1>3. ASSUME NEW c \in Consumers, NEW t \in Partitions, SkipDuplicate(c, t)
      PROVE  WindowKeysWereHandled'
  <2>1. NextMessage(t).key \in Keys
    BY <1>3, NextMessageType DEF SkipDuplicate, Decoded
  <2>2. ToSet(AfterSeen(dedup[c], NextMessage(t).key)) \subseteq ToSet(dedup[c])
    BY <2>1, AfterSeenProperties DEF TypeOK
  <2>. QED BY <1>3, <2>2 DEF SkipDuplicate, Decoded, WindowKeysWereHandled, TypeOK
<1>4. ASSUME NEW c \in Consumers, HandlerResolves(c)
      PROVE  WindowKeysWereHandled'
  <2>1. InHand(c).key \in Keys
    BY <1>4, InHandType DEF HandlerResolves, Busy
  <2>2. ToSet(AfterRecord(dedup[c], InHand(c).key, Capacity))
            \subseteq ToSet(dedup[c]) \cup {InHand(c).key}
    BY <2>1, AfterRecordProperties DEF TypeOK
  <2>. QED BY <1>4, <2>2 DEF HandlerResolves, WindowKeysWereHandled, TypeOK
<1>5. CASE dedup' = dedup
  BY <1>1, <1>5 DEF WindowKeysWereHandled
<1>. QED BY <1>2, <1>3, <1>4, <1>5
         DEF Next, Publish, Assign, Rebalance, GivePartition, Run, Close,
             Disconnect, EachMessage, SkipUnhandled, Reject, CallHandler,
             Decoded, MessageEnds, HandlerRejects, Commit, CommitRefused,
             CommitRejects, EndMessage, brokerVars, memoryVars, vars

LEMMA NextNoEventSkipped == ConsumerInv /\ [Next]_vars => NoEventSkipped'
<1> SUFFICES ASSUME ConsumerInv, [Next]_vars PROVE NoEventSkipped'
  OBVIOUS
<1> SUFFICES ASSUME NEW t \in Partitions
             PROVE  /\ committed'[t] <= Len(log'[t])
                    /\ \A i \in 1..committed'[t] : /\ IsValid(log'[t][i])
                                                  /\ log'[t][i].key \in handled'
  BY DEF NoEventSkipped, IsValid
<1> USE DEF ConsumerInv
<1>1. /\ committed[t] \in Nat /\ committed[t] <= Len(log[t])
      /\ \A i \in 1..committed[t] : IsValid(log[t][i]) /\ log[t][i].key \in handled
  BY DEF TypeOK, NoEventSkipped
<1>2. CASE committed'[t] = committed[t]
  <2>1. /\ Len(log[t]) <= Len(log'[t]) /\ handled \subseteq handled'
        /\ \A i \in 1..Len(log[t]) : log'[t][i] = log[t][i]
    BY HistoryGrows
  <2>2. TypeOK'
    BY NextTypeOK
  <2>3. Len(log[t]) \in Nat /\ Len(log'[t]) \in Nat
    BY <2>2 DEF TypeOK
  <2>. QED BY <1>1, <1>2, <2>1, <2>3
<1>3. CASE committed'[t] # committed[t]
  <2>1. PICK c \in Consumers : /\ status[c] = "committing" /\ MayCommit(c) /\ CommitOffset(c)
                              /\ log' = log /\ handled' = handled
    BY <1>3, OnlyCommitMovesOffsets
  <2>2. PICK u \in Partitions : \E n \in {committed[u], committed[u] + 1} :
              /\ committed' = [committed EXCEPT ![u] = n]
              /\ n \in 1..Len(log[u])
              /\ IsValid(log[u][n]) /\ log[u][n].key \in handled
    BY <2>1, CommitIsNext
  <2>3. u = t
    BY <1>3, <2>2 DEF TypeOK
  <2>4. /\ committed'[t] = committed[t] + 1
        /\ committed[t] + 1 \in 1..Len(log[t])
        /\ IsValid(log[t][committed[t] + 1]) /\ log[t][committed[t] + 1].key \in handled
    BY <1>3, <2>2, <2>3 DEF TypeOK
  <2>. QED BY <1>1, <2>1, <2>4
<1>. QED BY <1>2, <1>3

LEMMA AlwaysConsumerInv == Spec => []ConsumerInv
<1>1. ConsumerInv /\ [Next]_vars => ConsumerInv'
  BY NextTypeOK, NextInHandIsReady, NextOwnerKeepsPace, NextWindowKeysWereHandled,
     NextNoEventSkipped DEF ConsumerInv
<1>. QED BY <1>1, InitConsumerInv, PTL DEF Spec

\* Type correctness: through any number of crashes, rebalances, rejections and
\* closes the group keeps its shape, a window its capacity (dedup-store.ts
\* 42-50), and close() waits only for a consumer that runs and whose flag is set.
THEOREM TypeCorrect == Spec => []TypeOK
<1>1. ConsumerInv => TypeOK
  BY DEF ConsumerInv
<1>. QED BY <1>1, AlwaysConsumerInv, PTL

\* At-least-once (consumer.ts 29-39): a process goes on after every rejection,
\* refused commit and throwing callback, and a topic without a handler is
\* skipped, yet every offset the group passed is that of a handled event.
THEOREM NoEventIsSkipped == Spec => []NoEventSkipped
<1>1. ConsumerInv => NoEventSkipped
  BY DEF ConsumerInv
<1>. QED BY <1>1, AlwaysConsumerInv, PTL

-----------------------------------------------------------------------------
(***************************************************************************)
(* A handler call is repeated only for a key that may have been evicted.   *)
(***************************************************************************)
\* A window holds keys its process completed, has forgotten none of them while it
\* has room, and a key in a handler's hands is not in it.
WindowsForgetWhenFull ==
    \A c \in Consumers :
        /\ ToSet(dedup[c]) \subseteq mine[c]
        /\ mine[c] \subseteq ToSet(dedup[c]) \/ Len(dedup[c]) = Capacity
        /\ status[c] = "handling" => InHand(c).key \notin ToSet(dedup[c])

LEMMA NextWindowsForget ==
    ConsumerInv /\ WindowsForgetWhenFull /\ [Next]_vars => WindowsForgetWhenFull'
<1> SUFFICES ASSUME ConsumerInv, WindowsForgetWhenFull, [Next]_vars
             PROVE  WindowsForgetWhenFull'
  OBVIOUS
<1> USE TypeScriptConsumerAssumption DEF ConsumerInv
<1>1. ASSUME NEW c \in Consumers, Crash(c)
      PROVE  WindowsForgetWhenFull'
  <2>1. /\ log' = log /\ mine'[c] = {} /\ status'[c] = "starting" /\ ToSet(dedup'[c]) = {}
        /\ \A d \in Consumers \ {c} : /\ mine'[d] = mine[d] /\ dedup'[d] = dedup[d]
                                      /\ status'[d] = status[d] /\ current'[d] = current[d]
    BY <1>1 DEF Crash, Become, EmptyWindow, ToSet, TypeOK
  <2>. QED BY <2>1 DEF WindowsForgetWhenFull, InHand
<1>2. ASSUME NEW c \in Consumers, NEW t \in Partitions, SkipDuplicate(c, t)
      PROVE  WindowsForgetWhenFull'
  <2>1. /\ log' = log /\ mine' = mine /\ status'[c] = "committing"
        /\ dedup'[c] = AfterSeen(dedup[c], NextMessage(t).key)
        /\ \A d \in Consumers \ {c} : /\ dedup'[d] = dedup[d]
                                      /\ status'[d] = status[d] /\ current'[d] = current[d]
    BY <1>2 DEF SkipDuplicate, Decoded, Become, brokerVars, memoryVars, TypeOK
  <2>2. NextMessage(t).key \in Keys
    BY <1>2, NextMessageType DEF SkipDuplicate, Decoded
  <2>3. /\ Len(dedup'[c]) = Len(dedup[c])
        /\ ToSet(dedup'[c]) \subseteq ToSet(dedup[c])
    BY <2>1, <2>2, AfterSeenProperties DEF TypeOK
  <2>4. ToSet(dedup[c]) \subseteq ToSet(dedup'[c])
    BY <2>1, <2>2, AfterSeenForgetsNothing DEF TypeOK
  <2>. QED BY <2>1, <2>3, <2>4 DEF WindowsForgetWhenFull, InHand
<1>3. ASSUME NEW c \in Consumers, NEW t \in Partitions, CallHandler(c, t)
      PROVE  WindowsForgetWhenFull'
  <2>1. /\ log' = log /\ mine' = mine /\ dedup' = dedup
        /\ current'[c] = <<t, position[t] + 1>>
        /\ \A d \in Consumers \ {c} : status'[d] = status[d] /\ current'[d] = current[d]
    BY <1>3 DEF CallHandler, Decoded, Become, brokerVars, memoryVars, TypeOK
  <2>2. InHand(c)' = NextMessage(t)
    BY <2>1 DEF InHand, NextMessage
  <2>3. NextMessage(t).key \notin ToSet(dedup[c])
    BY <1>3 DEF CallHandler, Seen, Contains, ToSet
  <2>. QED BY <2>1, <2>2, <2>3 DEF WindowsForgetWhenFull, InHand
<1>4. ASSUME NEW c \in Consumers, HandlerResolves(c)
      PROVE  WindowsForgetWhenFull'
  <2>1. /\ log' = log /\ current' = current /\ status'[c] = "committing"
        /\ mine'[c] = mine[c] \cup {InHand(c).key}
        /\ dedup'[c] = AfterRecord(dedup[c], InHand(c).key, Capacity)
        /\ \A d \in Consumers \ {c} : /\ mine'[d] = mine[d] /\ dedup'[d] = dedup[d]
                                      /\ status'[d] = status[d]
    BY <1>4 DEF HandlerResolves, Become, brokerVars, memoryVars, TypeOK
  <2>2. InHand(c).key \in Keys
    BY <1>4, InHandType DEF HandlerResolves, Busy
  <2>3. \/ ToSet(dedup[c]) \cup {InHand(c).key} \subseteq ToSet(dedup'[c])
        \/ Len(dedup'[c]) = Capacity
    BY <2>1, <2>2, AfterRecordForgetsWhenFull DEF TypeOK
  <2>4. Len(dedup[c]) = Capacity => Len(dedup'[c]) = Capacity
    BY <2>1, <2>2, AfterRecordForgetsWhenFull DEF TypeOK
  <2>5. mine'[c] \subseteq ToSet(dedup'[c]) \/ Len(dedup'[c]) = Capacity
    BY <2>1, <2>3, <2>4 DEF WindowsForgetWhenFull
  <2>6. ToSet(dedup'[c]) \subseteq mine'[c]
    BY <2>1, <2>2, AfterRecordProperties DEF WindowsForgetWhenFull, TypeOK
  <2>. QED BY <2>1, <2>5, <2>6 DEF WindowsForgetWhenFull, InHand
<1>5. CASE /\ mine' = mine /\ dedup' = dedup
           /\ \A d \in Consumers : status'[d] = "handling" =>
                  status[d] = "handling" /\ current'[d] = current[d]
  <2>1. ASSUME NEW d \in Consumers, status'[d] = "handling"
        PROVE  InHand(d)' = InHand(d)
    <3>1. /\ status[d] = "handling" /\ current'[d] = current[d] /\ Busy(d)
      BY <1>5, <2>1 DEF Busy
    <3>2. PICK t \in Partitions, n \in Nat : current[d] = <<t, n>> /\ n \in 1..Len(log[t])
      BY <3>1, InHandType
    <3>3. log'[t][n] = log[t][n]
      BY <3>2, HistoryGrows
    <3>. QED BY <3>1, <3>2, <3>3 DEF InHand
  <2>. QED BY <1>5, <2>1 DEF WindowsForgetWhenFull
<1>6. ASSUME NEW c \in Consumers, Run(c)
      PROVE  WindowsForgetWhenFull'
  <2>1. /\ mine' = mine /\ dedup' = dedup /\ current' = current
        /\ \A d \in Consumers : status'[d] = "handling" => status[d] = "handling"
    BY <1>6 DEF Run, Become, TypeOK
  <2>. QED BY <1>5, <2>1
<1>7. ASSUME NEW c \in Consumers,
             HandlerRejects(c) \/ Commit(c) \/ CommitRefused(c) \/ CommitRejects(c)
      PROVE  WindowsForgetWhenFull'
  <2>1. EndMessage(c)
    BY <1>7 DEF HandlerRejects, Commit, CommitRefused, CommitRejects
  <2>2. /\ mine' = mine /\ dedup' = dedup /\ status'[c] = "running"
        /\ \A d \in Consumers \ {c} : status'[d] = status[d] /\ current'[d] = current[d]
    BY <2>1 DEF EndMessage, Become, memoryVars, TypeOK
  <2>. QED BY <1>5, <2>2
<1>8. ASSUME NEW c \in Consumers, Close(c) \/ Disconnect(c)
      PROVE  WindowsForgetWhenFull'
  <2>1. /\ mine' = mine /\ dedup' = dedup /\ current' = current
        /\ \A d \in Consumers : status'[d] = "handling" => status[d] = "handling"
    BY <1>8 DEF Close, Disconnect, Become, memoryVars, TypeOK
  <2>. QED BY <1>5, <2>1
<1>9. CASE mine' = mine /\ dedup' = dedup /\ current' = current /\ status' = status
  BY <1>5, <1>9
<1>. QED BY <1>1, <1>2, <1>3, <1>4, <1>6, <1>7, <1>8, <1>9
         DEF Next, Publish, Assign, Rebalance, GivePartition, EachMessage,
             SkipUnhandled, Reject, MessageEnds, brokerVars, memoryVars, vars

\* Over rejections, refused commits, throwing callbacks and restarts of kafkajs,
\* a process calls the handler again for a key that it completed only when other
\* keys it completed fill its window (dedup-store.ts 42-50): the key is recorded
\* before the commit (consumer.ts 230-236).
THEOREM RepeatsAreEvictions == Spec => []RepeatsOnlyAfterEviction
<1>1. Init => WindowsForgetWhenFull
  BY DEF Init, WindowsForgetWhenFull, EmptyWindow, ToSet
<1>2. ConsumerInv /\ WindowsForgetWhenFull /\ [Next]_vars => WindowsForgetWhenFull'
  BY NextWindowsForget
<1>3. WindowsForgetWhenFull => RepeatsOnlyAfterEviction
  BY DEF WindowsForgetWhenFull, RepeatsOnlyAfterEviction
<1>. QED BY <1>1, <1>2, <1>3, AlwaysConsumerInv, PTL DEF Spec

-----------------------------------------------------------------------------
(***************************************************************************)
(* The group of consumers implements AtLeastOnceDelivery.                  *)
(***************************************************************************)
LEMMA StepDelivers ==
    ASSUME ConsumerInv, [Next]_vars
    PROVE  [Delivery!Next]_Delivery!vars
<1> USE DEF ConsumerInv, Delivery!HasNext, Delivery!NextEvent, Delivery!IsValid, IsValid
<1>1. CASE \E t \in Partitions, e \in Events : Publish(t, e)
  <2>1. PICK t \in Partitions, e \in Events : Publish(t, e)
    BY <1>1
  <2>2. Delivery!Publish(t, e)
    BY <2>1 DEF Publish, Delivery!Publish
  <2>. QED BY <2>2 DEF Delivery!Next, Delivery!Events, Events
<1>2. CASE committed' # committed
  <2>1. PICK c \in Consumers : /\ status[c] = "committing" /\ MayCommit(c) /\ CommitOffset(c)
                              /\ log' = log /\ handled' = handled
    BY <1>2, OnlyCommitMovesOffsets
  <2>2. PICK t \in Partitions : \E n \in {committed[t], committed[t] + 1} :
              /\ committed' = [committed EXCEPT ![t] = n]
              /\ n \in 1..Len(log[t])
              /\ log[t][n].body = "valid" /\ log[t][n].key \in handled
    BY <2>1, CommitIsNext
  <2>3. /\ committed' = [committed EXCEPT ![t] = @ + 1]
        /\ committed[t] + 1 \in 1..Len(log[t])
        /\ log[t][committed[t] + 1].body = "valid"
        /\ log[t][committed[t] + 1].key \in handled
    <3>1. committed' # [committed EXCEPT ![t] = committed[t]]
      BY <1>2 DEF TypeOK
    <3>. QED BY <2>2, <3>1
  <2>4. committed[t] \in Nat /\ Len(log[t]) \in Nat
    BY DEF TypeOK
  <2>5. Delivery!Pass(t)
    BY <2>1, <2>3, <2>4 DEF Delivery!Pass
  <2>. QED BY <2>5 DEF Delivery!Next
<1>3. CASE \E c \in Consumers : HandlerResolves(c)
  <2>1. PICK c \in Consumers : HandlerResolves(c)
    BY <1>3
  <2>2. /\ Busy(c) /\ log' = log /\ committed' = committed
        /\ handled' = handled \cup {InHand(c).key}
    BY <2>1 DEF HandlerResolves, Busy, brokerVars
  <2>3. PICK t \in Partitions : t = current[c][1]
    BY <2>2, InHandType
  <2>4. /\ current[c][2] \in 1..Len(log[t]) /\ current[c][2] <= committed[t] + 1
        /\ InHand(c) = log[t][current[c][2]] /\ IsValid(InHand(c))
    BY <2>2, <2>3, InHandType DEF InHandIsReady, InHand
  <2>5. committed[t] \in Nat /\ Len(log[t]) \in Nat
    BY DEF TypeOK
  <2>6. CASE current[c][2] = committed[t] + 1
    <3>1. Delivery!Handle(t)
      BY <2>2, <2>4, <2>5, <2>6 DEF Delivery!Handle
    <3>. QED BY <3>1 DEF Delivery!Next
  <2>7. CASE current[c][2] # committed[t] + 1
    <3>1. InHand(c).key \in handled
      BY <2>4, <2>5, <2>7 DEF NoEventSkipped
    <3>. QED BY <2>2, <3>1 DEF Delivery!vars
  <2>. QED BY <2>6, <2>7
<1>4. CASE /\ ~ \E t \in Partitions, e \in Events : Publish(t, e)
           /\ committed' = committed
           /\ ~ \E c \in Consumers : HandlerResolves(c)
  <2>1. log' = log /\ handled' = handled
    BY <1>4
       DEF Next, Assign, Rebalance, GivePartition, Run, Close, Disconnect,
           EachMessage, SkipUnhandled, Reject, CallHandler, Decoded,
           MessageEnds, HandlerRejects, Commit, CommitRefused, CommitRejects,
           EndMessage, brokerVars, memoryVars, vars, Crash, SkipDuplicate
  <2>. QED BY <1>4, <2>1 DEF Delivery!vars
<1>. QED BY <1>1, <1>2, <1>3, <1>4

\* The TypeScript consumers only take steps that AtLeastOnceDelivery allows:
\* publish, handle the next event, pass a handled event (consumer.ts 137-214).
THEOREM GroupDelivers == Spec => DeliversAtLeastOnce
<1>1. Init => Delivery!Init
  BY DEF Init, Delivery!Init
<1>2. ConsumerInv /\ [Next]_vars => [Delivery!Next]_Delivery!vars
  BY StepDelivers
<1>. QED BY <1>1, <1>2, AlwaysConsumerInv, PTL
         DEF Spec, DeliversAtLeastOnce, Delivery!Spec

=============================================================================
