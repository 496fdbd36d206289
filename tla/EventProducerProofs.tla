------------------------- MODULE EventProducerProofs -------------------------
(***************************************************************************)
(* Theorems about EventProducer, for every number of producers of both     *)
(* runtimes, of calls and of schema versions and every queue size.         *)
(***************************************************************************)
EXTENDS EventProducer, SequenceTheorems, TLAPS

-----------------------------------------------------------------------------
(***************************************************************************)
(* Sets of sequences.                                                      *)
(***************************************************************************)
LEMMA AppendSet ==
    ASSUME NEW S, NEW s \in Seq(S), NEW e \in S
    PROVE  /\ Append(s, e) \in Seq(S)
           /\ Len(Append(s, e)) = Len(s) + 1
           /\ Append(s, e)[Len(s) + 1] = e
           /\ \A i \in 1..Len(s) : Append(s, e)[i] = s[i]
           /\ ToSet(Append(s, e)) = ToSet(s) \cup {e}
<1>1. /\ Append(s, e) \in Seq(S)
      /\ Len(Append(s, e)) = Len(s) + 1
      /\ Append(s, e)[Len(s) + 1] = e
      /\ \A i \in 1..Len(s) : Append(s, e)[i] = s[i]
  OBVIOUS
<1>2. ToSet(Append(s, e)) = ToSet(s) \cup {e}
  BY <1>1 DEF ToSet
<1>. QED BY <1>1, <1>2

LEMMA TailSet ==
    ASSUME NEW S, NEW s \in Seq(S), s # << >>
    PROVE  /\ Tail(s) \in Seq(S) /\ Len(Tail(s)) = Len(s) - 1
           /\ Head(s) \in S /\ Head(s) = s[1] /\ Len(s) > 0
           /\ \A i \in 1..(Len(s) - 1) : Tail(s)[i] = s[i + 1]
           /\ ToSet(s) = {Head(s)} \cup ToSet(Tail(s))
<1>1. /\ Tail(s) \in Seq(S) /\ Len(Tail(s)) = Len(s) - 1
      /\ Head(s) \in S /\ Head(s) = s[1] /\ Len(s) > 0
      /\ \A i \in 1..(Len(s) - 1) : Tail(s)[i] = s[i + 1]
  BY HeadTailProperties
<1>2. ASSUME NEW i \in 1..Len(s), i # 1
      PROVE  s[i] \in ToSet(Tail(s))
  <2>1. i - 1 \in 1..(Len(s) - 1) /\ (i - 1) + 1 = i
    BY <1>2
  <2>2. Tail(s)[i - 1] = s[i]
    BY <1>1, <2>1
  <2>3. DOMAIN Tail(s) = 1..(Len(s) - 1)
    BY <1>1
  <2>. QED BY <2>1, <2>2, <2>3 DEF ToSet
<1>3. \A i \in 1..(Len(s) - 1) : s[i + 1] \in ToSet(s)
  BY <1>1 DEF ToSet
<1>4. ToSet(Tail(s)) \subseteq ToSet(s)
  BY <1>1, <1>3 DEF ToSet
<1>5. s[1] \in ToSet(s)
  BY <1>1 DEF ToSet
<1>6. ToSet(s) \subseteq {Head(s)} \cup ToSet(Tail(s))
  BY <1>1, <1>2 DEF ToSet
<1>. QED BY <1>1, <1>4, <1>5, <1>6

LEMMA AppendIsInjective ==
    ASSUME NEW S, NEW s \in Seq(S), IsInjective(s), NEW e \in S, e \notin ToSet(s)
    PROVE  IsInjective(Append(s, e))
<1> DEFINE t == Append(s, e)
<1>1. /\ t \in Seq(S) /\ DOMAIN t = 1..(Len(s) + 1) /\ Len(s) \in Nat
      /\ t[Len(s) + 1] = e
      /\ \A i \in 1..Len(s) : t[i] = s[i] /\ s[i] # e
  BY AppendSet DEF ToSet
<1>2. ASSUME NEW i \in DOMAIN t, NEW j \in DOMAIN t, t[i] = t[j]
      PROVE  i = j
  <2>1. CASE i \in 1..Len(s) /\ j \in 1..Len(s)
    BY <1>1, <1>2, <2>1 DEF IsInjective
  <2>2. CASE i = Len(s) + 1 \/ j = Len(s) + 1
    BY <1>1, <1>2, <2>2
  <2>. QED BY <1>1, <2>1, <2>2
<1>. QED BY <1>2 DEF IsInjective

LEMMA TailIsInjective ==
    ASSUME NEW S, NEW s \in Seq(S), IsInjective(s), s # << >>
    PROVE  IsInjective(Tail(s)) /\ Head(s) \notin ToSet(Tail(s))
<1> DEFINE t == Tail(s)
<1>1. /\ DOMAIN t = 1..(Len(s) - 1) /\ DOMAIN s = 1..Len(s) /\ Len(s) \in Nat \ {0}
      /\ \A i \in 1..(Len(s) - 1) : t[i] = s[i + 1]
      /\ Head(s) = s[1]
  BY TailSet
<1>2. ASSUME NEW i \in DOMAIN t, NEW j \in DOMAIN t, t[i] = t[j]
      PROVE  i = j
  <2>1. i + 1 \in DOMAIN s /\ j + 1 \in DOMAIN s /\ s[i + 1] = s[j + 1]
    BY <1>1, <1>2
  <2>2. i + 1 = j + 1
    BY <2>1 DEF IsInjective
  <2>. QED BY <1>1, <2>2
<1>3. ASSUME NEW i \in DOMAIN t
      PROVE  t[i] # s[1]
  <2>1. i + 1 \in DOMAIN s /\ 1 \in DOMAIN s /\ i + 1 # 1 /\ t[i] = s[i + 1]
    BY <1>1
  <2>. QED BY <2>1 DEF IsInjective
<1>. QED BY <1>1, <1>2, <1>3 DEF IsInjective, ToSet

LEMMA EmptySet == ToSet(<< >>) = {} /\ \A S : << >> \in Seq(S) /\ Len(<< >>) = 0
BY DEF ToSet

LEMMA LatestIsRegistered ==
    ASSUME registered \in Seq(Versions), registered # << >>
    PROVE  Latest \in Versions /\ Latest \in ToSet(registered)
<1>1. Len(registered) \in 1..Len(registered)
  BY EmptySeq
<1>. QED BY <1>1, ElementOfSeq DEF Latest, Last, ToSet

LEMMA RegisteredAreVersions ==
    ASSUME registered \in Seq(Versions)
    PROVE  ToSet(registered) \subseteq Versions
BY ElementOfSeq DEF ToSet

-----------------------------------------------------------------------------
(***************************************************************************)
(* The invariant is inductive: its parts one by one.                       *)
(***************************************************************************)
LEMMA InitProducerInv == Init => ProducerInv
<1> SUFFICES ASSUME Init PROVE ProducerInv
  OBVIOUS
<1> USE ProducerAssumption, EmptySet DEF Init, Producers
<1>1. TypeOK
  BY DEF TypeOK, Statuses, IsInjective
<1>2. Published = {}
  BY DEF Published
<1>3. CallsHaveArguments /\ MessagesHaveCalls /\ FlushingWasQueued
  BY <1>2 DEF CallsHaveArguments, MessagesHaveCalls, FlushingWasQueued
<1>4. ValidatorsAreRegistered /\ QueuesFollowReturns
  BY <1>2 DEF ValidatorsAreRegistered, QueuesFollowReturns, Validated, Conforms
<1>5. ReturnedIsAccountedFor /\ OrderFollowsReturns
  BY <1>2 DEF ReturnedIsAccountedFor, OrderFollowsReturns
<1>. QED BY <1>1, <1>3, <1>4, <1>5 DEF ProducerInv

LEMMA NextTypeOK == ProducerInv /\ [Next]_vars => TypeOK'
<1> SUFFICES ASSUME ProducerInv, [Next]_vars PROVE TypeOK'
  OBVIOUS
<1> USE ProducerAssumption DEF ProducerInv, CallsOf, Become, Producers,
        cacheVars, callVars, clientVars, brokerVars
<1>1. ASSUME NEW v \in Versions, Register(v)
      PROVE  TypeOK'
  <2>1. /\ Append(registered, v) \in Seq(Versions)
        /\ Len(Append(registered, v)) = Len(registered) + 1
        /\ Append(registered, v)[Len(registered) + 1] = v
        /\ \A i \in 1..Len(registered) : Append(registered, v)[i] = registered[i]
    BY AppendSet DEF TypeOK
  <2>3. IsInjective(registered')
    BY <1>1, AppendIsInjective DEF Register, TypeOK
  <2>. QED BY <1>1, <2>1, <2>3 DEF Register, TypeOK
<1>2. ASSUME NEW p \in Python, NEW c \in Calls, NEW pay \in Payloads,
             NEW fl \in BOOLEAN, Produce(c, p, pay, fl)
      PROVE  TypeOK'
  <2>1. /\ \A d \in Calls : by'[d] \in Producers \cup {None}
        /\ by' = [by EXCEPT ![c] = p] /\ payload' = [payload EXCEPT ![c] = pay]
        /\ flush' = [flush EXCEPT ![c] = fl]
        /\ before' \in [Calls -> SUBSET Calls]
    BY <1>2 DEF Produce, Begin, TypeOK
  <2>2. PICK v \in Versions \cup {None} : cache' = [cache EXCEPT ![p] = v]
    <3>1. registered # << >> => Latest \in Versions
      BY LatestIsRegistered DEF TypeOK
    <3>. QED BY <1>2, <3>1 DEF Produce, Validators, TypeOK
  <2>3. \/ queue' = queue /\ status' = [status EXCEPT ![c] = "raised"]
        \/ /\ queue' = [queue EXCEPT ![p] = Append(@, c)] /\ Len(queue[p]) < QueueSize
           /\ \E s \in {"flushing", "returned"} : status' = [status EXCEPT ![c] = s]
    BY <1>2 DEF Produce, QueueMessage
  <2>4. /\ queue' \in [Producers -> Seq(Calls)] /\ status' \in [Calls -> Statuses]
        /\ \A q \in Producers : Len(queue'[q]) <= QueueSize
    <3>1. Append(queue[p], c) \in Seq(Calls) /\ Len(Append(queue[p], c)) = Len(queue[p]) + 1
      BY AppendSet DEF TypeOK
    <3>2. CASE queue' = queue /\ status' = [status EXCEPT ![c] = "raised"]
      BY <3>2 DEF TypeOK, Statuses
    <3>3. ASSUME queue' = [queue EXCEPT ![p] = Append(@, c)], Len(queue[p]) < QueueSize,
                 NEW s \in {"flushing", "returned"}, status' = [status EXCEPT ![c] = s]
          PROVE  /\ queue' \in [Producers -> Seq(Calls)] /\ status' \in [Calls -> Statuses]
                 /\ \A q \in Producers : Len(queue'[q]) <= QueueSize
      <4>1. /\ queue' \in [Producers -> Seq(Calls)]
            /\ \A q \in Producers : Len(queue'[q]) <= QueueSize
        BY <3>1, <3>3 DEF TypeOK
      <4>2. status' \in [Calls -> Statuses]
        BY <3>3 DEF TypeOK, Statuses
      <4>. QED BY <4>1, <4>2
    <3>. QED BY <2>3, <3>2, <3>3
  <2>. QED BY <1>2, <2>1, <2>2, <2>4 DEF Produce, TypeOK
<1>3. ASSUME NEW p \in Python, NEW c \in CallsOf(p), FlushReturns(c)
      PROVE  TypeOK'
  BY <1>3
     DEF TypeOK, Statuses, FlushReturns
<1>4. ASSUME NEW p \in Python, Deliver(p)
      PROVE  TypeOK'
  <2>1. /\ Append(log, Head(queue[p])) \in Seq(Calls)
        /\ Tail(queue[p]) \in Seq(Calls) /\ Len(Tail(queue[p])) <= QueueSize
    BY <1>4, TailSet, AppendSet DEF Deliver, TypeOK
  <2>. QED BY <1>4, <2>1 DEF Deliver, TypeOK
<1>5. ASSUME NEW p \in Python, GiveUp(p)
      PROVE  TypeOK'
  <2>1. /\ Head(queue[p]) \in Calls
        /\ Tail(queue[p]) \in Seq(Calls) /\ Len(Tail(queue[p])) <= QueueSize
    BY <1>5, TailSet DEF GiveUp, TypeOK
  <2>. QED BY <1>5, <2>1 DEF GiveUp, TypeOK
<1>6. ASSUME NEW p \in Python, Exit(p)
      PROVE  TypeOK'
  BY <1>6
     DEF TypeOK, Statuses, Exit
<1>7. ASSUME NEW p \in TypeScript, NEW c \in Calls, NEW pay \in Payloads, StartProduce(c, p, pay)
      PROVE  TypeOK'
  BY <1>7
     DEF TypeOK, Statuses, StartProduce, Begin, Validate
<1>8. ASSUME NEW p \in TypeScript, NEW c \in CallsOf(p), FetchAnswered(c)
      PROVE  TypeOK'
  <2>1. Latest \in Versions
    BY <1>8, LatestIsRegistered DEF FetchAnswered, TypeOK
  <2>. QED BY <1>8, <2>1 DEF FetchAnswered, TypeOK, Statuses
<1>9. ASSUME NEW p \in TypeScript, NEW c \in CallsOf(p), FetchFails(c)
      PROVE  TypeOK'
  BY <1>9
     DEF TypeOK, Statuses, FetchFails
<1>10. ASSUME NEW p \in TypeScript, NEW c \in CallsOf(p), Compile(c)
      PROVE  TypeOK'
  <2>1. fetched[c] \in Versions
    BY <1>10, RegisteredAreVersions DEF Compile, ValidatorsAreRegistered, TypeOK
  <2>2. \E s \in {"ready", "raised"} : status' = [status EXCEPT ![c] = s]
    BY <1>10 DEF Compile, Validate
  <2>3. /\ cache' \in [Producers -> Versions \cup {None}]
        /\ compiled' \in [Producers -> SUBSET Versions]
    <3>1. \/ cache' = cache /\ compiled' = compiled
          \/ /\ compiled' = [compiled EXCEPT ![p] = @ \cup {fetched[c]}]
             /\ cache' = [cache EXCEPT ![p] = fetched[c]]
      BY <1>10 DEF Compile
    <3>2. /\ cache \in [Producers -> Versions \cup {None}]
          /\ compiled \in [Producers -> SUBSET Versions]
      BY DEF TypeOK
    <3>3. ASSUME compiled' = [compiled EXCEPT ![p] = @ \cup {fetched[c]}]
          PROVE  compiled' \in [Producers -> SUBSET Versions]
      BY <2>1, <3>2, <3>3
    <3>4. ASSUME cache' = [cache EXCEPT ![p] = fetched[c]]
          PROVE  cache' \in [Producers -> Versions \cup {None}]
      BY <2>1, <3>2, <3>4
    <3>. QED BY <3>1, <3>2, <3>3, <3>4
  <2>. QED BY <1>10, <2>2, <2>3 DEF Compile, TypeOK, Statuses
<1>11. ASSUME NEW p \in TypeScript, NEW c \in CallsOf(p), Connect(c)
      PROVE  TypeOK'
  BY <1>11
     DEF TypeOK, Statuses, Connect
<1>12. ASSUME NEW p \in TypeScript, NEW c \in CallsOf(p), Connected(c)
      PROVE  TypeOK'
  BY <1>12
     DEF TypeOK, Statuses, Connected
<1>13. ASSUME NEW p \in TypeScript, NEW c \in CallsOf(p), ConnectFails(c)
      PROVE  TypeOK'
  BY <1>13
     DEF TypeOK, Statuses, ConnectFails
<1>14. ASSUME NEW p \in TypeScript, NEW c \in CallsOf(p), Send(c)
      PROVE  TypeOK'
  <2>1. \E s \in {"sending", "raised"} : status' = [status EXCEPT ![c] = s]
    BY <1>14 DEF Send
  <2>2. sent' \subseteq Calls
    BY <1>14 DEF Send, TypeOK
  <2>. QED BY <1>14, <2>1, <2>2 DEF Send, TypeOK, Statuses
<1>15. ASSUME NEW p \in TypeScript, NEW c \in CallsOf(p), BrokerAppends(c)
      PROVE  TypeOK'
  <2>1. Append(log, c) \in Seq(Calls)
    BY AppendSet DEF TypeOK
  <2>. QED BY <1>15, <2>1 DEF BrokerAppends, TypeOK
<1>16. ASSUME NEW p \in TypeScript, NEW c \in CallsOf(p), SendResolves(c)
      PROVE  TypeOK'
  BY <1>16
     DEF TypeOK, Statuses, SendResolves
<1>17. ASSUME NEW p \in TypeScript, NEW c \in CallsOf(p), SendRejects(c)
      PROVE  TypeOK'
  BY <1>17
     DEF TypeOK, Statuses, SendRejects
<1>18. ASSUME NEW p \in TypeScript, Close(p)
      PROVE  TypeOK'
  BY <1>18
     DEF TypeOK, Statuses, Close
<1>19. ASSUME NEW p \in TypeScript, Disconnected(p)
      PROVE  TypeOK'
  BY <1>19
     DEF TypeOK, Statuses, Disconnected
<1>20. ASSUME NEW p \in Producers, Crash(p)
      PROVE  TypeOK'
  <2>1. << >> \in Seq(Calls) /\ Len(<< >>) = 0
    OBVIOUS
  <2>2. status' \in [Calls -> Statuses]
    BY <1>20 DEF Crash, TypeOK, Statuses
  <2>. QED BY <1>20, <2>1, <2>2 DEF Crash, TypeOK
<1>21. CASE UNCHANGED vars
  BY <1>21
     DEF TypeOK, Statuses, vars
<1>. QED
  BY <1>1, <1>2, <1>3, <1>4, <1>5, <1>6, <1>7, <1>8, <1>9, <1>10,
     <1>11, <1>12, <1>13, <1>14, <1>15, <1>16, <1>17, <1>18, <1>19, <1>20, <1>21
     DEF Next, PythonStep, TypeScriptStep

\* What a step does to the messages: how each action moves them.
LEMMA DeliverMoves ==
    ASSUME TypeOK, NEW p \in Python, Deliver(p)
    PROVE  \E c \in Calls :
              /\ c = queue[p][1] /\ c \in ToSet(queue[p])
              /\ log' = Append(log, c)
              /\ Published' = Published \cup {c}
              /\ \A q \in Producers \ {p} : queue'[q] = queue[q]
              /\ ToSet(queue[p]) = {c} \cup ToSet(queue'[p])
              /\ \A i \in DOMAIN queue'[p] :
                    /\ i \in Nat /\ i + 1 \in DOMAIN queue[p] /\ ~(i + 1 < 1)
                    /\ queue'[p][i] = queue[p][i + 1]
              /\ 1 \in DOMAIN queue[p]
<1>1. queue[p] \in Seq(Calls) /\ queue[p] # << >> /\ log \in Seq(Calls)
  BY DEF TypeOK, Deliver, Producers
<1>2. /\ Head(queue[p]) \in Calls /\ Head(queue[p]) = queue[p][1]
      /\ Len(Tail(queue[p])) = Len(queue[p]) - 1 /\ Len(queue[p]) > 0
      /\ Tail(queue[p]) \in Seq(Calls)
      /\ ToSet(queue[p]) = {Head(queue[p])} \cup ToSet(Tail(queue[p]))
      /\ \A i \in 1..(Len(queue[p]) - 1) : Tail(queue[p])[i] = queue[p][i + 1]
  BY <1>1, TailSet
<1>3. ToSet(Append(log, Head(queue[p]))) = ToSet(log) \cup {Head(queue[p])}
  BY <1>1, <1>2, AppendSet
<1>4. /\ DOMAIN Tail(queue[p]) = 1..(Len(queue[p]) - 1)
      /\ DOMAIN queue[p] = 1..Len(queue[p])
  BY <1>1, <1>2
<1>5. \A i \in DOMAIN Tail(queue[p]) :
        /\ i \in Nat /\ i + 1 \in DOMAIN queue[p] /\ ~(i + 1 < 1)
        /\ Tail(queue[p])[i] = queue[p][i + 1]
  BY <1>2, <1>4
<1>6. 1 \in DOMAIN queue[p]
  BY <1>2, <1>4
<1>7. /\ log' = Append(log, Head(queue[p])) /\ queue'[p] = Tail(queue[p])
      /\ \A q \in Producers \ {p} : queue'[q] = queue[q]
  BY DEF Deliver, TypeOK, Producers
<1>8. Head(queue[p]) \in ToSet(queue[p])
  BY <1>2
<1>. QED BY <1>2, <1>3, <1>5, <1>6, <1>7, <1>8 DEF Published

LEMMA GiveUpMoves ==
    ASSUME TypeOK, NEW p \in Python, GiveUp(p)
    PROVE  \E c \in Calls :
              /\ c = queue[p][1] /\ c \in ToSet(queue[p])
              /\ given_up' = given_up \cup {c}
              /\ \A q \in Producers \ {p} : queue'[q] = queue[q]
              /\ ToSet(queue[p]) = {c} \cup ToSet(queue'[p])
              /\ \A i \in DOMAIN queue'[p] :
                    /\ i \in Nat /\ i + 1 \in DOMAIN queue[p]
                    /\ queue'[p][i] = queue[p][i + 1]
<1>1. queue[p] \in Seq(Calls) /\ queue[p] # << >>
  BY DEF TypeOK, GiveUp, Producers
<1>2. /\ Head(queue[p]) \in Calls /\ Head(queue[p]) = queue[p][1]
      /\ Len(Tail(queue[p])) = Len(queue[p]) - 1 /\ Len(queue[p]) > 0
      /\ Tail(queue[p]) \in Seq(Calls)
      /\ ToSet(queue[p]) = {Head(queue[p])} \cup ToSet(Tail(queue[p]))
      /\ \A i \in 1..(Len(queue[p]) - 1) : Tail(queue[p])[i] = queue[p][i + 1]
  BY <1>1, TailSet
<1>3. /\ DOMAIN Tail(queue[p]) = 1..(Len(queue[p]) - 1)
      /\ DOMAIN queue[p] = 1..Len(queue[p])
  BY <1>1, <1>2
<1>4. \A i \in DOMAIN Tail(queue[p]) :
        /\ i \in Nat /\ i + 1 \in DOMAIN queue[p]
        /\ Tail(queue[p])[i] = queue[p][i + 1]
  BY <1>2, <1>3
<1>5. /\ given_up' = given_up \cup {Head(queue[p])} /\ queue'[p] = Tail(queue[p])
      /\ \A q \in Producers \ {p} : queue'[q] = queue[q]
  BY DEF GiveUp, TypeOK, Producers
<1>6. Head(queue[p]) \in ToSet(queue[p])
  BY <1>2
<1>. QED BY <1>2, <1>4, <1>5, <1>6

LEMMA AppendMoves ==
    ASSUME TypeOK, NEW c \in Calls, BrokerAppends(c)
    PROVE  Published' = Published \cup {c}
BY AppendSet DEF TypeOK, BrokerAppends, Published

\* A call that produces in Python ends as "raised" and leaves the queue alone, or
\* puts its message last.
LEMMA ProduceMoves ==
    ASSUME TypeOK, NEW p \in Python, NEW c \in Calls, NEW pay \in Payloads,
           NEW fl \in BOOLEAN, Produce(c, p, pay, fl)
    PROVE  \/ queue' = queue /\ status' = [status EXCEPT ![c] = "raised"]
           \/ /\ \E s \in {"flushing", "returned"} : status' = [status EXCEPT ![c] = s]
              /\ queue' = [queue EXCEPT ![p] = Append(queue[p], c)]
              /\ ToSet(queue'[p]) = ToSet(queue[p]) \cup {c}
              /\ Len(queue[p]) \in Nat /\ DOMAIN queue[p] = 1..Len(queue[p])
              /\ DOMAIN queue'[p] = 1..(Len(queue[p]) + 1)
              /\ queue'[p][Len(queue[p]) + 1] = c
              /\ \A i \in 1..Len(queue[p]) : queue'[p][i] = queue[p][i]
<1>1. /\ queue[p] \in Seq(Calls) /\ queue \in [Producers -> Seq(Calls)] /\ p \in Producers
  BY DEF TypeOK, Producers
<1>2. /\ ToSet(Append(queue[p], c)) = ToSet(queue[p]) \cup {c}
      /\ Append(queue[p], c) \in Seq(Calls)
      /\ Len(Append(queue[p], c)) = Len(queue[p]) + 1
      /\ Append(queue[p], c)[Len(queue[p]) + 1] = c
      /\ \A i \in 1..Len(queue[p]) : Append(queue[p], c)[i] = queue[p][i]
  BY <1>1, AppendSet
<1>3. \/ queue' = queue /\ status' = [status EXCEPT ![c] = "raised"]
      \/ /\ \E s \in {"flushing", "returned"} : status' = [status EXCEPT ![c] = s]
         /\ queue' = [queue EXCEPT ![p] = Append(queue[p], c)]
  BY DEF Produce, QueueMessage, Become
<1>4. CASE queue' = [queue EXCEPT ![p] = Append(queue[p], c)]
  <2>1. queue'[p] = Append(queue[p], c)
    BY <1>1, <1>4
  <2>2. /\ Len(queue[p]) \in Nat /\ DOMAIN queue[p] = 1..Len(queue[p])
        /\ DOMAIN Append(queue[p], c) = 1..(Len(queue[p]) + 1)
    BY <1>1, <1>2
  <2>. QED BY <1>2, <1>3, <1>4, <2>1, <2>2
<1>. QED BY <1>3, <1>4

LEMMA ProduceEffect ==
    ASSUME TypeOK, NEW p \in Python, NEW c \in Calls, NEW pay \in Payloads,
           NEW fl \in BOOLEAN, Produce(c, p, pay, fl)
    PROVE  /\ \A d \in Calls \ {c} : status'[d] = status[d]
           /\ \A q \in Producers \ {p} : queue'[q] = queue[q]
           /\ \/ queue'[p] = queue[p] /\ status'[c] = "raised"
              \/ /\ status'[c] \in {"flushing", "returned"}
                 /\ ToSet(queue'[p]) = ToSet(queue[p]) \cup {c}
<1>1. queue \in [Producers -> Seq(Calls)] /\ status \in [Calls -> Statuses]
  BY DEF TypeOK
<1>0. queue'[p] = Append(queue[p], c) => ToSet(queue'[p]) = ToSet(queue[p]) \cup {c}
  BY <1>1, AppendSet DEF Producers
<1>2. CASE queue' = queue /\ status' = [status EXCEPT ![c] = "raised"]
  <2>1. \A d \in Calls \ {c} : status'[d] = status[d]
    BY <1>1, <1>2
  <2>2. status'[c] = "raised"
    BY <1>1, <1>2
  <2>. QED BY <1>2, <2>1, <2>2
<1>3. ASSUME NEW s \in {"flushing", "returned"}, status' = [status EXCEPT ![c] = s],
             queue' = [queue EXCEPT ![p] = Append(queue[p], c)]
      PROVE  /\ \A d \in Calls \ {c} : status'[d] = status[d]
             /\ \A q \in Producers \ {p} : queue'[q] = queue[q]
             /\ status'[c] \in {"flushing", "returned"}
             /\ ToSet(queue'[p]) = ToSet(queue[p]) \cup {c}
  <2>1. \A d \in Calls \ {c} : status'[d] = status[d]
    BY <1>1, <1>3
  <2>2. status'[c] = s
    BY <1>1, <1>3
  <2>3. \A q \in Producers \ {p} : queue'[q] = queue[q]
    BY <1>1, <1>3
  <2>4. queue'[p] = Append(queue[p], c)
    BY <1>1, <1>3 DEF Producers
  <2>. QED BY <2>1, <2>2, <2>3, <2>4, <1>0
<1>4. \/ queue' = queue /\ status' = [status EXCEPT ![c] = "raised"]
      \/ /\ \E s \in {"flushing", "returned"} : status' = [status EXCEPT ![c] = s]
         /\ queue' = [queue EXCEPT ![p] = Append(queue[p], c)]
  BY DEF Produce, QueueMessage, Become
<1>. QED BY <1>2, <1>3, <1>4

LEMMA LogAndQueuesHoldCalls ==
    ASSUME TypeOK
    PROVE  /\ Published \subseteq Calls
           /\ \A q \in Producers : ToSet(queue[q]) \subseteq Calls
<1>1. \A s \in Seq(Calls) : ToSet(s) \subseteq Calls
  BY ElementOfSeq DEF ToSet
<1>. QED BY <1>1 DEF TypeOK, Published

LEMMA CrashMoves ==
    ASSUME TypeOK, NEW p \in Producers, Crash(p)
    PROVE  /\ \A c \in Calls : \/ status'[c] = status[c]
                            \/ /\ by[c] = p /\ status'[c] = "gone"
                               /\ status[c] \notin {"idle", "returned", "raised", "failed", "gone"}
           /\ \A c \in Calls : by[c] = p =>
                 status'[c] \in {"idle", "returned", "raised", "failed", "gone"}
           /\ queue'[p] = << >> /\ ToSet(queue'[p]) = {} /\ DOMAIN queue'[p] = {}
           /\ \A q \in Producers \ {p} : queue'[q] = queue[q]
<1>1. queue' = [queue EXCEPT ![p] = << >>] /\ queue \in [Producers -> Seq(Calls)]
  BY DEF Crash, TypeOK
<1>2. queue'[p] = << >>
  BY <1>1
<1>3. ToSet(queue'[p]) = {} /\ DOMAIN queue'[p] = {}
  BY <1>2, EmptySet
<1>4. \A q \in Producers \ {p} : queue'[q] = queue[q]
  BY <1>1
<1>5. \A c \in Calls :
        status'[c] = IF by[c] = p /\ status[c] \notin {"idle", "returned", "raised", "failed", "gone"}
                     THEN "gone" ELSE status[c]
  BY DEF Crash, Active, Ended
<1>. QED BY <1>2, <1>3, <1>4, <1>5

\* A call that has not begun, or not sent, has no message anywhere.
LEMMA NoMessageYet ==
    ASSUME ProducerInv, NEW c \in Calls,
           status[c] \in {"idle", "fetching", "compiling", "ready", "connecting",
                          "connected", "raised"}
    PROVE  /\ c \notin sent /\ c \notin Published
           /\ \A q \in Producers : c \notin ToSet(queue[q])
BY DEF ProducerInv, MessagesHaveCalls

LEMMA NextCallsHaveArguments == ProducerInv /\ [Next]_vars => CallsHaveArguments'
<1> SUFFICES ASSUME ProducerInv, [Next]_vars PROVE CallsHaveArguments'
  OBVIOUS
<1> USE ProducerAssumption DEF ProducerInv, CallsOf, Become, Producers,
        cacheVars, callVars, clientVars, brokerVars
<1>1. ASSUME NEW v \in Versions, Register(v)
      PROVE  CallsHaveArguments'
  BY <1>1
     DEF CallsHaveArguments, TypeOK, Register
<1>2. ASSUME NEW p \in Python, NEW c \in Calls, NEW pay \in Payloads,
             NEW fl \in BOOLEAN, Produce(c, p, pay, fl)
      PROVE  CallsHaveArguments'
  <2>1. \E s \in Statuses : status' = [status EXCEPT ![c] = s]
    BY <1>2, ProduceMoves DEF Statuses
  <2>. QED BY <1>2, <2>1 DEF Produce, Begin, CallsHaveArguments, TypeOK
<1>3. ASSUME NEW p \in Python, NEW c \in CallsOf(p), FlushReturns(c)
      PROVE  CallsHaveArguments'
  BY <1>3
     DEF CallsHaveArguments, TypeOK, FlushReturns
<1>4. ASSUME NEW p \in Python, Deliver(p)
      PROVE  CallsHaveArguments'
  BY <1>4
     DEF CallsHaveArguments, TypeOK, Deliver
<1>5. ASSUME NEW p \in Python, GiveUp(p)
      PROVE  CallsHaveArguments'
  BY <1>5
     DEF CallsHaveArguments, TypeOK, GiveUp
<1>6. ASSUME NEW p \in Python, Exit(p)
      PROVE  CallsHaveArguments'
  BY <1>6
     DEF CallsHaveArguments, TypeOK, Exit
<1>7. ASSUME NEW p \in TypeScript, NEW c \in Calls, NEW pay \in Payloads, StartProduce(c, p, pay)
      PROVE  CallsHaveArguments'
  BY <1>7
     DEF CallsHaveArguments, TypeOK, StartProduce, Begin, Validate
<1>8. ASSUME NEW p \in TypeScript, NEW c \in CallsOf(p), FetchAnswered(c)
      PROVE  CallsHaveArguments'
  BY <1>8
     DEF CallsHaveArguments, TypeOK, FetchAnswered
<1>9. ASSUME NEW p \in TypeScript, NEW c \in CallsOf(p), FetchFails(c)
      PROVE  CallsHaveArguments'
  BY <1>9
     DEF CallsHaveArguments, TypeOK, FetchFails
<1>10. ASSUME NEW p \in TypeScript, NEW c \in CallsOf(p), Compile(c)
      PROVE  CallsHaveArguments'
  <2>1. \E s \in Statuses : status' = [status EXCEPT ![c] = s]
    BY <1>10 DEF Compile, Validate, Statuses
  <2>. QED BY <1>10, <2>1 DEF Compile, CallsHaveArguments, TypeOK
<1>11. ASSUME NEW p \in TypeScript, NEW c \in CallsOf(p), Connect(c)
      PROVE  CallsHaveArguments'
  BY <1>11
     DEF CallsHaveArguments, TypeOK, Connect
<1>12. ASSUME NEW p \in TypeScript, NEW c \in CallsOf(p), Connected(c)
      PROVE  CallsHaveArguments'
  BY <1>12
     DEF CallsHaveArguments, TypeOK, Connected
<1>13. ASSUME NEW p \in TypeScript, NEW c \in CallsOf(p), ConnectFails(c)
      PROVE  CallsHaveArguments'
  BY <1>13
     DEF CallsHaveArguments, TypeOK, ConnectFails
<1>14. ASSUME NEW p \in TypeScript, NEW c \in CallsOf(p), Send(c)
      PROVE  CallsHaveArguments'
  <2>1. status[c] # "idle" /\ \E s \in Statuses : status' = [status EXCEPT ![c] = s]
    BY <1>14 DEF Send, Statuses
  <2>. QED BY <1>14, <2>1 DEF Send, CallsHaveArguments, TypeOK
<1>15. ASSUME NEW p \in TypeScript, NEW c \in CallsOf(p), BrokerAppends(c)
      PROVE  CallsHaveArguments'
  BY <1>15
     DEF CallsHaveArguments, TypeOK, BrokerAppends
<1>16. ASSUME NEW p \in TypeScript, NEW c \in CallsOf(p), SendResolves(c)
      PROVE  CallsHaveArguments'
  BY <1>16
     DEF CallsHaveArguments, TypeOK, SendResolves
<1>17. ASSUME NEW p \in TypeScript, NEW c \in CallsOf(p), SendRejects(c)
      PROVE  CallsHaveArguments'
  BY <1>17
     DEF CallsHaveArguments, TypeOK, SendRejects
<1>18. ASSUME NEW p \in TypeScript, Close(p)
      PROVE  CallsHaveArguments'
  BY <1>18
     DEF CallsHaveArguments, TypeOK, Close
<1>19. ASSUME NEW p \in TypeScript, Disconnected(p)
      PROVE  CallsHaveArguments'
  BY <1>19
     DEF CallsHaveArguments, TypeOK, Disconnected
<1>20. ASSUME NEW p \in Producers, Crash(p)
      PROVE  CallsHaveArguments'
  BY <1>20, CrashMoves DEF Crash, CallsHaveArguments
<1>21. CASE UNCHANGED vars
  BY <1>21
     DEF CallsHaveArguments, TypeOK, vars
<1>. QED
  BY <1>1, <1>2, <1>3, <1>4, <1>5, <1>6, <1>7, <1>8, <1>9, <1>10,
     <1>11, <1>12, <1>13, <1>14, <1>15, <1>16, <1>17, <1>18, <1>19, <1>20, <1>21
     DEF Next, PythonStep, TypeScriptStep

LEMMA NextMessagesHaveCalls == ProducerInv /\ [Next]_vars => MessagesHaveCalls'
<1> SUFFICES ASSUME ProducerInv, [Next]_vars PROVE MessagesHaveCalls'
  OBVIOUS
<1> USE ProducerAssumption DEF ProducerInv, CallsOf, Become, Producers,
        cacheVars, callVars, clientVars, brokerVars
<1>1. ASSUME NEW v \in Versions, Register(v)
      PROVE  MessagesHaveCalls'
  BY <1>1
     DEF MessagesHaveCalls, Published, TypeOK, Register
<1>2. ASSUME NEW p \in Python, NEW c \in Calls, NEW pay \in Payloads,
             NEW fl \in BOOLEAN, Produce(c, p, pay, fl)
      PROVE  MessagesHaveCalls'
  <2>1. /\ status[c] = "idle" /\ sent' = sent /\ by'[c] = p
        /\ \A d \in Calls \ {c} : by'[d] = by[d]
    BY <1>2 DEF Produce, Begin, TypeOK
  <2>2. /\ Published' = Published /\ Published \subseteq Calls /\ sent \subseteq Calls
        /\ \A q \in Producers : ToSet(queue[q]) \subseteq Calls
    BY <2>1, <1>2, LogAndQueuesHoldCalls DEF Produce, Published, TypeOK
  <2>3. /\ c \notin sent /\ c \notin Published
        /\ \A q \in Producers : c \notin ToSet(queue[q])
    BY <2>1, NoMessageYet
  <2>4. /\ \A d \in Calls \ {c} : status'[d] = status[d]
        /\ \A q \in Producers \ {p} : queue'[q] = queue[q]
        /\ \/ queue'[p] = queue[p]
           \/ ToSet(queue'[p]) = ToSet(queue[p]) \cup {c} /\ status'[c] \in {"flushing", "returned"}
    BY <1>2, ProduceEffect
  <2>7. \A d \in sent' : status'[d] \in {"sending", "failed", "gone"} /\ d \notin Published'
    BY <2>1, <2>2, <2>3, <2>4 DEF MessagesHaveCalls
  <2>8. \A d \in Published' :
          status'[d] \in {"sending", "flushing", "returned", "failed", "gone"}
    BY <2>1, <2>2, <2>3, <2>4 DEF MessagesHaveCalls
  <2>9. \A q \in Producers : \A d \in ToSet(queue'[q]) :
          by'[d] = q /\ status'[d] \in {"flushing", "returned"}
    BY <2>1, <2>2, <2>3, <2>4 DEF MessagesHaveCalls
  <2>. QED BY <2>7, <2>8, <2>9 DEF MessagesHaveCalls
<1>3. ASSUME NEW p \in Python, NEW c \in CallsOf(p), FlushReturns(c)
      PROVE  MessagesHaveCalls'
  BY <1>3
     DEF MessagesHaveCalls, Published, TypeOK, FlushReturns
<1>4. ASSUME NEW p \in Python, Deliver(p)
      PROVE  MessagesHaveCalls'
  <2>1. by' = by /\ sent' = sent /\ status' = status
    BY <1>4 DEF Deliver
  <2>2. PICK c \in Calls : /\ c \in ToSet(queue[p])
                           /\ Published' = Published \cup {c}
                           /\ ToSet(queue'[p]) \subseteq ToSet(queue[p])
                           /\ \A q \in Producers \ {p} : queue'[q] = queue[q]
    BY <1>4, DeliverMoves DEF TypeOK
  <2>7. \A d \in sent' : status'[d] \in {"sending", "failed", "gone"} /\ d \notin Published'
    BY <2>1, <2>2 DEF MessagesHaveCalls
  <2>8. \A d \in Published' :
          status'[d] \in {"sending", "flushing", "returned", "failed", "gone"}
    BY <2>1, <2>2 DEF MessagesHaveCalls
  <2>9. \A q \in Producers : \A d \in ToSet(queue'[q]) :
          by'[d] = q /\ status'[d] \in {"flushing", "returned"}
    BY <2>1, <2>2 DEF MessagesHaveCalls
  <2>. QED BY <2>7, <2>8, <2>9 DEF MessagesHaveCalls
<1>5. ASSUME NEW p \in Python, GiveUp(p)
      PROVE  MessagesHaveCalls'
  <2>1. by' = by /\ sent' = sent /\ status' = status /\ Published' = Published
    BY <1>5 DEF GiveUp, Published
  <2>2. /\ ToSet(queue'[p]) \subseteq ToSet(queue[p])
        /\ \A q \in Producers \ {p} : queue'[q] = queue[q]
    BY <1>5, GiveUpMoves DEF TypeOK
  <2>7. \A d \in sent' : status'[d] \in {"sending", "failed", "gone"} /\ d \notin Published'
    BY <2>1, <2>2 DEF MessagesHaveCalls
  <2>8. \A d \in Published' :
          status'[d] \in {"sending", "flushing", "returned", "failed", "gone"}
    BY <2>1, <2>2 DEF MessagesHaveCalls
  <2>9. \A q \in Producers : \A d \in ToSet(queue'[q]) :
          by'[d] = q /\ status'[d] \in {"flushing", "returned"}
    BY <2>1, <2>2 DEF MessagesHaveCalls
  <2>. QED BY <2>7, <2>8, <2>9 DEF MessagesHaveCalls
<1>6. ASSUME NEW p \in Python, Exit(p)
      PROVE  MessagesHaveCalls'
  BY <1>6
     DEF MessagesHaveCalls, Published, TypeOK, Exit
<1>7. ASSUME NEW p \in TypeScript, NEW c \in Calls, NEW pay \in Payloads, StartProduce(c, p, pay)
      PROVE  MessagesHaveCalls'
  <2>1. /\ status[c] = "idle" /\ sent' = sent /\ queue' = queue
        /\ \A d \in Calls \ {c} : by'[d] = by[d] /\ status'[d] = status[d]
    BY <1>7 DEF StartProduce, Begin, Validate, TypeOK
  <2>2. /\ Published' = Published /\ Published \subseteq Calls /\ sent \subseteq Calls
        /\ \A q \in Producers : ToSet(queue[q]) \subseteq Calls
    BY <2>1, <1>7, LogAndQueuesHoldCalls DEF StartProduce, Published, TypeOK
  <2>3. /\ c \notin sent /\ c \notin Published
        /\ \A q \in Producers : c \notin ToSet(queue[q])
    BY <2>1, NoMessageYet
  <2>7. \A d \in sent' : status'[d] \in {"sending", "failed", "gone"} /\ d \notin Published'
    BY <2>1, <2>2, <2>3 DEF MessagesHaveCalls
  <2>8. \A d \in Published' :
          status'[d] \in {"sending", "flushing", "returned", "failed", "gone"}
    BY <2>1, <2>2, <2>3 DEF MessagesHaveCalls
  <2>9. \A q \in Producers : \A d \in ToSet(queue'[q]) :
          by'[d] = q /\ status'[d] \in {"flushing", "returned"}
    BY <2>1, <2>2, <2>3 DEF MessagesHaveCalls
  <2>. QED BY <2>7, <2>8, <2>9 DEF MessagesHaveCalls
<1>8. ASSUME NEW p \in TypeScript, NEW c \in CallsOf(p), FetchAnswered(c)
      PROVE  MessagesHaveCalls'
  BY <1>8
     DEF MessagesHaveCalls, Published, TypeOK, FetchAnswered
<1>9. ASSUME NEW p \in TypeScript, NEW c \in CallsOf(p), FetchFails(c)
      PROVE  MessagesHaveCalls'
  BY <1>9
     DEF MessagesHaveCalls, Published, TypeOK, FetchFails
<1>10. ASSUME NEW p \in TypeScript, NEW c \in CallsOf(p), Compile(c)
      PROVE  MessagesHaveCalls'
  <2>1. /\ status[c] = "compiling" /\ sent' = sent /\ queue' = queue /\ by' = by
        /\ \A d \in Calls \ {c} : status'[d] = status[d]
    BY <1>10 DEF Compile, Validate, TypeOK
  <2>2. /\ Published' = Published /\ Published \subseteq Calls /\ sent \subseteq Calls
        /\ \A q \in Producers : ToSet(queue[q]) \subseteq Calls
    BY <2>1, <1>10, LogAndQueuesHoldCalls DEF Compile, Published, TypeOK
  <2>3. /\ c \notin sent /\ c \notin Published
        /\ \A q \in Producers : c \notin ToSet(queue[q])
    BY <2>1, NoMessageYet
  <2>7. \A d \in sent' : status'[d] \in {"sending", "failed", "gone"} /\ d \notin Published'
    BY <2>1, <2>2, <2>3 DEF MessagesHaveCalls
  <2>8. \A d \in Published' :
          status'[d] \in {"sending", "flushing", "returned", "failed", "gone"}
    BY <2>1, <2>2, <2>3 DEF MessagesHaveCalls
  <2>9. \A q \in Producers : \A d \in ToSet(queue'[q]) :
          by'[d] = q /\ status'[d] \in {"flushing", "returned"}
    BY <2>1, <2>2, <2>3 DEF MessagesHaveCalls
  <2>. QED BY <2>7, <2>8, <2>9 DEF MessagesHaveCalls
<1>11. ASSUME NEW p \in TypeScript, NEW c \in CallsOf(p), Connect(c)
      PROVE  MessagesHaveCalls'
  BY <1>11
     DEF MessagesHaveCalls, Published, TypeOK, Connect
<1>12. ASSUME NEW p \in TypeScript, NEW c \in CallsOf(p), Connected(c)
      PROVE  MessagesHaveCalls'
  BY <1>12
     DEF MessagesHaveCalls, Published, TypeOK, Connected
<1>13. ASSUME NEW p \in TypeScript, NEW c \in CallsOf(p), ConnectFails(c)
      PROVE  MessagesHaveCalls'
  BY <1>13
     DEF MessagesHaveCalls, Published, TypeOK, ConnectFails
<1>14. ASSUME NEW p \in TypeScript, NEW c \in CallsOf(p), Send(c)
      PROVE  MessagesHaveCalls'
  <2>1. /\ status[c] = "connected" /\ queue' = queue /\ by' = by
        /\ \A d \in Calls \ {c} : status'[d] = status[d]
        /\ sent' = sent \/ (sent' = sent \cup {c} /\ status'[c] = "sending")
    BY <1>14 DEF Send, TypeOK
  <2>2. /\ Published' = Published /\ Published \subseteq Calls /\ sent \subseteq Calls
        /\ \A q \in Producers : ToSet(queue[q]) \subseteq Calls
    BY <2>1, <1>14, LogAndQueuesHoldCalls DEF Send, Published, TypeOK
  <2>3. /\ c \notin sent /\ c \notin Published
        /\ \A q \in Producers : c \notin ToSet(queue[q])
    BY <2>1, NoMessageYet
  <2>7. \A d \in sent' : status'[d] \in {"sending", "failed", "gone"} /\ d \notin Published'
    BY <2>1, <2>2, <2>3 DEF MessagesHaveCalls
  <2>8. \A d \in Published' :
          status'[d] \in {"sending", "flushing", "returned", "failed", "gone"}
    BY <2>1, <2>2, <2>3 DEF MessagesHaveCalls
  <2>9. \A q \in Producers : \A d \in ToSet(queue'[q]) :
          by'[d] = q /\ status'[d] \in {"flushing", "returned"}
    BY <2>1, <2>2, <2>3 DEF MessagesHaveCalls
  <2>. QED BY <2>7, <2>8, <2>9 DEF MessagesHaveCalls
<1>15. ASSUME NEW p \in TypeScript, NEW c \in CallsOf(p), BrokerAppends(c)
      PROVE  MessagesHaveCalls'
  <2>1. /\ c \in sent /\ queue' = queue /\ by' = by /\ sent' = sent \ {c} /\ status' = status
    BY <1>15 DEF BrokerAppends
  <2>2. Published' = Published \cup {c}
    BY <1>15, AppendMoves
  <2>7. \A d \in sent' : status'[d] \in {"sending", "failed", "gone"} /\ d \notin Published'
    BY <2>1, <2>2 DEF MessagesHaveCalls
  <2>8. \A d \in Published' :
          status'[d] \in {"sending", "flushing", "returned", "failed", "gone"}
    BY <2>1, <2>2 DEF MessagesHaveCalls
  <2>9. \A q \in Producers : \A d \in ToSet(queue'[q]) :
          by'[d] = q /\ status'[d] \in {"flushing", "returned"}
    BY <2>1, <2>2 DEF MessagesHaveCalls
  <2>. QED BY <2>7, <2>8, <2>9 DEF MessagesHaveCalls
<1>16. ASSUME NEW p \in TypeScript, NEW c \in CallsOf(p), SendResolves(c)
      PROVE  MessagesHaveCalls'
  <2>1. /\ status[c] = "sending" /\ queue' = queue /\ by' = by /\ sent' = sent
        /\ \A d \in Calls \ {c} : status'[d] = status[d]
        /\ status'[c] = "returned"
    BY <1>16 DEF SendResolves, TypeOK
  <2>2. /\ Published' = Published /\ Published \subseteq Calls /\ sent \subseteq Calls
        /\ \A q \in Producers : ToSet(queue[q]) \subseteq Calls
    BY <2>1, <1>16, LogAndQueuesHoldCalls DEF SendResolves, Published, TypeOK
  <2>3. c \in Published
    BY <1>16 DEF SendResolves, Contains, Published, ToSet, TypeOK
  <2>7. \A d \in sent' : status'[d] \in {"sending", "failed", "gone"} /\ d \notin Published'
    BY <2>1, <2>2, <2>3 DEF MessagesHaveCalls
  <2>8. \A d \in Published' :
          status'[d] \in {"sending", "flushing", "returned", "failed", "gone"}
    BY <2>1, <2>2, <2>3 DEF MessagesHaveCalls
  <2>9. \A q \in Producers : \A d \in ToSet(queue'[q]) :
          by'[d] = q /\ status'[d] \in {"flushing", "returned"}
    BY <2>1, <2>2, <2>3 DEF MessagesHaveCalls
  <2>. QED BY <2>7, <2>8, <2>9 DEF MessagesHaveCalls
<1>17. ASSUME NEW p \in TypeScript, NEW c \in CallsOf(p), SendRejects(c)
      PROVE  MessagesHaveCalls'
  BY <1>17
     DEF MessagesHaveCalls, Published, TypeOK, SendRejects
<1>18. ASSUME NEW p \in TypeScript, Close(p)
      PROVE  MessagesHaveCalls'
  BY <1>18
     DEF MessagesHaveCalls, Published, TypeOK, Close
<1>19. ASSUME NEW p \in TypeScript, Disconnected(p)
      PROVE  MessagesHaveCalls'
  BY <1>19
     DEF MessagesHaveCalls, Published, TypeOK, Disconnected
<1>20. ASSUME NEW p \in Producers, Crash(p)
      PROVE  MessagesHaveCalls'
  <2>1. by' = by /\ sent' = sent
    BY <1>20 DEF Crash
  <2>2. /\ Published' = Published /\ Published \subseteq Calls /\ sent \subseteq Calls
        /\ \A q \in Producers : ToSet(queue[q]) \subseteq Calls
    BY <2>1, <1>20, LogAndQueuesHoldCalls DEF Crash, Published, TypeOK
  <2>7. \A d \in sent' : status'[d] \in {"sending", "failed", "gone"} /\ d \notin Published'
    BY <2>1, <2>2, <1>20, CrashMoves DEF MessagesHaveCalls
  <2>8. \A d \in Published' :
          status'[d] \in {"sending", "flushing", "returned", "failed", "gone"}
    BY <2>1, <2>2, <1>20, CrashMoves DEF MessagesHaveCalls
  <2>9. \A q \in Producers : \A d \in ToSet(queue'[q]) :
          by'[d] = q /\ status'[d] \in {"flushing", "returned"}
    BY <2>1, <2>2, <1>20, CrashMoves DEF MessagesHaveCalls
  <2>. QED BY <2>7, <2>8, <2>9 DEF MessagesHaveCalls
<1>21. CASE UNCHANGED vars
  BY <1>21
     DEF MessagesHaveCalls, Published, TypeOK, vars
<1>. QED
  BY <1>1, <1>2, <1>3, <1>4, <1>5, <1>6, <1>7, <1>8, <1>9, <1>10,
     <1>11, <1>12, <1>13, <1>14, <1>15, <1>16, <1>17, <1>18, <1>19, <1>20, <1>21
     DEF Next, PythonStep, TypeScriptStep

LEMMA NextFlushingWasQueued == ProducerInv /\ [Next]_vars => FlushingWasQueued'
<1> SUFFICES ASSUME ProducerInv, [Next]_vars PROVE FlushingWasQueued'
  OBVIOUS
<1> USE ProducerAssumption DEF ProducerInv, CallsOf, Become, Producers,
        cacheVars, callVars, clientVars, brokerVars
<1>1. ASSUME NEW v \in Versions, Register(v)
      PROVE  FlushingWasQueued'
  BY <1>1
     DEF FlushingWasQueued, PythonCall, Published, TypeOK, Register
<1>2. ASSUME NEW p \in Python, NEW c \in Calls, NEW pay \in Payloads,
             NEW fl \in BOOLEAN, Produce(c, p, pay, fl)
      PROVE  FlushingWasQueued'
  <2>1. /\ status[c] = "idle" /\ sent' = sent /\ by'[c] = p /\ c \notin Published
        /\ given_up' = given_up /\ Published' = Published /\ life' = life
        /\ \A d \in Calls \ {c} : by'[d] = by[d]
    BY <1>2, NoMessageYet DEF Produce, Begin, Published, TypeOK
  <2>2. /\ \A d \in Calls \ {c} : status'[d] = status[d]
        /\ \A q \in Producers \ {p} : queue'[q] = queue[q]
        /\ \/ queue'[p] = queue[p] /\ status'[c] = "raised"
           \/ ToSet(queue'[p]) = ToSet(queue[p]) \cup {c} /\ status'[c] \in {"flushing", "returned"}
    BY <1>2, ProduceEffect
  <2>3. ASSUME NEW d \in Calls, d # c, status'[d] = "flushing"
        PROVE  by'[d] = by[d] /\ by[d] \in Python /\ ToSet(queue[by[d]]) \subseteq ToSet(queue'[by[d]])
    BY <2>1, <2>2, <2>3 DEF FlushingWasQueued, PythonCall
  <2>. QED BY <2>1, <2>2, <2>3 DEF FlushingWasQueued, PythonCall
<1>3. ASSUME NEW p \in Python, NEW c \in CallsOf(p), FlushReturns(c)
      PROVE  FlushingWasQueued'
  BY <1>3
     DEF FlushingWasQueued, PythonCall, Published, TypeOK, FlushReturns
<1>4. ASSUME NEW p \in Python, Deliver(p)
      PROVE  FlushingWasQueued'
  <2>1. by' = by /\ status' = status /\ given_up' = given_up
    BY <1>4 DEF Deliver
  <2>. QED BY <1>4, <2>1, DeliverMoves DEF FlushingWasQueued, PythonCall
<1>5. ASSUME NEW p \in Python, GiveUp(p)
      PROVE  FlushingWasQueued'
  <2>1. by' = by /\ status' = status /\ Published' = Published
    BY <1>5 DEF GiveUp, Published
  <2>. QED BY <1>5, <2>1, GiveUpMoves DEF FlushingWasQueued, PythonCall
<1>6. ASSUME NEW p \in Python, Exit(p)
      PROVE  FlushingWasQueued'
  BY <1>6
     DEF FlushingWasQueued, PythonCall, Published, TypeOK, Exit
<1>7. ASSUME NEW p \in TypeScript, NEW c \in Calls, NEW pay \in Payloads, StartProduce(c, p, pay)
      PROVE  FlushingWasQueued'
  BY <1>7
     DEF FlushingWasQueued, PythonCall, Published, TypeOK, StartProduce,
         Begin, Validate
<1>8. ASSUME NEW p \in TypeScript, NEW c \in CallsOf(p), FetchAnswered(c)
      PROVE  FlushingWasQueued'
  BY <1>8
     DEF FlushingWasQueued, PythonCall, Published, TypeOK, FetchAnswered
<1>9. ASSUME NEW p \in TypeScript, NEW c \in CallsOf(p), FetchFails(c)
      PROVE  FlushingWasQueued'
  BY <1>9
     DEF FlushingWasQueued, PythonCall, Published, TypeOK, FetchFails
<1>10. ASSUME NEW p \in TypeScript, NEW c \in CallsOf(p), Compile(c)
      PROVE  FlushingWasQueued'
  BY <1>10
     DEF FlushingWasQueued, PythonCall, Published, TypeOK, Compile, Validate
<1>11. ASSUME NEW p \in TypeScript, NEW c \in CallsOf(p), Connect(c)
      PROVE  FlushingWasQueued'
  BY <1>11
     DEF FlushingWasQueued, PythonCall, Published, TypeOK, Connect
<1>12. ASSUME NEW p \in TypeScript, NEW c \in CallsOf(p), Connected(c)
      PROVE  FlushingWasQueued'
  BY <1>12
     DEF FlushingWasQueued, PythonCall, Published, TypeOK, Connected
<1>13. ASSUME NEW p \in TypeScript, NEW c \in CallsOf(p), ConnectFails(c)
      PROVE  FlushingWasQueued'
  BY <1>13
     DEF FlushingWasQueued, PythonCall, Published, TypeOK, ConnectFails
<1>14. ASSUME NEW p \in TypeScript, NEW c \in CallsOf(p), Send(c)
      PROVE  FlushingWasQueued'
  BY <1>14
     DEF FlushingWasQueued, PythonCall, Published, TypeOK, Send
<1>15. ASSUME NEW p \in TypeScript, NEW c \in CallsOf(p), BrokerAppends(c)
      PROVE  FlushingWasQueued'
  <2>1. by' = by /\ status' = status /\ given_up' = given_up /\ queue' = queue
    BY <1>15 DEF BrokerAppends
  <2>. QED BY <1>15, <2>1, AppendMoves DEF FlushingWasQueued, PythonCall
<1>16. ASSUME NEW p \in TypeScript, NEW c \in CallsOf(p), SendResolves(c)
      PROVE  FlushingWasQueued'
  BY <1>16
     DEF FlushingWasQueued, PythonCall, Published, TypeOK, SendResolves
<1>17. ASSUME NEW p \in TypeScript, NEW c \in CallsOf(p), SendRejects(c)
      PROVE  FlushingWasQueued'
  BY <1>17
     DEF FlushingWasQueued, PythonCall, Published, TypeOK, SendRejects
<1>18. ASSUME NEW p \in TypeScript, Close(p)
      PROVE  FlushingWasQueued'
  BY <1>18
     DEF FlushingWasQueued, PythonCall, Published, TypeOK, Close
<1>19. ASSUME NEW p \in TypeScript, Disconnected(p)
      PROVE  FlushingWasQueued'
  BY <1>19
     DEF FlushingWasQueued, PythonCall, Published, TypeOK, Disconnected
<1>20. ASSUME NEW p \in Producers, Crash(p)
      PROVE  FlushingWasQueued'
  <2>1. by' = by /\ Published' = Published /\ given_up' = given_up
    BY <1>20 DEF Crash, Published
  <2>2. \A d \in Calls : status'[d] = "flushing" => status[d] = "flushing" /\ by[d] # p
    BY <1>20, CrashMoves
  <2>3. \A d \in Calls : status'[d] = "flushing" => queue'[by[d]] = queue[by[d]] /\ by[d] \in Python
    BY <1>20, <2>2, CrashMoves DEF FlushingWasQueued, PythonCall
  <2>. QED BY <2>1, <2>2, <2>3 DEF FlushingWasQueued, PythonCall
<1>21. CASE UNCHANGED vars
  BY <1>21
     DEF FlushingWasQueued, PythonCall, Published, TypeOK, vars
<1>. QED
  BY <1>1, <1>2, <1>3, <1>4, <1>5, <1>6, <1>7, <1>8, <1>9, <1>10,
     <1>11, <1>12, <1>13, <1>14, <1>15, <1>16, <1>17, <1>18, <1>19, <1>20, <1>21
     DEF Next, PythonStep, TypeScriptStep

LEMMA NextReturnedIsAccountedFor == ProducerInv /\ [Next]_vars => ReturnedIsAccountedFor'
<1> SUFFICES ASSUME ProducerInv, [Next]_vars PROVE ReturnedIsAccountedFor'
  OBVIOUS
<1> USE ProducerAssumption DEF ProducerInv, CallsOf, Become, Producers,
        cacheVars, callVars, clientVars, brokerVars
<1>1. ASSUME NEW v \in Versions, Register(v)
      PROVE  ReturnedIsAccountedFor'
  BY <1>1
     DEF ReturnedIsAccountedFor, FlushingWasQueued, PythonCall, Published,
         TypeOK, Register
<1>2. ASSUME NEW p \in Python, NEW c \in Calls, NEW pay \in Payloads,
             NEW fl \in BOOLEAN, Produce(c, p, pay, fl)
      PROVE  ReturnedIsAccountedFor'
  <2>1. /\ status[c] = "idle" /\ sent' = sent /\ by'[c] = p /\ c \notin Published
        /\ given_up' = given_up /\ Published' = Published /\ life' = life
        /\ \A d \in Calls \ {c} : by'[d] = by[d]
    BY <1>2, NoMessageYet DEF Produce, Begin, Published, TypeOK
  <2>2. /\ \A d \in Calls \ {c} : status'[d] = status[d]
        /\ \A q \in Producers \ {p} : queue'[q] = queue[q]
        /\ \/ queue'[p] = queue[p] /\ status'[c] = "raised"
           \/ ToSet(queue'[p]) = ToSet(queue[p]) \cup {c} /\ status'[c] \in {"flushing", "returned"}
    BY <1>2, ProduceEffect
  <2>3. ASSUME NEW d \in Calls, d # c, status'[d] = "returned", by[d] \in Python
        PROVE  ToSet(queue[by[d]]) \subseteq ToSet(queue'[by[d]])
    BY <2>1, <2>2, <2>3
  <2>. QED BY <2>1, <2>2, <2>3 DEF ReturnedIsAccountedFor, PythonCall
<1>3. ASSUME NEW p \in Python, NEW c \in CallsOf(p), FlushReturns(c)
      PROVE  ReturnedIsAccountedFor'
  BY <1>3
     DEF ReturnedIsAccountedFor, FlushingWasQueued, PythonCall, Published,
         TypeOK, FlushReturns
<1>4. ASSUME NEW p \in Python, Deliver(p)
      PROVE  ReturnedIsAccountedFor'
  <2>1. by' = by /\ status' = status /\ given_up' = given_up /\ life' = life
    BY <1>4 DEF Deliver
  <2>. QED BY <1>4, <2>1, DeliverMoves DEF ReturnedIsAccountedFor, PythonCall
<1>5. ASSUME NEW p \in Python, GiveUp(p)
      PROVE  ReturnedIsAccountedFor'
  <2>1. by' = by /\ status' = status /\ Published' = Published /\ life' = life
    BY <1>5 DEF GiveUp, Published
  <2>. QED BY <1>5, <2>1, GiveUpMoves DEF ReturnedIsAccountedFor, PythonCall
<1>6. ASSUME NEW p \in Python, Exit(p)
      PROVE  ReturnedIsAccountedFor'
  <2>1. /\ by' = by /\ status' = status /\ Published' = Published /\ queue' = queue
        /\ given_up' = given_up /\ life[p] = "alive"
        /\ life' = [life EXCEPT ![p] = "exited"]
    BY <1>6 DEF Exit, Idle, Published
  <2>2. \A q \in Python : life[q] = "crashed" => life'[q] = "crashed"
    BY <2>1 DEF TypeOK
  <2>. QED BY <2>1, <2>2 DEF ReturnedIsAccountedFor, PythonCall
<1>7. ASSUME NEW p \in TypeScript, NEW c \in Calls, NEW pay \in Payloads, StartProduce(c, p, pay)
      PROVE  ReturnedIsAccountedFor'
  BY <1>7
     DEF ReturnedIsAccountedFor, FlushingWasQueued, PythonCall, Published,
         TypeOK, StartProduce, Begin, Validate
<1>8. ASSUME NEW p \in TypeScript, NEW c \in CallsOf(p), FetchAnswered(c)
      PROVE  ReturnedIsAccountedFor'
  BY <1>8
     DEF ReturnedIsAccountedFor, FlushingWasQueued, PythonCall, Published,
         TypeOK, FetchAnswered
<1>9. ASSUME NEW p \in TypeScript, NEW c \in CallsOf(p), FetchFails(c)
      PROVE  ReturnedIsAccountedFor'
  BY <1>9
     DEF ReturnedIsAccountedFor, FlushingWasQueued, PythonCall, Published,
         TypeOK, FetchFails
<1>10. ASSUME NEW p \in TypeScript, NEW c \in CallsOf(p), Compile(c)
      PROVE  ReturnedIsAccountedFor'
  BY <1>10
     DEF ReturnedIsAccountedFor, FlushingWasQueued, PythonCall, Published,
         TypeOK, Compile, Validate
<1>11. ASSUME NEW p \in TypeScript, NEW c \in CallsOf(p), Connect(c)
      PROVE  ReturnedIsAccountedFor'
  BY <1>11
     DEF ReturnedIsAccountedFor, FlushingWasQueued, PythonCall, Published,
         TypeOK, Connect
<1>12. ASSUME NEW p \in TypeScript, NEW c \in CallsOf(p), Connected(c)
      PROVE  ReturnedIsAccountedFor'
  BY <1>12
     DEF ReturnedIsAccountedFor, FlushingWasQueued, PythonCall, Published,
         TypeOK, Connected
<1>13. ASSUME NEW p \in TypeScript, NEW c \in CallsOf(p), ConnectFails(c)
      PROVE  ReturnedIsAccountedFor'
  BY <1>13
     DEF ReturnedIsAccountedFor, FlushingWasQueued, PythonCall, Published,
         TypeOK, ConnectFails
<1>14. ASSUME NEW p \in TypeScript, NEW c \in CallsOf(p), Send(c)
      PROVE  ReturnedIsAccountedFor'
  BY <1>14
     DEF ReturnedIsAccountedFor, FlushingWasQueued, PythonCall, Published,
         TypeOK, Send
<1>15. ASSUME NEW p \in TypeScript, NEW c \in CallsOf(p), BrokerAppends(c)
      PROVE  ReturnedIsAccountedFor'
  <2>1. by' = by /\ status' = status /\ given_up' = given_up /\ queue' = queue /\ life' = life
    BY <1>15 DEF BrokerAppends
  <2>. QED BY <1>15, <2>1, AppendMoves DEF ReturnedIsAccountedFor, PythonCall
<1>16. ASSUME NEW p \in TypeScript, NEW c \in CallsOf(p), SendResolves(c)
      PROVE  ReturnedIsAccountedFor'
  <2>1. /\ by' = by /\ queue' = queue /\ given_up' = given_up /\ Published' = Published
        /\ life' = life /\ \A d \in Calls \ {c} : status'[d] = status[d]
    BY <1>16 DEF SendResolves, Published, TypeOK
  <2>2. c \in Published
    BY <1>16 DEF SendResolves, Contains, Published, ToSet, TypeOK
  <2>. QED BY <2>1, <2>2 DEF ReturnedIsAccountedFor, PythonCall
<1>17. ASSUME NEW p \in TypeScript, NEW c \in CallsOf(p), SendRejects(c)
      PROVE  ReturnedIsAccountedFor'
  BY <1>17
     DEF ReturnedIsAccountedFor, FlushingWasQueued, PythonCall, Published,
         TypeOK, SendRejects
<1>18. ASSUME NEW p \in TypeScript, Close(p)
      PROVE  ReturnedIsAccountedFor'
  BY <1>18
     DEF ReturnedIsAccountedFor, FlushingWasQueued, PythonCall, Published,
         TypeOK, Close
<1>19. ASSUME NEW p \in TypeScript, Disconnected(p)
      PROVE  ReturnedIsAccountedFor'
  BY <1>19
     DEF ReturnedIsAccountedFor, FlushingWasQueued, PythonCall, Published,
         TypeOK, Disconnected
<1>20. ASSUME NEW p \in Producers, Crash(p)
      PROVE  ReturnedIsAccountedFor'
  <2>1. by' = by /\ Published' = Published /\ given_up' = given_up
        /\ life' = [life EXCEPT ![p] = "crashed"]
    BY <1>20 DEF Crash, Published
  <2>2. /\ \A d \in Calls : status'[d] = "returned" => status[d] = "returned"
        /\ \A q \in Producers \ {p} : queue'[q] = queue[q]
    BY <1>20, CrashMoves
  <2>3. life'[p] = "crashed" /\ \A q \in Producers \ {p} : life'[q] = life[q]
    BY <2>1 DEF TypeOK
  <2>. QED BY <2>1, <2>2, <2>3 DEF ReturnedIsAccountedFor, PythonCall
<1>21. CASE UNCHANGED vars
  BY <1>21
     DEF ReturnedIsAccountedFor, FlushingWasQueued, PythonCall, Published,
         TypeOK, vars
<1>. QED
  BY <1>1, <1>2, <1>3, <1>4, <1>5, <1>6, <1>7, <1>8, <1>9, <1>10,
     <1>11, <1>12, <1>13, <1>14, <1>15, <1>16, <1>17, <1>18, <1>19, <1>20, <1>21
     DEF Next, PythonStep, TypeScriptStep

\* A call that conforms goes on to: versions stay registered, arguments stay.
LEMMA ConformsStays ==
    ASSUME NEW c, Conforms(c), by'[c] = by[c], payload'[c] = payload[c],
           ToSet(registered) \subseteq ToSet(registered')
    PROVE  Conforms(c)'
BY DEF Conforms, Accepts

\* A step that leaves the registry, the arguments and the fetched documents alone,
\* validates nothing and moves no new call towards the log.
LEMMA StillValid ==
    ASSUME TypeOK, ValidatorsAreRegistered, UNCHANGED <<registered, by, payload, fetched>>,
           cache' = cache,
           \A d \in Calls : status'[d] = "compiling" => status[d] = "compiling",
           \A d \in Calls : status'[d] \in Validated => status[d] \in Validated,
           \A d \in Calls : d \in Published' \cup sent' =>
              status[d] \in Validated \/ d \in Published \cup sent
    PROVE  ValidatorsAreRegistered'
<1>1. \A d \in Calls : status'[d] \in Validated \/ d \in Published' \cup sent' => Conforms(d)
  BY DEF ValidatorsAreRegistered
<1>2. ASSUME NEW d \in Calls, Conforms(d) PROVE Conforms(d)'
  BY <1>2, ConformsStays
<1>3. \A d \in Calls : status'[d] = "compiling" => fetched'[d] \in ToSet(registered')
  BY DEF ValidatorsAreRegistered
<1>4. \A q \in Producers : cache'[q] # None => cache'[q] \in ToSet(registered')
  BY DEF ValidatorsAreRegistered
<1>. QED BY <1>1, <1>2, <1>3, <1>4 DEF ValidatorsAreRegistered, Validated

\* A step that may validate c only: the others stay as they are.
LEMMA OthersStayValid ==
    ASSUME TypeOK, ValidatorsAreRegistered, NEW c \in Calls, registered' = registered,
           Published' = Published, sent' = sent, c \notin Published, c \notin sent,
           \A d \in Calls \ {c} : /\ status'[d] = status[d] /\ by'[d] = by[d]
                                 /\ payload'[d] = payload[d] /\ fetched'[d] = fetched[d],
           \A q \in Producers : cache'[q] # None => cache'[q] \in ToSet(registered),
           status'[c] = "compiling" => fetched'[c] \in ToSet(registered),
           status'[c] \in Validated => Conforms(c)'
    PROVE  ValidatorsAreRegistered'
<1>1. ASSUME NEW d \in Calls, status'[d] \in Validated \/ d \in Published' \cup sent'
      PROVE  Conforms(d)'
  <2>1. CASE d = c
    BY <1>1, <2>1
  <2>2. CASE d # c
    <3>1. Conforms(d)
      BY <1>1, <2>2 DEF ValidatorsAreRegistered
    <3>. QED BY <2>2, <3>1, ConformsStays
  <2>. QED BY <2>1, <2>2
<1>2. \A d \in Calls : status'[d] = "compiling" => fetched'[d] \in ToSet(registered')
  BY DEF ValidatorsAreRegistered
<1>. QED BY <1>1, <1>2 DEF ValidatorsAreRegistered, Validated

LEMMA NextValidatorsAreRegistered == ProducerInv /\ [Next]_vars => ValidatorsAreRegistered'
<1> SUFFICES ASSUME ProducerInv, [Next]_vars PROVE ValidatorsAreRegistered'
  OBVIOUS
<1> USE ProducerAssumption DEF ProducerInv, CallsOf, Become, Producers,
        cacheVars, callVars, clientVars, brokerVars
<1>1. ASSUME NEW v \in Versions, Register(v)
      PROVE  ValidatorsAreRegistered'
  <2>1. /\ cache' = cache /\ fetched' = fetched /\ status' = status /\ payload' = payload
        /\ by' = by /\ Published' = Published /\ sent' = sent
    BY <1>1 DEF Register, Published
  <2>2. ToSet(registered) \subseteq ToSet(registered')
    BY <1>1, AppendSet DEF Register, TypeOK
  <2>3. ASSUME NEW d \in Calls, status'[d] \in Validated \/ d \in Published' \cup sent'
        PROVE  Conforms(d)'
    <3>1. Conforms(d)
      BY <2>1, <2>3 DEF ValidatorsAreRegistered
    <3>. QED BY <2>1, <2>2, <3>1, ConformsStays
  <2>4. /\ \A q \in Producers : cache'[q] # None => cache'[q] \in ToSet(registered')
        /\ \A d \in Calls : status'[d] = "compiling" => fetched'[d] \in ToSet(registered')
    BY <2>1, <2>2 DEF ValidatorsAreRegistered
  <2>. QED BY <2>3, <2>4 DEF ValidatorsAreRegistered, Validated
<1>2. ASSUME NEW p \in Python, NEW c \in Calls, NEW pay \in Payloads,
             NEW fl \in BOOLEAN, Produce(c, p, pay, fl)
      PROVE  ValidatorsAreRegistered'
  <2>1. /\ registered' = registered /\ fetched' = fetched
        /\ Published' = Published /\ sent' = sent /\ status[c] = "idle"
        /\ payload' = [payload EXCEPT ![c] = pay] /\ by' = [by EXCEPT ![c] = p]
    BY <1>2 DEF Produce, Begin, Published
  <2>2. PICK v \in Validators(p) :
          /\ cache' = [cache EXCEPT ![p] = v]
          /\ IF v # None /\ Accepts(p, v, pay) THEN QueueMessage(c, p)
             ELSE status' = [status EXCEPT ![c] = "raised"]
    BY <1>2 DEF Produce
  <2>3. v # None => v \in ToSet(registered)
    BY <2>2, LatestIsRegistered DEF Validators, ValidatorsAreRegistered, TypeOK
  <2>4. \A q \in Producers : cache'[q] # None => cache'[q] \in ToSet(registered)
    BY <2>2, <2>3 DEF ValidatorsAreRegistered, TypeOK
  <2>5. /\ \A d \in Calls \ {c} : status'[d] = status[d]
        /\ c \notin Published /\ c \notin sent
        /\ status'[c] \in {"raised", "flushing", "returned"}
    BY <1>2, <2>1, ProduceEffect, NoMessageYet
  <2>6. /\ \A d \in Calls \ {c} : payload'[d] = payload[d] /\ by'[d] = by[d]
        /\ payload'[c] = pay /\ by'[c] = p
    BY <2>1 DEF TypeOK
  <2>7. ASSUME status'[c] \in Validated PROVE Conforms(c)'
    <3>1. v # None /\ Accepts(p, v, pay)
      BY <2>2, <2>7 DEF TypeOK, Validated
    <3>2. v \in ToSet(registered') /\ Accepts(p, v, pay)
      BY <2>1, <2>3, <3>1
    <3>. QED BY <2>6, <3>2 DEF Conforms, Accepts
  <2>8. status'[c] # "compiling"
    BY <2>5
  <2>9. \A d \in Calls \ {c} : fetched'[d] = fetched[d]
    BY <2>1
  <2>. QED BY <2>1, <2>4, <2>5, <2>6, <2>7, <2>8, <2>9, OthersStayValid
<1>3. ASSUME NEW p \in Python, NEW c \in CallsOf(p), FlushReturns(c)
      PROVE  ValidatorsAreRegistered'
  BY <1>3, StillValid DEF FlushReturns, Published, Validated, TypeOK
<1>4. ASSUME NEW p \in Python, Deliver(p)
      PROVE  ValidatorsAreRegistered'
  <2>1. /\ registered' = registered /\ cache' = cache /\ fetched' = fetched /\ by' = by
        /\ status' = status /\ payload' = payload /\ sent' = sent
    BY <1>4 DEF Deliver
  <2>2. PICK c \in Calls : c \in ToSet(queue[p]) /\ Published' = Published \cup {c}
    BY <1>4, DeliverMoves
  <2>3. status[c] \in Validated
    BY <2>2 DEF MessagesHaveCalls, Validated
  <2>. QED BY <2>1, <2>2, <2>3, StillValid
<1>5. ASSUME NEW p \in Python, GiveUp(p)
      PROVE  ValidatorsAreRegistered'
  BY <1>5, StillValid DEF GiveUp, Published, Validated, TypeOK
<1>6. ASSUME NEW p \in Python, Exit(p)
      PROVE  ValidatorsAreRegistered'
  BY <1>6, StillValid DEF Exit, Published, Validated, TypeOK
<1>7. ASSUME NEW p \in TypeScript, NEW c \in Calls, NEW pay \in Payloads, StartProduce(c, p, pay)
      PROVE  ValidatorsAreRegistered'
  <2>1. /\ registered' = registered /\ fetched' = fetched /\ cache' = cache
        /\ Published' = Published /\ sent' = sent /\ status[c] = "idle"
        /\ payload' = [payload EXCEPT ![c] = pay] /\ by' = [by EXCEPT ![c] = p]
    BY <1>7 DEF StartProduce, Begin, Published
  <2>2. /\ \A d \in Calls \ {c} : payload'[d] = payload[d] /\ by'[d] = by[d]
        /\ payload'[c] = pay /\ by'[c] = p
    BY <2>1 DEF TypeOK
  <2>3. \/ \E s \in {"raised", "fetching"} : status' = [status EXCEPT ![c] = s]
        \/ /\ status' = [status EXCEPT ![c] = "ready"]
           /\ cache[p] # None /\ Accepts(p, cache[p], pay)
    BY <1>7, <2>2 DEF StartProduce, Validate
  <2>4. /\ \A d \in Calls \ {c} : status'[d] = status[d]
        /\ status'[c] \in {"raised", "fetching", "ready"}
        /\ status'[c] = "ready" => cache[p] # None /\ Accepts(p, cache[p], pay)
    BY <2>3 DEF TypeOK
  <2>5. ASSUME status'[c] \in Validated PROVE Conforms(c)'
    <3>1. cache[p] \in ToSet(registered') /\ Accepts(p, cache[p], pay)
      BY <2>1, <2>4, <2>5 DEF ValidatorsAreRegistered, Validated
    <3>. QED BY <2>2, <3>1 DEF Conforms, Accepts
  <2>6. \A q \in Producers : cache'[q] # None => cache'[q] \in ToSet(registered)
    BY <2>1 DEF ValidatorsAreRegistered
  <2>7. c \notin Published /\ c \notin sent
    BY <2>1, NoMessageYet
  <2>8. status'[c] # "compiling" /\ \A d \in Calls \ {c} : fetched'[d] = fetched[d]
    BY <2>1, <2>4
  <2>. QED BY <2>1, <2>2, <2>4, <2>5, <2>6, <2>7, <2>8, OthersStayValid
<1>8. ASSUME NEW p \in TypeScript, NEW c \in CallsOf(p), FetchAnswered(c)
      PROVE  ValidatorsAreRegistered'
  <2>1. /\ registered' = registered /\ cache' = cache /\ payload' = payload /\ by' = by
        /\ Published' = Published /\ sent' = sent /\ registered # << >>
        /\ fetched'[c] = Latest /\ status'[c] = "compiling"
        /\ \A d \in Calls \ {c} : status'[d] = status[d] /\ fetched'[d] = fetched[d]
    BY <1>8 DEF FetchAnswered, Published, TypeOK
  <2>2. Latest \in ToSet(registered)
    BY <2>1, LatestIsRegistered DEF TypeOK
  <2>3. c \notin Published /\ c \notin sent /\ status'[c] \notin Validated
    BY <1>8, <2>1, NoMessageYet DEF FetchAnswered, Validated
  <2>4. \A q \in Producers : cache'[q] # None => cache'[q] \in ToSet(registered)
    BY <2>1 DEF ValidatorsAreRegistered
  <2>. QED BY <2>1, <2>2, <2>3, <2>4, OthersStayValid
<1>9. ASSUME NEW p \in TypeScript, NEW c \in CallsOf(p), FetchFails(c)
      PROVE  ValidatorsAreRegistered'
  BY <1>9, StillValid DEF FetchFails, Published, Validated, TypeOK
<1>10. ASSUME NEW p \in TypeScript, NEW c \in CallsOf(p), Compile(c)
      PROVE  ValidatorsAreRegistered'
  <2>1. /\ registered' = registered /\ payload' = payload /\ by' = by
        /\ Published' = Published /\ sent' = sent /\ status[c] = "compiling"
        /\ \A d \in Calls \ {c} : fetched'[d] = fetched[d]
    BY <1>10 DEF Compile, Published, TypeOK
  <2>2. fetched[c] \in ToSet(registered) /\ c \notin Published /\ c \notin sent
    BY <2>1, NoMessageYet DEF ValidatorsAreRegistered
  <2>3. /\ \/ status' = [status EXCEPT ![c] = "raised"]
           \/ status' = [status EXCEPT ![c] = "ready"] /\ Accepts(p, fetched[c], payload[c])
        /\ \/ cache' = cache
           \/ cache' = [cache EXCEPT ![p] = fetched[c]]
    BY <1>10, <2>1 DEF Compile, Validate
  <2>4. \A q \in Producers : cache'[q] # None => cache'[q] \in ToSet(registered)
    BY <2>2, <2>3 DEF ValidatorsAreRegistered, TypeOK
  <2>5. /\ \A d \in Calls \ {c} : status'[d] = status[d]
        /\ status'[c] \in {"raised", "ready"}
        /\ status'[c] = "ready" => Accepts(p, fetched[c], payload[c])
    BY <2>3 DEF TypeOK
  <2>6. ASSUME status'[c] \in Validated PROVE Conforms(c)'
    <3>1. fetched[c] \in ToSet(registered') /\ Accepts(p, fetched[c], payload[c])
      BY <2>1, <2>2, <2>5, <2>6 DEF Validated
    <3>. QED BY <2>1, <3>1 DEF Conforms, Accepts
  <2>. QED BY <2>1, <2>2, <2>4, <2>5, <2>6, OthersStayValid
<1>11. ASSUME NEW p \in TypeScript, NEW c \in CallsOf(p), Connect(c)
      PROVE  ValidatorsAreRegistered'
  BY <1>11, StillValid DEF Connect, Published, Validated, TypeOK
<1>12. ASSUME NEW p \in TypeScript, NEW c \in CallsOf(p), Connected(c)
      PROVE  ValidatorsAreRegistered'
  BY <1>12, StillValid DEF Connected, Published, Validated, TypeOK
<1>13. ASSUME NEW p \in TypeScript, NEW c \in CallsOf(p), ConnectFails(c)
      PROVE  ValidatorsAreRegistered'
  BY <1>13, StillValid DEF ConnectFails, Published, Validated, TypeOK
<1>14. ASSUME NEW p \in TypeScript, NEW c \in CallsOf(p), Send(c)
      PROVE  ValidatorsAreRegistered'
  BY <1>14, StillValid DEF Send, Published, Validated, TypeOK
<1>15. ASSUME NEW p \in TypeScript, NEW c \in CallsOf(p), BrokerAppends(c)
      PROVE  ValidatorsAreRegistered'
  <2>1. /\ registered' = registered /\ cache' = cache /\ fetched' = fetched /\ by' = by
        /\ status' = status /\ payload' = payload /\ sent' = sent \ {c} /\ c \in sent
        /\ Published' = Published \cup {c}
    BY <1>15, AppendMoves DEF BrokerAppends
  <2>. QED BY <2>1, StillValid
<1>16. ASSUME NEW p \in TypeScript, NEW c \in CallsOf(p), SendResolves(c)
      PROVE  ValidatorsAreRegistered'
  BY <1>16, StillValid DEF SendResolves, Published, Validated, TypeOK
<1>17. ASSUME NEW p \in TypeScript, NEW c \in CallsOf(p), SendRejects(c)
      PROVE  ValidatorsAreRegistered'
  BY <1>17, StillValid DEF SendRejects, Published, Validated, TypeOK
<1>18. ASSUME NEW p \in TypeScript, Close(p)
      PROVE  ValidatorsAreRegistered'
  BY <1>18, StillValid DEF Close, Published, Validated, TypeOK
<1>19. ASSUME NEW p \in TypeScript, Disconnected(p)
      PROVE  ValidatorsAreRegistered'
  BY <1>19, StillValid DEF Disconnected, Published, Validated, TypeOK
<1>20. ASSUME NEW p \in Producers, Crash(p)
      PROVE  ValidatorsAreRegistered'
  BY <1>20, StillValid DEF Crash, Published, Validated, TypeOK
<1>21. CASE UNCHANGED vars
  BY <1>21, StillValid DEF vars, Published, Validated, TypeOK
<1>. QED
  BY <1>1, <1>2, <1>3, <1>4, <1>5, <1>6, <1>7, <1>8, <1>9, <1>10,
     <1>11, <1>12, <1>13, <1>14, <1>15, <1>16, <1>17, <1>18, <1>19, <1>20, <1>21
     DEF Next, PythonStep, TypeScriptStep

LEMMA NextQueuesFollowReturns == ProducerInv /\ [Next]_vars => QueuesFollowReturns'
<1> SUFFICES ASSUME ProducerInv, [Next]_vars PROVE QueuesFollowReturns'
  OBVIOUS
<1> USE ProducerAssumption DEF ProducerInv, CallsOf, Become, Producers,
        cacheVars, callVars, clientVars, brokerVars
<1>1. ASSUME NEW v \in Versions, Register(v)
      PROVE  QueuesFollowReturns'
  BY <1>1
     DEF QueuesFollowReturns, PythonCall, Published, TypeOK, Register
<1>2. ASSUME NEW p \in Python, NEW c \in Calls, NEW pay \in Payloads,
             NEW fl \in BOOLEAN, Produce(c, p, pay, fl)
      PROVE  QueuesFollowReturns'
  <2>1. /\ status[c] = "idle" /\ Published' = Published
        /\ by'[c] = p /\ \A d \in Calls \ {c} : by'[d] = by[d]
        /\ before'[c] = {d \in Calls : by[d] = p /\ status[d] = "returned"}
        /\ \A d \in Calls \ {c} : before'[d] = before[d]
    BY <1>2 DEF Produce, Begin, Published, TypeOK
  <2>2. /\ c \notin Published /\ \A q \in Producers : c \notin ToSet(queue[q])
        /\ Published \subseteq Calls /\ \A q \in Producers : ToSet(queue[q]) \subseteq Calls
    BY <2>1, NoMessageYet, LogAndQueuesHoldCalls
  <2>4. \A d \in Calls : before[d] \subseteq Calls /\ c \notin before[d]
    BY <2>1 DEF QueuesFollowReturns, TypeOK
  <2>3. /\ \A d \in Calls \ {c} : status'[d] = status[d]
        /\ \A q \in Producers \ {p} : queue'[q] = queue[q]
        /\ ToSet(queue'[p]) \subseteq ToSet(queue[p]) \cup {c}
    BY <1>2, ProduceEffect
  <2>5. /\ \A d \in Calls : \A e \in before'[d] : status'[e] = "returned" /\ by'[e] = by'[d]
        /\ \A d \in Calls : status'[d] # "idle" => d \notin before'[d]
    BY <2>1, <2>3, <2>4 DEF QueuesFollowReturns
  <2>6. ASSUME NEW d \in Published, by'[d] \in Python
        PROVE  before'[d] \cap ToSet(queue'[by'[d]]) = {}
    <3>1. d \in Calls \ {c} /\ by'[d] = by[d] /\ before'[d] = before[d] /\ by[d] \in Producers
      BY <2>1, <2>2, <2>6
    <3>2. before[d] \cap ToSet(queue[by[d]]) = {}
      BY <2>6, <3>1 DEF QueuesFollowReturns, PythonCall
    <3>3. ToSet(queue'[by[d]]) \subseteq ToSet(queue[by[d]]) \cup {c}
      BY <2>3, <3>1
    <3>. QED BY <2>4, <3>1, <3>2, <3>3
  <2>7. ASSUME NEW q \in Producers, NEW i \in DOMAIN queue[q], NEW j \in DOMAIN queue[q],
               queue[q][i] \in before'[queue[q][j]]
        PROVE  i < j
    <3>1. queue[q][j] \in Calls \ {c}
      BY <2>2 DEF ToSet
    <3>. QED BY <2>1, <2>7, <3>1 DEF QueuesFollowReturns
  <2>8. ASSUME NEW q \in Producers, NEW i \in DOMAIN queue'[q], NEW j \in DOMAIN queue'[q],
               queue'[q][i] \in before'[queue'[q][j]]
        PROVE  i < j
    <3>1. CASE q # p
      BY <2>3, <2>7, <2>8, <3>1
    <3>2. CASE q = p
      <4>1. CASE queue' = queue
        BY <2>7, <2>8, <4>1
      <4>2. CASE /\ Len(queue[p]) \in Nat /\ DOMAIN queue[p] = 1..Len(queue[p])
                 /\ DOMAIN queue'[p] = 1..(Len(queue[p]) + 1)
                 /\ queue'[p][Len(queue[p]) + 1] = c
                 /\ \A k \in 1..Len(queue[p]) : queue'[p][k] = queue[p][k]
        <5>1. CASE i \in DOMAIN queue[p] /\ j \in DOMAIN queue[p]
          BY <2>7, <2>8, <3>2, <4>2, <5>1
        <5>2. CASE i \notin DOMAIN queue[p]
          <6>1. i = Len(queue[p]) + 1
            BY <3>2, <4>2, <5>2
          <6>2. queue'[p][i] = c
            BY <4>2, <6>1
          <6>3. queue'[p][j] \in Calls
            <7>1. j \in DOMAIN queue[p] \/ j = Len(queue[p]) + 1
              BY <3>2, <4>2
            <7>2. CASE j \in DOMAIN queue[p]
              BY <2>2, <4>2, <7>2 DEF ToSet
            <7>. QED BY <4>2, <7>1, <7>2
          <6>4. c \notin before'[queue'[p][j]]
            BY <2>1, <2>4, <6>3
          <6>. QED BY <2>8, <3>2, <6>2, <6>4
        <5>3. CASE i \in DOMAIN queue[p] /\ j \notin DOMAIN queue[p]
          BY <3>2, <4>2, <5>3
        <5>. QED BY <5>1, <5>2, <5>3
      <4>. QED BY <1>2, <4>1, <4>2, ProduceMoves
    <3>. QED BY <3>1, <3>2
  <2>9. \A q \in Producers : \A i, j \in DOMAIN queue'[q] :
          queue'[q][i] \in before'[queue'[q][j]] => i < j
    BY <2>8
  <2>. QED BY <2>1, <2>5, <2>6, <2>9 DEF QueuesFollowReturns, PythonCall
<1>3. ASSUME NEW p \in Python, NEW c \in CallsOf(p), FlushReturns(c)
      PROVE  QueuesFollowReturns'
  BY <1>3
     DEF QueuesFollowReturns, PythonCall, Published, TypeOK, FlushReturns
<1>4. ASSUME NEW p \in Python, Deliver(p)
      PROVE  QueuesFollowReturns'
  <2>1. by' = by /\ status' = status /\ before' = before
    BY <1>4 DEF Deliver
  <2>2. PICK c \in Calls :
              /\ c = queue[p][1] /\ c \in ToSet(queue[p])
              /\ Published' = Published \cup {c}
              /\ \A q \in Producers \ {p} : queue'[q] = queue[q]
              /\ ToSet(queue[p]) = {c} \cup ToSet(queue'[p])
              /\ \A i \in DOMAIN queue'[p] :
                    /\ i \in Nat /\ i + 1 \in DOMAIN queue[p] /\ ~(i + 1 < 1)
                    /\ queue'[p][i] = queue[p][i + 1]
              /\ 1 \in DOMAIN queue[p]
    BY <1>4, DeliverMoves
  <2>3. by[c] = p
    BY <2>2 DEF MessagesHaveCalls
  <2>4. \A q \in Producers : ToSet(queue'[q]) \subseteq ToSet(queue[q])
    BY <2>2
  <2>5. before[c] \cap ToSet(queue'[p]) = {}
    BY <2>2 DEF QueuesFollowReturns, ToSet
  <2>6. \A d \in Published' : by[d] \in Python => before[d] \cap ToSet(queue'[by[d]]) = {}
    BY <2>2, <2>3, <2>4, <2>5 DEF QueuesFollowReturns, PythonCall
  <2>7. ASSUME NEW i \in DOMAIN queue'[p], NEW j \in DOMAIN queue'[p],
               queue'[p][i] \in before[queue'[p][j]]
        PROVE  i < j
    <3>1. /\ i \in Nat /\ j \in Nat /\ i + 1 \in DOMAIN queue[p] /\ j + 1 \in DOMAIN queue[p]
          /\ queue[p][i + 1] \in before[queue[p][j + 1]]
      BY <2>2, <2>7
    <3>2. i + 1 < j + 1
      BY <3>1 DEF QueuesFollowReturns
    <3>. QED BY <3>1, <3>2
  <2>9. \A q \in Producers : \A i, j \in DOMAIN queue'[q] :
          queue'[q][i] \in before[queue'[q][j]] => i < j
    <3>1. ASSUME NEW q \in Producers \ {p}, NEW i \in DOMAIN queue'[q],
                 NEW j \in DOMAIN queue'[q], queue'[q][i] \in before[queue'[q][j]]
          PROVE  i < j
      BY <2>2, <3>1 DEF QueuesFollowReturns
    <3>. QED BY <2>7, <3>1
  <2>. QED BY <2>1, <2>6, <2>9 DEF QueuesFollowReturns, PythonCall
<1>5. ASSUME NEW p \in Python, GiveUp(p)
      PROVE  QueuesFollowReturns'
  <2>1. by' = by /\ status' = status /\ before' = before /\ Published' = Published
    BY <1>5 DEF GiveUp, Published
  <2>2. PICK c \in Calls :
              /\ \A q \in Producers \ {p} : queue'[q] = queue[q]
              /\ ToSet(queue[p]) = {c} \cup ToSet(queue'[p])
              /\ \A i \in DOMAIN queue'[p] :
                    /\ i \in Nat /\ i + 1 \in DOMAIN queue[p]
                    /\ queue'[p][i] = queue[p][i + 1]
    BY <1>5, GiveUpMoves
  <2>4. \A q \in Producers : ToSet(queue'[q]) \subseteq ToSet(queue[q])
    BY <2>2
  <2>6. \A d \in Published : by[d] \in Python => before[d] \cap ToSet(queue'[by[d]]) = {}
    BY <2>4 DEF QueuesFollowReturns, PythonCall
  <2>7. ASSUME NEW i \in DOMAIN queue'[p], NEW j \in DOMAIN queue'[p],
               queue'[p][i] \in before[queue'[p][j]]
        PROVE  i < j
    <3>1. /\ i \in Nat /\ j \in Nat /\ i + 1 \in DOMAIN queue[p] /\ j + 1 \in DOMAIN queue[p]
          /\ queue[p][i + 1] \in before[queue[p][j + 1]]
      BY <2>2, <2>7
    <3>2. i + 1 < j + 1
      BY <3>1 DEF QueuesFollowReturns
    <3>. QED BY <3>1, <3>2
  <2>9. \A q \in Producers : \A i, j \in DOMAIN queue'[q] :
          queue'[q][i] \in before[queue'[q][j]] => i < j
    <3>1. ASSUME NEW q \in Producers \ {p}, NEW i \in DOMAIN queue'[q],
                 NEW j \in DOMAIN queue'[q], queue'[q][i] \in before[queue'[q][j]]
          PROVE  i < j
      BY <2>2, <3>1 DEF QueuesFollowReturns
    <3>. QED BY <2>7, <3>1
  <2>. QED BY <2>1, <2>6, <2>9 DEF QueuesFollowReturns, PythonCall
<1>6. ASSUME NEW p \in Python, Exit(p)
      PROVE  QueuesFollowReturns'
  BY <1>6
     DEF QueuesFollowReturns, PythonCall, Published, TypeOK, Exit
<1>7. ASSUME NEW p \in TypeScript, NEW c \in Calls, NEW pay \in Payloads, StartProduce(c, p, pay)
      PROVE  QueuesFollowReturns'
  <2>1. /\ status[c] = "idle" /\ Published' = Published
        /\ by'[c] = p /\ \A d \in Calls \ {c} : by'[d] = by[d]
        /\ before'[c] = {d \in Calls : by[d] = p /\ status[d] = "returned"}
        /\ \A d \in Calls \ {c} : before'[d] = before[d]
    BY <1>7 DEF StartProduce, Begin, Published, TypeOK
  <2>2. /\ c \notin Published /\ \A q \in Producers : c \notin ToSet(queue[q])
        /\ Published \subseteq Calls /\ \A q \in Producers : ToSet(queue[q]) \subseteq Calls
    BY <2>1, NoMessageYet, LogAndQueuesHoldCalls
  <2>4. \A d \in Calls : before[d] \subseteq Calls /\ c \notin before[d]
    BY <2>1 DEF QueuesFollowReturns, TypeOK
  <2>3. /\ \A d \in Calls \ {c} : status'[d] = status[d]
        /\ queue' = queue
    BY <1>7 DEF StartProduce, Validate, TypeOK
  <2>5. /\ \A d \in Calls : \A e \in before'[d] : status'[e] = "returned" /\ by'[e] = by'[d]
        /\ \A d \in Calls : status'[d] # "idle" => d \notin before'[d]
    BY <2>1, <2>3, <2>4 DEF QueuesFollowReturns
  <2>6. ASSUME NEW d \in Published, by'[d] \in Python
        PROVE  before'[d] \cap ToSet(queue'[by'[d]]) = {}
    <3>1. d \in Calls \ {c} /\ by'[d] = by[d] /\ before'[d] = before[d]
      BY <2>1, <2>2
    <3>. QED BY <2>3, <2>6, <3>1 DEF QueuesFollowReturns, PythonCall
  <2>7. ASSUME NEW q \in Producers, NEW i \in DOMAIN queue[q], NEW j \in DOMAIN queue[q],
               queue[q][i] \in before'[queue[q][j]]
        PROVE  i < j
    <3>1. queue[q][j] \in Calls \ {c}
      BY <2>2 DEF ToSet
    <3>. QED BY <2>1, <2>7, <3>1 DEF QueuesFollowReturns
  <2>. QED BY <2>1, <2>3, <2>5, <2>6, <2>7 DEF QueuesFollowReturns, PythonCall
<1>8. ASSUME NEW p \in TypeScript, NEW c \in CallsOf(p), FetchAnswered(c)
      PROVE  QueuesFollowReturns'
  BY <1>8
     DEF QueuesFollowReturns, PythonCall, Published, TypeOK, FetchAnswered
<1>9. ASSUME NEW p \in TypeScript, NEW c \in CallsOf(p), FetchFails(c)
      PROVE  QueuesFollowReturns'
  BY <1>9
     DEF QueuesFollowReturns, PythonCall, Published, TypeOK, FetchFails
<1>10. ASSUME NEW p \in TypeScript, NEW c \in CallsOf(p), Compile(c)
      PROVE  QueuesFollowReturns'
  BY <1>10
     DEF QueuesFollowReturns, PythonCall, Published, TypeOK, Compile, Validate
<1>11. ASSUME NEW p \in TypeScript, NEW c \in CallsOf(p), Connect(c)
      PROVE  QueuesFollowReturns'
  BY <1>11
     DEF QueuesFollowReturns, PythonCall, Published, TypeOK, Connect
<1>12. ASSUME NEW p \in TypeScript, NEW c \in CallsOf(p), Connected(c)
      PROVE  QueuesFollowReturns'
  BY <1>12
     DEF QueuesFollowReturns, PythonCall, Published, TypeOK, Connected
<1>13. ASSUME NEW p \in TypeScript, NEW c \in CallsOf(p), ConnectFails(c)
      PROVE  QueuesFollowReturns'
  BY <1>13
     DEF QueuesFollowReturns, PythonCall, Published, TypeOK, ConnectFails
<1>14. ASSUME NEW p \in TypeScript, NEW c \in CallsOf(p), Send(c)
      PROVE  QueuesFollowReturns'
  BY <1>14
     DEF QueuesFollowReturns, PythonCall, Published, TypeOK, Send
<1>15. ASSUME NEW p \in TypeScript, NEW c \in CallsOf(p), BrokerAppends(c)
      PROVE  QueuesFollowReturns'
  <2>1. by' = by /\ status' = status /\ before' = before /\ queue' = queue
    BY <1>15 DEF BrokerAppends
  <2>2. Published' = Published \cup {c} /\ by[c] \notin Python
    BY <1>15, AppendMoves
  <2>. QED BY <2>1, <2>2 DEF QueuesFollowReturns, PythonCall
<1>16. ASSUME NEW p \in TypeScript, NEW c \in CallsOf(p), SendResolves(c)
      PROVE  QueuesFollowReturns'
  BY <1>16
     DEF QueuesFollowReturns, PythonCall, Published, TypeOK, SendResolves
<1>17. ASSUME NEW p \in TypeScript, NEW c \in CallsOf(p), SendRejects(c)
      PROVE  QueuesFollowReturns'
  BY <1>17
     DEF QueuesFollowReturns, PythonCall, Published, TypeOK, SendRejects
<1>18. ASSUME NEW p \in TypeScript, Close(p)
      PROVE  QueuesFollowReturns'
  BY <1>18
     DEF QueuesFollowReturns, PythonCall, Published, TypeOK, Close
<1>19. ASSUME NEW p \in TypeScript, Disconnected(p)
      PROVE  QueuesFollowReturns'
  BY <1>19
     DEF QueuesFollowReturns, PythonCall, Published, TypeOK, Disconnected
<1>20. ASSUME NEW p \in Producers, Crash(p)
      PROVE  QueuesFollowReturns'
  <2>1. by' = by /\ Published' = Published /\ before' = before
    BY <1>20 DEF Crash, Published
  <2>2. /\ \A d \in Calls : status[d] \in {"idle", "returned"} => status'[d] = status[d]
        /\ \A d \in Calls : status'[d] # "idle" => status[d] # "idle"
        /\ \A q \in Producers : ToSet(queue'[q]) \subseteq ToSet(queue[q])
        /\ \A q \in Producers : DOMAIN queue'[q] = {} \/ queue'[q] = queue[q]
    BY <1>20, CrashMoves
  <2>3. \A d \in Calls : before[d] \subseteq Calls
    BY DEF TypeOK
  <2>4. /\ \A d \in Calls : \A e \in before[d] : status'[e] = "returned" /\ by[e] = by[d]
        /\ \A d \in Calls : status'[d] # "idle" => d \notin before[d]
    BY <2>2, <2>3 DEF QueuesFollowReturns
  <2>5. \A d \in Published : by[d] \in Python => before[d] \cap ToSet(queue'[by[d]]) = {}
    BY <2>2 DEF QueuesFollowReturns, PythonCall
  <2>6. \A q \in Producers : \A i, j \in DOMAIN queue'[q] :
          queue'[q][i] \in before[queue'[q][j]] => i < j
    BY <2>2 DEF QueuesFollowReturns
  <2>. QED BY <2>1, <2>4, <2>5, <2>6 DEF QueuesFollowReturns, PythonCall
<1>21. CASE UNCHANGED vars
  BY <1>21
     DEF QueuesFollowReturns, PythonCall, Published, TypeOK, vars
<1>. QED
  BY <1>1, <1>2, <1>3, <1>4, <1>5, <1>6, <1>7, <1>8, <1>9, <1>10,
     <1>11, <1>12, <1>13, <1>14, <1>15, <1>16, <1>17, <1>18, <1>19, <1>20, <1>21
     DEF Next, PythonStep, TypeScriptStep

\* An event that no event of the log has in its past may be appended.
LEMMA OrderedAppend ==
    ASSUME log \in Seq(Calls), NEW c \in Calls, log' = Append(log, c), before' = before,
           OrderFollowsReturns, c \notin before[c], \A d \in Published : c \notin before[d]
    PROVE  OrderFollowsReturns'
<1>1. /\ Len(log) \in Nat /\ DOMAIN log = 1..Len(log)
      /\ DOMAIN log' = 1..(Len(log) + 1) /\ log'[Len(log) + 1] = c
      /\ \A i \in 1..Len(log) : log'[i] = log[i]
  BY AppendSet
<1>2. ASSUME NEW i \in DOMAIN log', NEW j \in DOMAIN log', log'[i] \in before[log'[j]]
      PROVE  i < j
  <2>1. CASE i \in DOMAIN log /\ j \in DOMAIN log
    BY <1>1, <1>2, <2>1 DEF OrderFollowsReturns
  <2>2. CASE i \in DOMAIN log /\ j \notin DOMAIN log
    BY <1>1, <2>2
  <2>3. CASE i \notin DOMAIN log
    <3>1. log'[i] = c
      BY <1>1, <2>3
    <3>2. log'[j] = c \/ log'[j] \in Published
      BY <1>1 DEF Published, ToSet
    <3>. QED BY <1>2, <3>1, <3>2
  <2>. QED BY <2>1, <2>2, <2>3
<1>. QED BY <1>2 DEF OrderFollowsReturns

LEMMA NextOrderFollowsReturns == ProducerInv /\ [Next]_vars => OrderFollowsReturns'
<1> SUFFICES ASSUME ProducerInv, [Next]_vars PROVE OrderFollowsReturns'
  OBVIOUS
<1> USE ProducerAssumption DEF ProducerInv, CallsOf, Become, Producers,
        cacheVars, callVars, clientVars, brokerVars
<1>1. ASSUME NEW v \in Versions, Register(v)
      PROVE  OrderFollowsReturns'
  BY <1>1
     DEF OrderFollowsReturns, Published, TypeOK, Register
<1>2. ASSUME NEW p \in Python, NEW c \in Calls, NEW pay \in Payloads,
             NEW fl \in BOOLEAN, Produce(c, p, pay, fl)
      PROVE  OrderFollowsReturns'
  <2>1. status[c] = "idle" /\ log' = log /\ \A d \in Calls \ {c} : before'[d] = before[d]
    BY <1>2 DEF Produce, Begin, TypeOK
  <2>2. c \notin Published /\ Published \subseteq Calls
    BY <2>1, NoMessageYet, LogAndQueuesHoldCalls
  <2>3. \A i \in DOMAIN log : log[i] \in Calls \ {c}
    BY <2>2 DEF Published, ToSet
  <2>. QED BY <2>1, <2>3 DEF OrderFollowsReturns
<1>3. ASSUME NEW p \in Python, NEW c \in CallsOf(p), FlushReturns(c)
      PROVE  OrderFollowsReturns'
  BY <1>3
     DEF OrderFollowsReturns, Published, TypeOK, FlushReturns
<1>4. ASSUME NEW p \in Python, Deliver(p)
      PROVE  OrderFollowsReturns'
  <2>1. before' = before /\ log \in Seq(Calls) /\ Published \subseteq Calls
    BY <1>4, LogAndQueuesHoldCalls DEF Deliver, TypeOK
  <2>2. PICK c \in Calls : c \in ToSet(queue[p]) /\ log' = Append(log, c)
    BY <1>4, DeliverMoves
  <2>3. by[c] = p /\ status[c] # "idle"
    BY <2>2 DEF MessagesHaveCalls
  <2>4. c \notin before[c]
    BY <2>3 DEF QueuesFollowReturns
  <2>5. \A d \in Published : c \notin before[d]
    BY <2>1, <2>2, <2>3 DEF QueuesFollowReturns, PythonCall
  <2>. QED BY <2>1, <2>2, <2>4, <2>5, OrderedAppend
<1>5. ASSUME NEW p \in Python, GiveUp(p)
      PROVE  OrderFollowsReturns'
  BY <1>5
     DEF OrderFollowsReturns, Published, TypeOK, GiveUp
<1>6. ASSUME NEW p \in Python, Exit(p)
      PROVE  OrderFollowsReturns'
  BY <1>6
     DEF OrderFollowsReturns, Published, TypeOK, Exit
<1>7. ASSUME NEW p \in TypeScript, NEW c \in Calls, NEW pay \in Payloads, StartProduce(c, p, pay)
      PROVE  OrderFollowsReturns'
  <2>1. status[c] = "idle" /\ log' = log /\ \A d \in Calls \ {c} : before'[d] = before[d]
    BY <1>7 DEF StartProduce, Begin, TypeOK
  <2>2. c \notin Published /\ Published \subseteq Calls
    BY <2>1, NoMessageYet, LogAndQueuesHoldCalls
  <2>3. \A i \in DOMAIN log : log[i] \in Calls \ {c}
    BY <2>2 DEF Published, ToSet
  <2>. QED BY <2>1, <2>3 DEF OrderFollowsReturns
<1>8. ASSUME NEW p \in TypeScript, NEW c \in CallsOf(p), FetchAnswered(c)
      PROVE  OrderFollowsReturns'
  BY <1>8
     DEF OrderFollowsReturns, Published, TypeOK, FetchAnswered
<1>9. ASSUME NEW p \in TypeScript, NEW c \in CallsOf(p), FetchFails(c)
      PROVE  OrderFollowsReturns'
  BY <1>9
     DEF OrderFollowsReturns, Published, TypeOK, FetchFails
<1>10. ASSUME NEW p \in TypeScript, NEW c \in CallsOf(p), Compile(c)
      PROVE  OrderFollowsReturns'
  BY <1>10
     DEF OrderFollowsReturns, Published, TypeOK, Compile, Validate
<1>11. ASSUME NEW p \in TypeScript, NEW c \in CallsOf(p), Connect(c)
      PROVE  OrderFollowsReturns'
  BY <1>11
     DEF OrderFollowsReturns, Published, TypeOK, Connect
<1>12. ASSUME NEW p \in TypeScript, NEW c \in CallsOf(p), Connected(c)
      PROVE  OrderFollowsReturns'
  BY <1>12
     DEF OrderFollowsReturns, Published, TypeOK, Connected
<1>13. ASSUME NEW p \in TypeScript, NEW c \in CallsOf(p), ConnectFails(c)
      PROVE  OrderFollowsReturns'
  BY <1>13
     DEF OrderFollowsReturns, Published, TypeOK, ConnectFails
<1>14. ASSUME NEW p \in TypeScript, NEW c \in CallsOf(p), Send(c)
      PROVE  OrderFollowsReturns'
  BY <1>14
     DEF OrderFollowsReturns, Published, TypeOK, Send
<1>15. ASSUME NEW p \in TypeScript, NEW c \in CallsOf(p), BrokerAppends(c)
      PROVE  OrderFollowsReturns'
  <2>1. /\ before' = before /\ log' = Append(log, c) /\ log \in Seq(Calls)
        /\ Published \subseteq Calls /\ status[c] \in {"sending", "failed", "gone"}
    BY <1>15, LogAndQueuesHoldCalls DEF BrokerAppends, MessagesHaveCalls, TypeOK
  <2>2. c \notin before[c] /\ \A d \in Published : c \notin before[d]
    BY <2>1 DEF QueuesFollowReturns
  <2>. QED BY <2>1, <2>2, OrderedAppend
<1>16. ASSUME NEW p \in TypeScript, NEW c \in CallsOf(p), SendResolves(c)
      PROVE  OrderFollowsReturns'
  BY <1>16
     DEF OrderFollowsReturns, Published, TypeOK, SendResolves
<1>17. ASSUME NEW p \in TypeScript, NEW c \in CallsOf(p), SendRejects(c)
      PROVE  OrderFollowsReturns'
  BY <1>17
     DEF OrderFollowsReturns, Published, TypeOK, SendRejects
<1>18. ASSUME NEW p \in TypeScript, Close(p)
      PROVE  OrderFollowsReturns'
  BY <1>18
     DEF OrderFollowsReturns, Published, TypeOK, Close
<1>19. ASSUME NEW p \in TypeScript, Disconnected(p)
      PROVE  OrderFollowsReturns'
  BY <1>19
     DEF OrderFollowsReturns, Published, TypeOK, Disconnected
<1>20. ASSUME NEW p \in Producers, Crash(p)
      PROVE  OrderFollowsReturns'
  BY <1>20
     DEF OrderFollowsReturns, Published, TypeOK, Crash
<1>21. CASE UNCHANGED vars
  BY <1>21
     DEF OrderFollowsReturns, Published, TypeOK, vars
<1>22. ASSUME NEW p \in Python, PythonStep(p)
       PROVE  OrderFollowsReturns'
  BY <1>2, <1>3, <1>4, <1>5, <1>6, <1>22 DEF PythonStep
<1>23. ASSUME NEW p \in TypeScript, TypeScriptStep(p)
       PROVE  OrderFollowsReturns'
  BY <1>7, <1>8, <1>9, <1>10, <1>11, <1>12, <1>13, <1>14, <1>15, <1>16, <1>17,
     <1>18, <1>19, <1>23 DEF TypeScriptStep
<1>. QED BY <1>1, <1>20, <1>21, <1>22, <1>23 DEF Next

LEMMA NextProducerInv == ProducerInv /\ [Next]_vars => ProducerInv'
BY NextTypeOK, NextCallsHaveArguments, NextMessagesHaveCalls, NextFlushingWasQueued,
   NextReturnedIsAccountedFor, NextValidatorsAreRegistered, NextQueuesFollowReturns,
   NextOrderFollowsReturns
   DEF ProducerInv

LEMMA AlwaysProducerInv == Spec => []ProducerInv
BY InitProducerInv, NextProducerInv, PTL DEF Spec

\* Only five actions touch a queue or the log.
LEMMA MessagesMove ==
    ASSUME [Next]_vars
    PROVE  \/ \E p \in Python, c \in Calls, pay \in Payloads, fl \in BOOLEAN :
                 Produce(c, p, pay, fl)
           \/ \E p \in Python : Deliver(p) \/ GiveUp(p)
           \/ \E c \in Calls : BrokerAppends(c)
           \/ \E p \in Producers : Crash(p)
           \/ log' = log /\ queue' = queue
BY DEF Next, PythonStep, TypeScriptStep, Register, FlushReturns, Exit, StartProduce,
       FetchAnswered, FetchFails, Compile, Connect, Connected, ConnectFails, Send,
       SendResolves, SendRejects, Close, Disconnected, CallsOf, brokerVars, vars

LEMMA NextMessagesAreSingle ==
    ProducerInv /\ MessagesAreSingle /\ [Next]_vars => MessagesAreSingle'
<1> SUFFICES ASSUME ProducerInv, MessagesAreSingle, [Next]_vars PROVE MessagesAreSingle'
  OBVIOUS
<1> USE DEF Producers
<1>0. /\ TypeOK /\ log \in Seq(Calls) /\ \A p \in Producers : queue[p] \in Seq(Calls)
      /\ Published \subseteq Calls
  BY LogAndQueuesHoldCalls DEF ProducerInv, TypeOK
<1>1. ASSUME NEW p \in Python, NEW c \in Calls, NEW pay \in Payloads,
             NEW fl \in BOOLEAN, Produce(c, p, pay, fl)
      PROVE  MessagesAreSingle'
  <2>1. log' = log /\ status[c] = "idle"
    BY <1>1 DEF Produce, Begin, brokerVars
  <2>2. c \notin Published /\ c \notin ToSet(queue[p])
    BY <2>1, NoMessageYet
  <2>3. \/ queue' = queue
        \/ /\ queue'[p] = Append(queue[p], c)
           /\ \A q \in Producers \ {p} : queue'[q] = queue[q]
    <3>1. queue' = queue \/ queue' = [queue EXCEPT ![p] = Append(queue[p], c)]
      BY <1>1 DEF Produce, QueueMessage
    <3>. QED BY <1>0, <3>1 DEF TypeOK
  <2>4. IsInjective(Append(queue[p], c)) /\ ToSet(Append(queue[p], c)) = ToSet(queue[p]) \cup {c}
    BY <1>0, <2>2, AppendIsInjective, AppendSet DEF MessagesAreSingle
  <2>. QED BY <2>1, <2>2, <2>3, <2>4 DEF MessagesAreSingle, EventsAppearOnce, Published
<1>2. ASSUME NEW p \in Python, queue[p] # << >>
      PROVE  /\ Head(queue[p]) \in Calls \ Published
             /\ IsInjective(Tail(queue[p]))
             /\ ToSet(Tail(queue[p])) = ToSet(queue[p]) \ {Head(queue[p])}
             /\ \A q \in Producers \ {p} : Head(queue[p]) \notin ToSet(queue[q])
  <2>1. /\ Head(queue[p]) \in Calls /\ IsInjective(Tail(queue[p]))
        /\ ToSet(queue[p]) = {Head(queue[p])} \cup ToSet(Tail(queue[p]))
        /\ Head(queue[p]) \notin ToSet(Tail(queue[p]))
    BY <1>0, <1>2, TailSet, TailIsInjective DEF MessagesAreSingle
  <2>2. by[Head(queue[p])] = p
    BY <2>1 DEF ProducerInv, MessagesHaveCalls
  <2>3. \A q \in Producers \ {p} : Head(queue[p]) \notin ToSet(queue[q])
    BY <2>2 DEF ProducerInv, MessagesHaveCalls
  <2>. QED BY <2>1, <2>3 DEF MessagesAreSingle
<1>3. ASSUME NEW p \in Python, Deliver(p)
      PROVE  MessagesAreSingle'
  <2>1. /\ queue[p] # << >> /\ log' = Append(log, Head(queue[p]))
        /\ queue'[p] = Tail(queue[p])
        /\ \A q \in Producers \ {p} : queue'[q] = queue[q]
    BY <1>0, <1>3 DEF Deliver, TypeOK
  <2>2. /\ IsInjective(log') /\ ToSet(log') = Published \cup {Head(queue[p])}
    BY <1>0, <1>2, <2>1, AppendIsInjective, AppendSet
       DEF MessagesAreSingle, EventsAppearOnce, Published
  <2>. QED BY <1>2, <2>1, <2>2 DEF MessagesAreSingle, EventsAppearOnce, Published
<1>4. ASSUME NEW p \in Python, GiveUp(p)
      PROVE  MessagesAreSingle'
  <2>1. /\ queue[p] # << >> /\ log' = log
        /\ queue'[p] = Tail(queue[p])
        /\ \A q \in Producers \ {p} : queue'[q] = queue[q]
    BY <1>0, <1>4 DEF GiveUp, TypeOK
  <2>. QED BY <1>2, <2>1 DEF MessagesAreSingle, EventsAppearOnce, Published
<1>5. ASSUME NEW c \in Calls, BrokerAppends(c)
      PROVE  MessagesAreSingle'
  <2>1. c \in sent /\ log' = Append(log, c) /\ queue' = queue
    BY <1>5 DEF BrokerAppends
  <2>2. c \notin Published /\ \A q \in Producers : c \notin ToSet(queue[q])
    BY <2>1 DEF ProducerInv, MessagesHaveCalls
  <2>3. IsInjective(log') /\ ToSet(log') = Published \cup {c}
    BY <1>0, <2>1, <2>2, AppendIsInjective, AppendSet
       DEF MessagesAreSingle, EventsAppearOnce, Published
  <2>. QED BY <2>1, <2>2, <2>3 DEF MessagesAreSingle, EventsAppearOnce, Published
<1>6. ASSUME NEW p \in Producers, Crash(p)
      PROVE  MessagesAreSingle'
  <2>1. log' = log /\ queue'[p] = << >> /\ \A q \in Producers \ {p} : queue'[q] = queue[q]
    BY <1>0, <1>6 DEF Crash, TypeOK
  <2>2. IsInjective(<< >>) /\ ToSet(<< >>) = {}
    BY EmptySet DEF IsInjective
  <2>. QED BY <2>1, <2>2 DEF MessagesAreSingle, EventsAppearOnce, Published
<1>7. CASE log' = log /\ queue' = queue
  BY <1>7 DEF MessagesAreSingle, EventsAppearOnce, Published
<1>. QED BY <1>1, <1>3, <1>4, <1>5, <1>6, <1>7, MessagesMove

-----------------------------------------------------------------------------
(***************************************************************************)
(* The theorems.                                                           *)
(***************************************************************************)
\* The state of both producers and their schema clients keeps its shape; in
\* particular the local queue never exceeds its capacity (producer.py 157-165).
THEOREM TypeCorrect == Spec => []TypeOK
BY AlwaysProducerInv, PTL DEF ProducerInv

\* A call of produce() that raised before its message was handed over (producer.py
\* 125-131, producer.ts 180-182) has published nothing and never will.
THEOREM RaisedStaysUnpublished == Spec => []RaisedIsNotPublished
<1>1. ProducerInv => RaisedIsNotPublished
  BY DEF ProducerInv, MessagesHaveCalls, CallsHaveArguments, RaisedIsNotPublished
<1>. QED BY <1>1, AlwaysProducerInv, PTL

\* Every event produce() returned for is in the log, or a Python one is queued,
\* was dropped by the delivery timeout or died with its process; leaving the with
\* block loses none (producer.py 194-209, producer.ts 231-236).
THEOREM ReturnedStaysAccountedFor == Spec => []ReturnedIsAccountedFor
BY AlwaysProducerInv, PTL DEF ProducerInv

\* A malformed payload never reaches the bus (producer.py 136): whichever cached,
\* fetched or concurrently compiled validator let it pass, an event in the log is
\* accepted by a version that is registered, under the rules of the runtime that
\* sent it.
THEOREM BusStaysConformant == Spec => []BusConforms
<1>1. ProducerInv => BusConforms
  BY LogAndQueuesHoldCalls DEF ProducerInv, ValidatorsAreRegistered, BusConforms, Conforms
<1>. QED BY <1>1, AlwaysProducerInv, PTL

\* Per-domain order (producer.py 33-37): in the log, an event follows those of the
\* calls of its producer that had returned when its own call began.
THEOREM OrderIsKept == Spec => []OrderFollowsReturns
BY AlwaysProducerInv, PTL DEF ProducerInv

\* One call, one event (producer.py 87-88): no event stands twice in the log,
\* whatever was given up, rejected, crashed or appended after its rejection.
THEOREM PublishedOnce == Spec => []EventsAppearOnce
<1>1. Init => MessagesAreSingle
  BY EmptySet DEF Init, MessagesAreSingle, EventsAppearOnce, Published, IsInjective
<1>2. MessagesAreSingle => EventsAppearOnce
  BY DEF MessagesAreSingle
<1>. QED BY <1>1, <1>2, NextMessagesAreSingle, AlwaysProducerInv, PTL DEF Spec

==============================================================================
