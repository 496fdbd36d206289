--------------------------- MODULE EventProducer ---------------------------
(***************************************************************************)
(* The producers of both SDKs (producer.py, producer.ts) with the schema   *)
(* registry client that each owns (schema_registry.py, schema-registry.ts) *)
(* and its cache of validators: one event type, one partition key, so one  *)
(* partition.  A Python producer is used by one thread at a time; its      *)
(* produce() hands the message to librdkafka's local queue.  A TypeScript  *)
(* producer runs any number of calls at once, cut at their awaits.         *)
(***************************************************************************)
EXTENDS Integers, Sequences, SequencesExt

CONSTANTS Python,      \* the Python producers
          TypeScript,  \* the TypeScript producers
          Versions,    \* versions of the event type's schema
          Payloads,    \* what the validators can tell of the payloads
          None,        \* no version, no payload
          QueueSize,   \* capacity of librdkafka's local queue
          MaxCalls     \* bound on the produce calls of all producers together

ASSUME ProducerAssumption ==
    /\ Python \cap TypeScript = {}
    /\ Payloads \subseteq [fits: SUBSET Versions, formats: BOOLEAN]
    /\ None \notin Versions
    /\ QueueSize \in Nat \ {0}
    /\ MaxCalls \in Nat

Producers == Python \cup TypeScript

Calls == 1 .. MaxCalls

VARIABLES
    registered,  \* the versions registered under the subject, the latest last
    cache,       \* cache[p]: the version p's cached validator was compiled from
    compiled,    \* compiled[p]: the versions whose $id p's Ajv knows
    status,      \* status[c]: where produce call c is
    by,          \* by[c]: the producer that c was made on
    payload,     \* payload[c]: the payload of c
    flush,       \* flush[c]: the flush argument of c
    fetched,     \* fetched[c]: what the registry answered to c
    queue,       \* queue[p]: librdkafka's local queue of p
    sent,        \* TypeScript calls whose message is on its way to the broker
    connected,   \* connected[p]: the flag of TypeScript producer p
    client,      \* client[p]: its kafkajs producer: "down", "up", "closing"
    closing,     \* the TypeScript producers whose close() is under way
    log,         \* the partition: the calls whose events it holds
    given_up,    \* calls whose message librdkafka dropped after its timeout
    life,        \* life[p]: "alive", "exited" (closed by the with block), "crashed"
    before       \* before[c]: calls of c's producer that returned before c began

cacheVars == <<cache, compiled, fetched>>
callVars == <<by, payload, flush, before>>
clientVars == <<connected, client, closing>>
brokerVars == <<log, given_up, life>>
vars == <<registered, cacheVars, status, callVars, queue, sent, clientVars,
          brokerVars>>

Statuses == {"idle", "fetching", "compiling", "ready", "connecting", "connected",
             "sending", "flushing", "returned", "raised", "failed", "gone"}
\* "raised": the caller has an exception and nothing was sent; "failed": send()
\* rejected, which leaves open what the broker did.
Ended == {"returned", "raised", "failed", "gone"}
Active(c) == status[c] \notin Ended \cup {"idle"}

PythonCall(c) == by[c] \in Python
CallsOf(p) == {c \in Calls : by[c] = p}
Latest == Last(registered)

\* The keywords of some versions accept the payload.  Python's validator has no
\* format checker, TypeScript's checks uuid and date-time too.
Accepts(p, v, pay) == v \in pay.fits /\ (p \in TypeScript => pay.formats)

Init ==
    /\ registered = << >>
    /\ cache = [p \in Producers |-> None]
    /\ compiled = [p \in Producers |-> {}]
    /\ status = [c \in Calls |-> "idle"]
    /\ by = [c \in Calls |-> None]
    /\ payload = [c \in Calls |-> None]
    /\ flush = [c \in Calls |-> FALSE]
    /\ fetched = [c \in Calls |-> None]
    /\ queue = [p \in Producers |-> << >>]
    /\ sent = {}
    /\ connected = [p \in TypeScript |-> FALSE]
    /\ client = [p \in TypeScript |-> "down"]
    /\ closing = {}
    /\ log = << >>
    /\ given_up = {}
    /\ life = [p \in Producers |-> "alive"]
    /\ before = [c \in Calls |-> {}]

Become(c, s) == status' = [status EXCEPT ![c] = s]

\* The call begins: its arguments, and what had returned by then.
Begin(c, p, pay, fl) ==
    /\ status[c] = "idle" /\ \A d \in 1 .. c - 1 : status[d] # "idle"
    /\ life[p] # "crashed"
    /\ by' = [by EXCEPT ![c] = p]
    /\ payload' = [payload EXCEPT ![c] = pay]
    /\ flush' = [flush EXCEPT ![c] = fl]
    /\ before' = [before EXCEPT ![c] = {d \in CallsOf(p) : status[d] = "returned"}]
-----------------------------------------------------------------------------
\* SchemaRegistry.register: a version the subject has keeps its place.  Nothing
\* here makes a version accept what the ones before it accepted.
Register(v) ==
    /\ v \notin ToSet(registered)
    /\ registered' = Append(registered, v)
    /\ UNCHANGED <<cacheVars, status, callVars, queue, sent, clientVars,
                   brokerVars>>
-----------------------------------------------------------------------------
\* The Python producer.
\* The version whose validator _validator returns: the cached one, else the
\* latest; None stands for a SchemaRegistryError.
Validators(p) ==
    IF cache[p] # None THEN {cache[p]}
    ELSE {None} \cup (IF registered = << >> THEN {} ELSE {Latest})

\* Seeded fault: the SDK's own queue grows without bound.
QueueMessageUnbounded(c, p) ==
    /\ queue' = [queue EXCEPT ![p] = Append(@, c)]
    /\ Become(c, IF flush'[c] THEN "flushing" ELSE "returned")

\* Seeded fault: an error after the message was queued is raised as well.
QueueMessageThenRaise(c, p) ==
    /\ Len(queue[p]) < QueueSize
    /\ queue' = [queue EXCEPT ![p] = Append(@, c)]
    /\ status' \in {[status EXCEPT ![c] = s] : s \in {"returned", "raised"}}

\* Producer.produce of librdkafka on a full queue raises BufferError, on the
\* others an error may come back too; both leave the queue alone.
QueueMessage(c, p) ==
    \/ /\ Become(c, "raised")
       /\ UNCHANGED queue
    \/ /\ Len(queue[p]) < QueueSize
       /\ queue' = [queue EXCEPT ![p] = Append(@, c)]
       /\ Become(c, IF flush'[c] THEN "flushing" ELSE "returned")

\* produce() up to the local queue.
Produce(c, p, pay, fl) ==
    /\ \A d \in CallsOf(p) : ~Active(d)
    /\ Begin(c, p, pay, fl)
    /\ \E v \in Validators(p) :
          /\ cache' = [cache EXCEPT ![p] = v]
          /\ IF v # None /\ Accepts(p, v, pay)
             THEN QueueMessage(c, p)
             ELSE Become(c, "raised") /\ UNCHANGED queue
    /\ UNCHANGED <<registered, compiled, fetched, sent, clientVars, brokerVars>>

\* Seeded fault: flush() waits for the event itself.
FlushReturnsDelivered(c) ==
    /\ status[c] = "flushing"
    /\ Contains(log, c)
    /\ Become(c, "returned")
    /\ UNCHANGED <<registered, cacheVars, callVars, queue, sent, clientVars,
                   brokerVars>>

\* flush() inside produce() waits until the queue is empty.
FlushReturns(c) ==
    /\ status[c] = "flushing"
    /\ queue[by[c]] = << >>
    /\ Become(c, "returned")
    /\ UNCHANGED <<registered, cacheVars, callVars, queue, sent, clientVars,
                   brokerVars>>

\* Seeded fault: without enable.idempotence a message that has to be sent again comes
\* after the ones behind it.
DeliverRetried(p) ==
    /\ \E i \in DOMAIN queue[p] :
          /\ log' = Append(log, queue[p][i])
          /\ queue' = [queue EXCEPT ![p] = RemoveAt(@, i)]
    /\ UNCHANGED <<registered, cacheVars, status, callVars, sent, clientVars,
                   given_up, life>>

\* librdkafka delivers in order, once (enable.idempotence, acks all) ...
Deliver(p) ==
    /\ queue[p] # << >>
    /\ log' = Append(log, Head(queue[p]))
    /\ queue' = [queue EXCEPT ![p] = Tail(@)]
    /\ UNCHANGED <<registered, cacheVars, status, callVars, sent, clientVars,
                   given_up, life>>

\* ... or gives the message up after message.timeout.ms; the delivery report
\* would say so, but no callback is installed.
GiveUp(p) ==
    /\ queue[p] # << >>
    /\ given_up' = given_up \cup {Head(queue[p])}
    /\ queue' = [queue EXCEPT ![p] = Tail(@)]
    /\ UNCHANGED <<registered, cacheVars, status, callVars, sent, clientVars,
                   log, life>>
-----------------------------------------------------------------------------
\* The TypeScript producer.
\* Seeded fault: the payload is checked only when the schema was just fetched.
ValidateNothing(c, v, pay) == Become(c, "ready")

\* What becomes of c once it has the validator of version v.
Validate(c, v, pay) ==
    Become(c, IF Accepts(by'[c], v, pay) THEN "ready" ELSE "raised")

\* produce() up to the first await: getValidator looks at the cache.
StartProduce(c, p, pay) ==
    /\ Begin(c, p, pay, FALSE)
    /\ IF cache[p] # None THEN Validate(c, cache[p], pay)
                          ELSE Become(c, "fetching")
    /\ UNCHANGED <<registered, cacheVars, queue, sent, clientVars, brokerVars>>

\* The registry answers with the latest version.
FetchAnswered(c) ==
    /\ status[c] = "fetching"
    /\ registered # << >>
    /\ fetched' = [fetched EXCEPT ![c] = Latest]
    /\ Become(c, "compiling")
    /\ UNCHANGED <<registered, cache, compiled, callVars, queue, sent,
                   clientVars, brokerVars>>

FetchFails(c) ==
    /\ status[c] = "fetching"
    /\ Become(c, "raised")
    /\ UNCHANGED <<registered, cacheVars, callVars, queue, sent, clientVars,
                   brokerVars>>

\* After the await.  Ajv refuses a document whose $id it knows from a call that
\* fetched at the same time: the same version, or another that kept the $id.
\* Otherwise the validator enters the cache, whatever is there, and the payload is
\* validated.
Compile(c) ==
    LET p == by[c]  v == fetched[c] IN
    /\ status[c] = "compiling"
    /\ fetched' = [fetched EXCEPT ![c] = None]
    /\ UNCHANGED callVars
    /\ \/ /\ compiled[p] # {}
          /\ Become(c, "raised") /\ UNCHANGED <<cache, compiled>>
       \/ /\ v \notin compiled[p]
          /\ compiled' = [compiled EXCEPT ![p] = @ \cup {v}]
          /\ cache' = [cache EXCEPT ![p] = v]
          /\ Validate(c, v, payload[c])
    /\ UNCHANGED <<registered, queue, sent, clientVars, brokerVars>>

\* connect(): nothing to do, or the broker is asked.
Connect(c) ==
    /\ status[c] = "ready"
    /\ Become(c, IF connected[by[c]] THEN "connected" ELSE "connecting")
    /\ UNCHANGED <<registered, cacheVars, callVars, queue, sent, clientVars,
                   brokerVars>>

Connected(c) ==
    /\ status[c] = "connecting"
    /\ connected' = [connected EXCEPT ![by[c]] = TRUE]
    /\ client' = [client EXCEPT ![by[c]] = "up"]
    /\ Become(c, "connected")
    /\ UNCHANGED <<registered, cacheVars, callVars, queue, sent, closing,
                   brokerVars>>

ConnectFails(c) ==
    /\ status[c] = "connecting"
    /\ Become(c, "raised")
    /\ UNCHANGED <<registered, cacheVars, callVars, queue, sent, clientVars,
                   brokerVars>>

\* send(): a kafkajs producer that is closed, or about to be, refuses.
Send(c) ==
    /\ status[c] = "connected"
    /\ IF client[by[c]] = "up"
       THEN Become(c, "sending") /\ sent' = sent \cup {c}
       ELSE Become(c, "raised") /\ UNCHANGED sent
    /\ UNCHANGED <<registered, cacheVars, callVars, queue, clientVars,
                   brokerVars>>

\* The broker appends a message on its way, once; it may do so after send() has
\* rejected.
BrokerAppends(c) ==
    /\ c \in sent
    /\ sent' = sent \ {c}
    /\ log' = Append(log, c)
    /\ UNCHANGED <<registered, cacheVars, status, callVars, queue, clientVars,
                   given_up, life>>

SendResolves(c) ==
    /\ status[c] = "sending" /\ Contains(log, c)
    /\ Become(c, "returned")
    /\ UNCHANGED <<registered, cacheVars, callVars, queue, sent, clientVars,
                   brokerVars>>

\* send() rejects; its message is in the log, is lost, or still on its way.
SendRejects(c) ==
    /\ status[c] = "sending"
    /\ Become(c, "failed")
    /\ sent' \in {sent, sent \ {c}}
    /\ UNCHANGED <<registered, cacheVars, callVars, queue, clientVars,
                   brokerVars>>

\* close(): nothing when not connected; the flag falls after the await.
Close(p) ==
    /\ life[p] = "alive" /\ connected[p] /\ p \notin closing
    /\ closing' = closing \cup {p}
    /\ client' = [client EXCEPT ![p] = "closing"]
    /\ UNCHANGED <<registered, cacheVars, status, callVars, queue, sent,
                   connected, brokerVars>>

Disconnected(p) ==
    /\ p \in closing
    /\ closing' = closing \ {p}
    /\ client' = [client EXCEPT ![p] = "down"]
    /\ connected' = [connected EXCEPT ![p] = FALSE]
    /\ UNCHANGED <<registered, cacheVars, status, callVars, queue, sent, brokerVars>>
-----------------------------------------------------------------------------
\* The end of a producer.
Idle(p) == life[p] = "alive" /\ \A c \in CallsOf(p) : ~Active(c)

\* The process dies: its calls and its local queue go with it.
Crash(p) ==
    /\ life[p] # "crashed"
    /\ life' = [life EXCEPT ![p] = "crashed"]
    /\ status' = [c \in Calls |->
                     IF by[c] = p /\ Active(c) THEN "gone" ELSE status[c]]
    /\ queue' = [queue EXCEPT ![p] = << >>]
    /\ UNCHANGED <<registered, cacheVars, callVars, sent, clientVars, log, given_up>>

\* Seeded fault: __exit__ does not flush.
ExitUnflushed(p) ==
    /\ Idle(p)
    /\ life' = [life EXCEPT ![p] = "exited"]
    /\ queue' = [queue EXCEPT ![p] = << >>]
    /\ UNCHANGED <<registered, cacheVars, status, callVars, sent, clientVars,
                   log, given_up>>

\* The with block ends: close() waits until the queue is empty.  It only flushes:
\* the object can be used again.
Exit(p) ==
    /\ Idle(p) /\ queue[p] = << >>
    /\ life' = [life EXCEPT ![p] = "exited"]
    /\ UNCHANGED <<registered, cacheVars, status, callVars, queue, sent,
                   clientVars, log, given_up>>
-----------------------------------------------------------------------------
PythonStep(p) ==
    \/ \E c \in Calls, pay \in Payloads, fl \in BOOLEAN : Produce(c, p, pay, fl)
    \/ \E c \in CallsOf(p) : FlushReturns(c)
    \/ Deliver(p) \/ GiveUp(p) \/ Exit(p)

TypeScriptStep(p) ==
    \/ \E c \in Calls, pay \in Payloads : StartProduce(c, p, pay)
    \/ \E c \in CallsOf(p) :
          \/ FetchAnswered(c) \/ FetchFails(c) \/ Compile(c)
          \/ Connect(c) \/ Connected(c) \/ ConnectFails(c)
          \/ Send(c) \/ BrokerAppends(c) \/ SendResolves(c) \/ SendRejects(c)
    \/ Close(p) \/ Disconnected(p)

Next ==
    \/ \E v \in Versions : Register(v)
    \/ \E p \in Python : PythonStep(p)
    \/ \E p \in TypeScript : TypeScriptStep(p)
    \/ \E p \in Producers : Crash(p)

\* An await of fetch, connect or send is settled in the end; librdkafka delivers
\* each message or gives it up.  Nobody has to call, to close or to register.
Fairness ==
    /\ \A c \in Calls :
          /\ WF_vars(FlushReturns(c))
          /\ WF_vars(FetchAnswered(c) \/ FetchFails(c))
          /\ WF_vars(Compile(c))
          /\ WF_vars(Connect(c))
          /\ WF_vars(Send(c))
          /\ WF_vars(Connected(c) \/ ConnectFails(c))
          /\ WF_vars(SendResolves(c) \/ SendRejects(c))
    /\ \A p \in Python : WF_vars(Deliver(p) \/ GiveUp(p))

Spec == Init /\ [][Next]_vars
FairSpec == Spec /\ Fairness
-----------------------------------------------------------------------------
Published == ToSet(log)

TypeOK ==
    /\ registered \in Seq(Versions) /\ IsInjective(registered)
    /\ cache \in [Producers -> Versions \cup {None}]
    /\ compiled \in [Producers -> SUBSET Versions]
    /\ fetched \in [Calls -> Versions \cup {None}]
    /\ status \in [Calls -> Statuses]
    /\ payload \in [Calls -> Payloads \cup {None}]
    /\ flush \in [Calls -> BOOLEAN]
    /\ before \in [Calls -> SUBSET Calls]
    /\ queue \in [Producers -> Seq(Calls)]
    /\ \A p \in Producers : Len(queue[p]) <= QueueSize
    /\ sent \subseteq Calls /\ given_up \subseteq Calls
    /\ connected \in [TypeScript -> BOOLEAN]
    /\ client \in [TypeScript -> {"down", "up", "closing"}]
    /\ closing \subseteq TypeScript
    /\ life \in [Producers -> {"alive", "exited", "crashed"}]
    /\ by \in [Calls -> Producers \cup {None}]
    /\ log \in Seq(Calls)

\* A caller that was told "not sent" may produce again without a second copy of
\* the event ever reaching the bus: whatever produce() of Python raises, and what
\* produce() of TypeScript raises before send() (producer.py 125-131,
\* producer.ts 180-182), published nothing, then or later.
RaisedIsNotPublished ==
    \A c \in Calls : status[c] = "raised" =>
       c \notin Published \cup sent \cup ToSet(queue[by[c]])

\* No event that produce() answered for disappears but in a crash or by the
\* delivery timeout: TypeScript's is in the log, Python's is there or queued --
\* also after the with block has closed the producer (producer.py 194-209,
\* producer.ts 231-236).
ReturnedIsAccountedFor ==
    \A c \in Calls : status[c] = "returned" =>
       \/ c \in Published
       \/ PythonCall(c) /\ (c \in ToSet(queue[by[c]]) \cup given_up
                            \/ life[by[c]] = "crashed")

\* "A malformed payload never reaches the bus" (producer.py 136), in the sense of
\* the producer's own validator: however its fetches, compilations and the
\* registrations overlap, an event in the log is accepted by a registered version,
\* with its formats when a TypeScript producer sent it.  It need not be accepted by
\* the latest version, nor by TypeScript's validator when Python sent it.
BusConforms ==
    \A c \in Published : \E v \in ToSet(registered) : Accepts(by[c], v, payload[c])

\* Per-domain order (producer.py 33-37): an event produced after another call of
\* the same producer had returned does not overtake that call's event.
OrderFollowsReturns ==
    \A i, j \in DOMAIN log : log[i] \in before[log[j]] => i < j

\* A producer never blocks silently (producer.py 29-31): every call returns or
\* raises, also one that flushes while the broker is away.
ProduceEnds ==
    \A c \in Calls : Active(c) ~> status[c] \in Ended

\* Why the properties above hold.  A call that began has its arguments ...
CallsHaveArguments ==
    \A c \in Calls : status[c] # "idle" => by[c] \in Producers /\ payload[c] \in Payloads

\* ... a message is queued, on its way or in the log, and that of a call which
\* got that far ...
MessagesHaveCalls ==
    /\ \A c \in sent : status[c] \in {"sending", "failed", "gone"} /\ c \notin Published
    /\ \A c \in Published :
          status[c] \in {"sending", "flushing", "returned", "failed", "gone"}
    /\ \A p \in Producers : \A c \in ToSet(queue[p]) :
          by[c] = p /\ status[c] \in {"flushing", "returned"}

\* ... a call that flushes has queued its message ...
FlushingWasQueued ==
    \A c \in Calls : status[c] = "flushing" =>
       PythonCall(c) /\ c \in Published \cup ToSet(queue[by[c]]) \cup given_up

\* ... every validator is that of a registered version, and no message passed
\* without one ...
Validated == {"ready", "connecting", "connected", "sending", "flushing", "returned"}

Conforms(c) == \E v \in ToSet(registered) : Accepts(by[c], v, payload[c])

ValidatorsAreRegistered ==
    /\ \A p \in Producers : cache[p] # None => cache[p] \in ToSet(registered)
    /\ \A c \in Calls :
        /\ status[c] = "compiling" => fetched[c] \in ToSet(registered)
        /\ status[c] \in Validated \/ c \in Published \cup sent => Conforms(c)

\* ... and neither a queue nor the log holds an event before one that had
\* returned when its call began.
QueuesFollowReturns ==
    /\ \A c \in Calls : \A d \in before[c] : status[d] = "returned" /\ by[d] = by[c]
    /\ \A c \in Calls : status[c] # "idle" => c \notin before[c]
    /\ \A c \in Published : PythonCall(c) => before[c] \cap ToSet(queue[by[c]]) = {}
    /\ \A p \in Producers : \A i, j \in DOMAIN queue[p] :
          queue[p][i] \in before[queue[p][j]] => i < j

\* One call puts its event on the topic at most once (producer.py 87-88: an
\* idempotent producer): none is sent by librdkafka after it was delivered, and none
\* by kafkajs after the broker has appended it.
EventsAppearOnce == IsInjective(log)

\* ... because a message is in one place, once: in a queue, or in the log.
MessagesAreSingle ==
    /\ EventsAppearOnce
    /\ \A p \in Producers : IsInjective(queue[p]) /\ ToSet(queue[p]) \cap Published = {}

ProducerInv ==
    /\ TypeOK /\ CallsHaveArguments /\ MessagesHaveCalls /\ FlushingWasQueued
    /\ ValidatorsAreRegistered /\ QueuesFollowReturns
    /\ ReturnedIsAccountedFor /\ OrderFollowsReturns

\* What the flush argument promises (producer.py 126-127): produce() blocks until
\* the broker has acknowledged the event.  It does not hold.
FlushedIsAcknowledged ==
    \A c \in Calls : flush[c] /\ status[c] = "returned" =>
       c \in Published \/ life[by[c]] = "crashed"
=============================================================================
