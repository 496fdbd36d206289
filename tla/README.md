# A TLA+ model of trustlist-core

TrustList collectors observe domains and publish each observation as an event;
consumers validate, deduplicate and persist it in a canonical PostgreSQL store,
which moderators and scoring later read, under an authentication layer that decides
who may do what. This directory holds a TLA+ model of that system: the producers and
consumers of both SDKs, the evidence writer behind a consumer, the canonical store, and
the auth service with its roles, sessions and audit trail. Paths are relative to `src/`.

## 1. The system

| Component | Source | State | Operations | What makes it correct |
|---|---|---|---|---|
| Python EventConsumer | `event-bus-sdk/trustlist_event_bus/consumer.py` | `_closed`, `_dedup`, librdkafka's assignment and fetch position; at the broker the group's committed offsets | `subscribe`, `poll_once`, `run`, `close`, `with` | at-least-once: no event is passed before a handler returned; no commit moves the group back; a repeat only after eviction; every valid event is passed; `close` ends `run` |
| TypeScript EventConsumer | `event-bus-sdk/typescript/src/consumer.ts` | subscriptions, the handler `Map` of a run, the dedup store, kafkajs' fetch position | `subscribe`, `run`, `processMessage`, `close` | the same promise, though a process goes on after every failure |
| Dedup stores | `consumer.py` 83-114, `typescript/src/dedup-store.ts` | an `OrderedDict` / a `Map` of at most `capacity` keys | `seen`, `record` | the window is the most recently touched keys, the same in both runtimes |
| Evidence writer | `tests/smoke/evidence_writer.py` | rows of `domain`, `provenance`, `evidence`; an open transaction; `_results` | `write_evidence` = `_find_existing`, `_ensure_domain`, two INSERTs, commit; `handle` | no orphan rows, one pair per event and writer, results name stored rows, every write ends |
| Event producers | `.../producer.py`, `typescript/src/producer.ts` | librdkafka's local queue; the `connected` flag and the kafkajs client | `produce`, `connect`, `close`, `with` | what raised is not on the bus; what returned is, or is accounted for; order per key; every call ends |
| Schema registry client | `.../schema_registry.py`, `typescript/src/schema-registry.ts` | a validator cache per client; Ajv's known `$id`s | `register`, `validate` | nothing reaches the bus that no registered version accepts |
| Idempotency key, envelope | `.../idempotency.py`, `envelope.py` and the `.ts` twins | none | `derive_idempotency_key`, `to_bytes`, `from_bytes` | one observation, one key, in both runtimes |
| Identity provider | `auth/trustlist_auth/provider.py`, `fake_provider.py`, `totp.py`, `passwords.py` | accounts, passwords, sessions, TOTP factors | register, authenticate, issue/revoke session, TOTP, disable | a disabled account keeps no session but those that its disabling could not reach |
| AuthService, audit trail | `auth/trustlist_auth/service.py`, `audit.py` | none of its own: the provider plus the caller's transaction; rows of `auth_audit_event` | the provider's operations, each with its audit row | a persisted row tells of what really happened |
| RoleStore, RBAC | `auth/trustlist_auth/role_store.py`, `rbac.py` | rows of `user_role_assignment`; three static catalogues | grant, revoke, live roles, `resolve_permissions` | the trail and the roles agree; a permission rests on a recorded grant; governance roles confer nothing yet |
| Token signer | `auth/trustlist_auth/tokens.py` | none | issue, verify | expiry |
| Canonical data model | `data-model/` | fifteen tables, keys, references, checks, rights; the view `evidence_current` | insert, update, delete as `trustlist_app`; refresh | records stay; role scopes follow accounts; the view never goes back |
| Observability | `observability/` | context variables | logging, spans, carriers | none that other state depends on |

**How they interact.** A producer validates an event against a schema (its client's
cached validator, or the registry) and hands it to Kafka: through librdkafka's local
queue in Python, by awaiting the broker in TypeScript. A consumer of a group polls its
partitions, decodes and validates, looks the idempotency key up in its in-memory
window, calls the handler, records the key and commits the offset. The handler is an
`EvidenceWriter`: one database transaction that looks the key up again and inserts what
is missing into the canonical store. Auth is separate from the bus: `AuthService` calls
the identity provider, which keeps its own state, and then inserts a row into the audit
trail in a transaction that its caller commits.

**What is hard.** On the consumer's side three memories are updated one after the other,
with a failure possible between any two: the store (transaction), the window (process
memory) and the offset (broker); the client's fetch position is a fourth, which the
Python SDK never sets back and kafkajs sets back on its own. Partitions change hands
while a handler runs; two writers interleave between statements. On the producer's side
a call may end before, while or after its message reaches the broker, and a validator
may be older than the schema. In auth one call spans two systems of which only one can
roll back, and the other takes no lock. `PROJECT.json` lists each hazard at its line.

## 2. What is modelled, and where

| Module | Models | Correspondence |
|---|---|---|
| `EventTopic` | what a consumer sees of a topic | an event is its key and the fate of its body: `valid`, `undecodable` (`_decode` raises) or schema-invalid (`validate` raises) |
| `DedupWindow` | `seen` and `record` of both runtimes as operators on a sequence, oldest first | `AfterSeen` = `move_to_end`; `AfterRecord` = insert or move, then `popitem(last=False)`; `MapTouch` = `delete`, `set` |
| `InMemoryDedupStore` | the two stores under the same calls | a reference history of touches, against which the window is compared |
| `EventConsumer` | the processes of a Python consumer group and the broker's side of it | below |
| `TypeScriptConsumer` | the same for a TypeScript group under kafkajs | below |
| `AtLeastOnceDelivery` | the abstract promise of both | per partition: handle the next event, then pass it |
| `EvidenceStore` | the abstract promise of the writers | an event is stored in one step, once per writer, or found |
| `EvidenceWriter` | writers on one READ COMMITTED store | one action per SQL statement |
| `Pipeline` | Python consumers whose handler is the writer | joint actions, `Writer == INSTANCE EvidenceWriter WITH Writers <- Consumers` |
| `EventProducer` | producers of both SDKs, each with its schema registry client | below |
| `CanonicalStore` | tables, rights and view of the canonical store | below |
| `Rbac` | the role catalogues and what a set of roles confers | constants and operators |
| `AuthService` | AuthService over provider, role store and audit trail | below |
| `MC*` | definitions for TLC | symmetry, constant functions, bounds on the instance |
| `*Proofs` | theorems | section 5 |

Operators headed "Seeded fault" belong to no specification. Each is the definition
that follows it with a plausible bug, kept so that the properties can be shown to
notice it.

### EventConsumer

`poll_once` is cut where somebody else can get in between, and nowhere else:

| Code | Actions |
|---|---|
| `poll` 202, error 206-211 | inside every fetch; `PollFails` |
| `_decode`, `validate` 213-217 | `Reject` (malformed, or the registry is unreachable) |
| `seen` 219, true | `SkipDuplicate`, then a commit |
| `seen` 219, false; `handler` 227 | `CallHandler`, then `HandlerReturns` or `HandlerRaises` |
| `record` 229 | part of `HandlerReturns`: it cannot fail and no one else sees it |
| `_commit` 230, 275-285 | `Commit`, `CommitRefused`, `CommitFails` (request or answer lost) |
| `run` 251-258 | `Start`, `LoopDone`, `LeaveLoop`; `processed` is counted in `Commit` |
| `close` 287-291 from another thread | `Close` |
| `__exit__` 297-304 | `Exit`, `LeaveLoop`: the consumer leaves the group and the object is gone |
| a caller that catches the exception and polls again | `Resume`, when `CallerResumes` |

`position[p]` is the fetch position: it moves at `poll`, is set to the committed
offset only when `p` is assigned, and is left alone by every failure. `Crash`,
`Rebalance` and `Publish` are the environment. Polls that time out or report the end
of a partition change nothing and are stuttering steps. `handled` and `mine` are
history variables; no action reads them.

External assumptions: the broker accepts a commit only from the member that owns the
partition (Kafka fences commits by group generation); a member learns its assignment
inside `poll`; offsets and logs are not lost by the broker.

### EvidenceWriter

Each SQL statement is an action that reads the committed rows and the writer's own.
`_find_existing` is `FindNone`, `ReturnExisting` or `RaiseMultipleFound`
(`one_or_none` on more than one row); `_ensure_domain` is `SelectDomain` and
`InsertDomain`, whose `ON CONFLICT DO NOTHING` waits for another open insert of the
same id; then `InsertProvenance`, `InsertEvidence`, `Commit`. Any of them may fail
(`RollBack`), and a commit may succeed unanswered (`CommitUnanswered`). `writer` in a
provenance row and `idempotency_key` in a result are history fields. Columns that
deduplication does not read, log lines and spans are left out.

Two assumptions: a transaction whose connection is lost is resolved, committed or
rolled back, before the same writer begins its next one; and the two lookups agree on
a key, because `provenance.method` holds the key verbatim behind a constant prefix.

### Pipeline

`poll_once` calling the handler is one step with `Handle`; the handler returning is
one step with `Return` of the writer; the handler raising is one step with the
transaction's failure; a crash inside the handler ends the transaction either way.
A rebalance inside the handler stops neither the consumer nor its transaction. This
is where `MultipleResultsFound` meets the offset: it is an exception of the handler.

### TypeScriptConsumer

| Code (`typescript/src/consumer.ts`) | Actions |
|---|---|
| `subscribe` against `run`: `run` builds its `Map` from the subscriptions that have finished, kafkajs has also taken on those in flight | `Run` |
| no handler for the topic: return without a commit | `SkipUnhandled` |
| `decode`, `validate` reject | `Reject` |
| `seen`, true; then the commit | `SkipDuplicate` |
| `seen`, false; `await handler` | `CallHandler`, then `HandlerResolves` or `HandlerRejects` |
| `record` | part of `HandlerResolves` |
| `await commitOffsets`, `onProcessed` | `Commit`, `CommitRefused`, `CommitRejects` (request or answer lost, or `onProcessed` throws after it) |
| `close`, when `connected`: `disconnect` waits for the message in `eachMessage`, then the flag falls | `Close`, `Disconnect` |

Every topic has one partition, so a member of `Partitions` is a topic. What a rejecting
`eachMessage` makes kafkajs do (`FeedAgain`) is external: it feeds the message again from
the position as it is, or restarts at the committed offsets; it never moves on. Rebalances
reach a member between two messages. The process goes on after every failure, and
`close` keeps the object's subscriptions and window for another `run`. `connected[c]` is
the flag that only `subscribe` sets, through `ensureConnected` (267-273): `Run` sets it when a
`subscribe` went before, leaves it down when none did, and also allows a `close` between
the two; without it a `close` leaves the loop alone.

### EventProducer

One event type and one partition key, hence one partition. A Python `produce` is one
step up to librdkafka's queue (`Produce`: `_validator` from cache or registry, validation,
`BufferError` or another error from `produce`), because one thread uses a producer and
nobody else sees anything in between; with `flush=True` it then waits (`FlushReturns`).
librdkafka delivers in order and once (`enable.idempotence`, `acks=all`) or gives up after
`message.timeout.ms` (`Deliver`, `GiveUp`: external). `Exit` is `close` at the end of the
`with` block; it only flushes, and the object can be used again. A TypeScript `produce` is cut at each `await`: `StartProduce`,
`FetchAnswered`/`FetchFails`, `Compile`, `Connect`, `Connected`/`ConnectFails`, `Send`,
`SendResolves`/`SendRejects`; `BrokerAppends` may come after a rejection. Any number of
calls run on one producer at once, so two first validations may both fetch; `Compile`
then writes the cache whatever is there, unless Ajv refuses the `$id` it already knows.
`Close` and `Disconnected` are cut at the await of `disconnect`.

A payload is reduced to what validators can tell of it: the versions whose keywords accept
it (`fits`), any set of them, because nothing in the SDK sets a compatibility level or
asks for one; and whether its `uuid` and `date-time` strings are well formed (`formats`).
The runtimes differ in the second (`Accepts`): Python's `Draft202012Validator` has no format
checker (`schema_registry.py` 137), TypeScript's Ajv checks formats (`addFormats`,
`schema-registry.ts` 97-98). Ajv knows documents by `$id`: a document of a version
compiled before is refused, one of another version too if it kept the `$id`, so `Compile`
allows both. `register_all` is a sequence of `Register` steps. Trace context, envelope fields
and the partitioner are left out; `before` is history.

### CanonicalStore

A row is a record of those columns that some key, reference, check or the view looks at.
The tables are constrained by the `UniqueKeys` and `References` of migration 0001 and by
the checks that relate columns (`CustomerRequired`); `Insert`, `Update`, `Delete` are what
`trustlist_app` may do (672-681 withdraw UPDATE and DELETE on five tables). A statement is
one step: PostgreSQL's key checks lock the rows they look at. A refresh of
`evidence_current` is two, `BeginRefresh` and `EndRefresh`, because it reads a snapshot
while others write; it is run by an external maintenance role, one refresh at a time.

### AuthService

Callers of one process run concurrently; each has a database transaction that it commits
or rolls back whenever it likes (`Commit`, `RollBack`), which is what `service.py` leaves to
them. A call is cut at each access of the provider to an account or to its table of
sessions, because nothing there takes a lock, and at each SQL statement:

| Code | Actions |
|---|---|
| `issue_session` of the provider: the check 223-225, then the store 235 | `IssueSession`, `StoreSession` |
| `disable_account`: the flag 295, then the sweep 296 | `DisableAccount`, `RevokeAllSessions` |
| `change_password`, `revoke_role`: the change, then the sweep | `ChangePassword` or `RevokeRole`, `RevokeAllSessions` |
| `enrol_totp`, `verify_totp`: the check, then the store | `EnrolTotp` or `VerifyTotp`, `StoreTotp` |
| `revoke_session`, of a session or of an identifier the provider does not know | `RevokeSession` (the unknown one with `s = None`) |
| `authenticate`, `assign_role` | `Authenticate`, `AssignRole` |
| `AuditTrail.record`, its INSERT failing | `Record`, `RecordFails` |

A sweep iterates over the live dictionary of sessions, so a session stored meanwhile makes
it raise with any part of the sessions revoked (`cut` in `StoreSession`). What the provider
did is never undone. `Register`, `IssueSession`, `StoreSession` and `Expire` are seen by the
provider alone. `revokes[c]` holds the rows that an UPDATE of `c` has locked; a second
UPDATE waits (`RowLocked`). A failed INSERT leaves the transaction aborted. `has_permission`
is `ResolvePermissions` of `LiveRoles`, in the catalogue of whatever archetype its caller
names; an identifier that this catalogue lacks is `UnknownRole`, that is no permission. `escaped`
is history, as are `call`, `grant` and `ended` in an audit event.

Assumptions: one access to a Python object or dictionary is atomic. Hashing, TOTP
arithmetic and tokens are reduced to a right or a wrong answer. A caller rolls back after an
exception of a call that had begun to change something, but for a failed login, which it may
commit; an exception of the audit sink, after the row is inserted, it may answer either way.

## 3. The runs

| Run | Instance | Shows |
|---|---|---|
| `dedup_store` | 4 keys, capacities 1 to 3, 6 touches | `WindowIsMostRecent`: the window is exactly the most recently touched keys; `RuntimesAgree` |
| `consumer_exits` | 2 consumers, 2 partitions, 3 events over 2 keys, in one partition or both, valid or undecodable, window of 1, 2 faults, caller exits on exception | `NoEventSkipped`, the refinement `DeliversAtLeastOnce`, and under fairness `EveryValidEventPassed` and `CloseEndsRun` |
| `consumer_resumes` | 2 consumers, 2 partitions, 2 events each, window of 2, `max_events` 2, 2 faults, caller resumes | what still holds: `CommitFollowsSuccess`, `CommittedNeverRetreats`, `RepeatsOnlyAfterEviction` |
| `consumer_skips` | 1 consumer, 2 events, 1 fault, caller resumes | `NoEventSkipped` is violated (section 6) |
| `ts_consumer` | 2 TypeScript consumers, 2 topics, 2 events over 2 keys, window of 1, 2 faults | `DeliversAtLeastOnce`, `RepeatsOnlyAfterEviction`, and under fairness `ServedEventsPassed` and `CloseEndsLoop` |
| `evidence_writers` | 2 writers, 2 keys, 1 domain, 4 row ids | the refinement `WritesAreAtomic`, `NoOrphans`, `ResultsAreStored`, `OnePairPerWriter`, and under fairness `WriteEnds` |
| `pipeline` | 2 consumers that write, 2 keys, 2 events, window of 1, 3 faults | `PassedEventsStored`, `WindowKeysAreStored` |
| `pipeline_poisoned` | 2 consumers, 1 event, 2 faults | `StoredEventPassed` is violated (section 6) |
| `producers` | a Python and a TypeScript producer, 2 schema versions, payloads that fit one of them with good or bad formats, queue of 2, 3 calls | `RaisedIsNotPublished`, `ReturnedIsAccountedFor`, `BusConforms`, `OrderFollowsReturns`, and under fairness `ProduceEnds` |
| `producer_loses` | a Python producer, 2 calls | `FlushedIsAcknowledged` is violated (section 6) |
| `canonical_store` | 1 domain, pool, account and customer, 2 ids, urls and times, 5 rows | `RoleScopeFollowsAccount`, `RecordsStay`, `ViewNeverRegresses` |
| `auth` | 2 callers, a brand customer and a member of the Foundation, 2 customers, 1 session, 2 roles, 3 recorded calls | `AuditRowsReflectActions`, `DisabledHasNoSession`, `TrailMatchesRoles`, `PermissionsAreGranted`, `NobodyGoverns` |

**Bounds.** `MaxLog` bounds a partition, `MaxFaults` the crashes, failures, rebalances
and closes together, `MaxTouches` the calls of the window run, `RowIds` the provenance
ids. Three events on two keys give an event, its double, and one behind it that a
wrong commit could pass or a window of one could have evicted. Two faults suffice for
the shapes that matter: a failure followed by a crash, a rebalance in a handler
followed by a failed commit; `pipeline` takes three, for a crash or lost answer after
a store that is already doubled. Four row ids are what two writers can insert for two
keys: the bound never refuses an insert. In `EventConsumer` `MaxEvents` is `run`'s
argument and limited in one run only, because it adds a counter to every state; in
`TypeScriptConsumer` it bounds the events of all topics together; two faults there are
two closes of one object, or a close and a failure. Three calls of
`produce` on a queue of two are a queue that holds two events to reorder, and a third that
finds it full, follows or races them. Five rows of the canonical store hold two
observations with what they refer to, or an account, its role and the row that grants it.
Three recorded calls of auth make a grant, its revocation by one caller and a rival call
of the other, or a disabling that a session is stored across and a second one that ends it;
the calls that only the provider sees are not counted.

State constraints in the MC modules bound the instances further. `FewEvents`: at most one of
the three events of `consumer_exits` is outside the first partition, and that a poison
message when there are two in the first: poison on either side of good events, or good
events on both. `ThreeCallsInPython`: a third
call only when all are Python's, which have a queue to share. `AccountsFirst`: counted
calls begin when all accounts are registered, since a call on an unknown account raises
before it changes anything. `StaffKeepsAccount`: the Foundation's member signs in, has
sessions and gets and loses roles, but its password, factor and state stay, because in
those the archetype plays no part. `FirstNamesFirst`
(`consumer_exits`, `ts_consumer`) and `FirstNameFirst` (`producers`) name the partition and key
of the first event, and the version registered first: the definitions do not
distinguish these names, so that every behaviour is explored under one of them. All of
them cut off steps of the environment only (an event published, a version registered, a call
begun), which no fairness forces, so that liveness is checked of every behaviour inside.

`consumer_resumes` uses symmetry of consumers, partitions and keys, `auth` of callers,
sessions and customers, which no definition distinguishes; neither has a liveness
property. Deadlock is not checked: a group whose log is full and consumed, or stopped
by a poison message, a store that is full, callers and producers that have used up their
calls have nothing to do, and that is no error of the code.

**Fairness.** `EventConsumer!Fairness`: the loop polls on while it can, a handler
returns or raises, a broker call is answered or fails, an exception reaches its
caller, a process that ended is started again (the supervisor), and the coordinator
assigns a partition nobody owns. All weak, on what is continuously enabled; nothing
forces a fault or a rebalance, or forbids one, beyond the bound. `EvidenceWriter!FairSpec`:
a transaction goes on (weak); a waiting `INSERT` is woken when the transaction
it waits for ends, though another writer may insert first (strong, because the wait is
enabled and disabled again). In `Pipeline` the same, with the writer's steps inside
the handler call. `TypeScriptConsumer!FairSpec`: a message in `eachMessage` comes to its
end and a `disconnect` completes (weak); kafkajs fetches every assigned topic again and
again (strong, because a message of another topic in `eachMessage` disables the fetch;
kafkajs goes round all assigned partitions in each fetch). `EventProducer!Fairness`: a
fetch, a connect, a send is settled one way or the other, code after an await runs, and
librdkafka delivers or gives up; nobody has to call, close or register. The canonical
store and auth make no liveness claim: every step there is somebody's decision.

## 4. Properties

`NoEventSkipped` relates the committed offset to the history of handlers and is what
`consumer.py` 33-36 promises. `CommitFollowsSuccess` and `CommittedNeverRetreats` are its
action forms, which do not depend on what the caller does. `DeliversAtLeastOnce`
says the same as a refinement: the group as a whole, crashes and rebalances hidden,
handles and passes the events of each partition in order. `RepeatsOnlyAfterEviction`
bounds the duplicates within a process. `EveryValidEventPassed` is conditional
on a prefix of valid events, because a message that never validates stops its partition by
design (198-200), and on no other partition holding such a message: a consumer whose
caller exits on the exception may, each time it is started again, be fed that message first.
The partition's own poison message excuses nothing before it. `CloseEndsRun` covers a `close` that arrives during poll, handler or
commit.

`OnePairPerWriter` is what the writer's look-up really guarantees: not one pair
per key, but one per writer and key. `WritesAreAtomic` says it as a refinement of
`EvidenceStore`: hidden behind failures and redeliveries, each commit is the one step that
stores an event its writer had not stored, and an answer is that of the event. `PassedEventsStored` and `WindowKeysAreStored`
tie the memories together: neither the offset nor the window ever claims something
that the store does not hold.

For the TypeScript group `DeliversAtLeastOnce` is the same promise over different
mechanics: messages fed again, a `Map` without the topic's handler. `ServedEventsPassed` is
conditional on the topic's owner having its handler: a `run` that overtakes a `subscribe`
never calls it (209-214), and a message of that topic is neither handled nor passed.
`RepeatsOnlyAfterEviction` says here also what fills the window when a key is repeated: other
keys that the process handled, so that a window of one is not excused by the key itself.
`CloseEndsLoop` is about a `close` that finds `connected` set; section 6 has the other case.

`RaisedIsNotPublished` is what lets a caller retry after an exception without a second
copy on the bus; it excludes the TypeScript call whose `send` rejected, after which the
broker may still append (status `failed`). `ReturnedIsAccountedFor` names every way an
answered event can be missing: still queued, given up, crashed. `BusConforms` says what
"a malformed payload never reaches the bus" comes to: an event on the bus is accepted by a
registered version under the validator of the runtime that sent it, through stale caches,
overlapping fetches and overwritten cache entries; neither the latest version nor the other runtime need
accept it. `OrderFollowsReturns` bounds what queues and concurrent sends can do to the
order of one key. `ProduceEnds` is "never blocks silently".

`AuditRowsReflectActions` follows a row from the provider's action to the commit, over
whatever happens in between: what it tells must still be so when it is persisted, and no
session lives on that the call was to end. Of a `session_revoke` it says no more than that:
the row is written for an unknown session as well. `DisabledHasNoSession` says which sessions
a disabling leaves: those whose issue had passed the check before and stored the session
after the sweep, and those of a sweep that was cut short; disabling the account again ends
them, and no other session of a disabled account is alive. `TrailMatchesRoles` relates two tables that are
written by different statements of possibly different callers. `PermissionsAreGranted`
and `NobodyGoverns` combine rows, catalogues and feature flags, for every archetype that a
caller of `has_permission` may name: what is conferred rests on a grant on record that no
revocation on record has taken back. `RoleScopeFollowsAccount`
relates rows of two tables across updates and re-creation of accounts: the CHECK alone
sees one copy, the reference to `(user_id, archetype)` keeps it true. `ViewNeverRegresses`
covers inserts between the two steps of a refresh.

## 5. Proofs

All theorems hold for every value of the constants that satisfies the named assumptions
of the modules (`None` is no member, message or customer; capacity and queue are
positive; every key has a domain and every account an archetype).

| Module | Theorem | States |
|---|---|---|
| `DedupWindowProofs` | `AfterRecordProperties` (and `AfterSeenProperties`) | `record` adds no other key, keeps the window within capacity and without repeats, and the recorded key is its youngest, also at capacity 1 |
| `InMemoryDedupStoreProofs` | `DedupTypeCorrect`, `RuntimesStayInStep`, `WindowIsLeastRecentlyUsed` | `TypeOK`, `RuntimesAgree`, `WindowIsMostRecent`: every property of the stores |
| `PipelineProofs`, consumers | `TypeCorrect` | `[]TypeOK`, window capacity included |
| | `CommitsFollowSuccess`, `CommittedOnlyGrows` | the two action properties, whatever the caller does |
| | `NoEventIsSkipped`, `GroupDelivers` | `NoEventSkipped` and the refinement of AtLeastOnceDelivery, when `CallerResumes = FALSE` |
| | `RepeatsAreEvictions` | `RepeatsOnlyAfterEviction`, for every capacity and caller |
| `PipelineProofs`, composition | `PassedIsStored`, `WindowIsBackedByStore` | `PassedEventsStored` and `WindowKeysAreStored`, when `CallerResumes = FALSE` |
| | `PipelineDelivers`, `PipelineStoresAtomically` | the composition implements both abstract specifications, AtLeastOnceDelivery and EvidenceStore, under the same condition |
| `TypeScriptConsumerProofs` | `TypeCorrect`, `NoEventIsSkipped`, `RepeatsAreEvictions`, `GroupDelivers` | the same for the TypeScript group, without a condition on the caller |
| `EvidenceWriterProofs` | `WriterTypeCorrect`, `StoreHasNoOrphans`, `WriterStoresOnce`, `ReturnedRowsAreStored` | every safety invariant of EvidenceWriter |
| | `WritersImplementStore` | `WritesAreAtomic`, the refinement of EvidenceStore |
| `EventProducerProofs` | `TypeCorrect`, `RaisedStaysUnpublished`, `ReturnedStaysAccountedFor`, `BusStaysConformant`, `OrderIsKept` | every safety property of EventProducer that its run checks |
| | `PublishedOnce` | `EventsAppearOnce`: one call puts its event on the topic at most once |
| `CanonicalStoreProofs` | `StoreTypeCorrect`, `RolesStayInScope`, `RecordsAreKept`, `ViewIsMonotone` | `TypeOK`, `RoleScopeFollowsAccount`, `RecordsStay`, `ViewNeverRegresses`: every property of CanonicalStore |
| | `ConstraintsHold` | unique keys are unique and references find their rows |
| `AuthServiceProofs` | `TypeCorrect`, `DisabledStaysOut`, `AuditRowsAreTrue`, `TrailAndRolesAgree`, `PermissionsRestOnGrants`, `NobodyEverGoverns` | every property of AuthService |

**Dedup stores.** `DedupInv` adds `Recency` to the two invariants of types and runtimes: the
window's keys lie in the order of their last touch, and a touched key that is missing left
a full window and is older than every key in it. One operator, `Touched`, describes what both
`seen` of a present key and `record` of any key do to the window; `TouchKeepsRecency` is
proved from it, and the `Map` is handled by showing that `delete` and `set` are
`move_to_end` (`MapTouchIsMoveToEnd`). That a key is in the window exactly when fewer than
`capacity` keys were touched after it then follows by counting: the keys younger than the
i-th are those behind it, in bijection with their positions.

**EventConsumer.** `TypeOK` is not inductive: `InHand` must be a message of the log
(`InHandIsReady`). `CommittedNeverRetreats` needs `OwnerIsAhead`: the owner's position is
never behind the committed offset, and what the owner has in hand is the last message
fetched, so a commit by the owner moves forward; a consumer that lost the partition is
refused. With `WindowKeysWereHandled` (a duplicate really was handled) and
`CommittedWithinLog` these form `CallerFreeInv`, inductive for every caller.
`NoEventSkipped` needs in addition that position and offset do not drift apart:
`PositionIsCommitted` while the owner of a partition does not work on a message of it,
`InHandIsNext`, `StoppedOwnsNothing`. Together they are `ExitingCallerInv`, which is inductive
only without `Resume`; this is exactly the step that section 6 shows to break it. The
refinement follows: a commit that changes the offset is `Pass` of the next event, a
handler's return is `Handle` of the next event or, when its event was passed
meanwhile, a stutter.

**EvidenceWriter.** `WriterInv` adds what a transaction has open at each stage
(`OpenRowsFollowStage`), that open ids are fresh and stored ids unique, and that a
writer past its look-up works on a key it has not stored (`WritesOnlyWhatIsMissing`).
The last one survives other writers' commits because rows carry their writer, and the
writer's own commits because it is then idle. For `WritesAreAtomic` the state maps to the
committed rows alone: a commit is `Store` of the event, because `OpenRowsFollowStage` makes
the open rows exactly its domain and its pair and `WritesOnlyWhatIsMissing` gives the guard;
`ReturnExisting` is `Find`, because the one row it found is stored; every other step, a roll
back included, is a stutter.

**Pipeline.** Its steps are steps of the two parts, but for the exception that a doubled
pair raises, which the consumers cannot take by themselves and which keeps their
invariant all the same (`ExceptionKeepsInv`). So `ExitingCallerInv` and `WriterInv` are
inherited; the theorems of the writers are used through `INSTANCE EvidenceWriterProofs`.
Two facts tie the parts together: `TransactionIsHandlerCall` (the transaction lasts as long
as the handler call, for the event in hand) and `HandledAreStored` (stored rows are never
lost). With `NoEventSkipped` they give `PassedEventsStored`. The two refinements carry over: a
joint step maps to a step of each abstract specification, and the doubled pair's exception
to a stutter of both.

**TypeScriptConsumer.** `ConsumerInv` differs from the Python one in `OwnerKeepsPace`: a
commit whose call rejected leaves the position one behind the offset, and only a topic
without a handler lets it run ahead. That every rejection feeds the message again is
what makes the condition on the caller unnecessary.

**`RepeatsOnlyAfterEviction`**, in both, needs `WindowsForgetWhenFull`: a window with room
holds every key the process handled, and a key in the handler's hands is not in the
window. It rests on the window lemmas: recording forgets a key only when that leaves the
window full, and a full window stays full. In TypeScript it also needs that a window holds
only keys its process handled.

**EventProducer.** `ProducerInv` adds that a message is queued, on its way or in the log
only for a call that got that far (`MessagesHaveCalls`), that every validator is that of a
registered version and every message that passed one is accepted by a registered
version (`ValidatorsAreRegistered`), and that neither a
queue nor the log has an event before one that had returned when its call began
(`QueuesFollowReturns`). `PublishedOnce` needs in addition that no queue holds a message
twice or one that the log holds (`MessagesAreSingle`).

**CanonicalStore.** `StoreInv` is `TypeOK` and `ReferencesHold`: every reference finds its
row. Then the reference to `(user_id, archetype)` yields the scope of a role from the
CHECK on its copy. `ViewNeverRegresses` needs `ViewInv`: unique keys, finitely many rows, and
`SnapshotCoversView`: what a refresh is about to show covers what the view shows. The
order of the view (`Newer`) is total because its last criterion, `evidence_id`, is a unique
key; that every row has a newest one of its natural key (`LatestCovers`) takes,
of the rows not older than it, the one that the fewest are newer than; and append-only `evidence` keeps the rows that a view shows in the table.

**AuthService.** `AuthInv` has four strands. `SessionsAnswered`: a session of a disabled account,
stored or about to be, has escaped or a disabling has still to look for it; the second half
is what makes it inductive. `EventsHappened`: an event that is recorded, or
about to be, tells what is done and lasts, and its sessions exist and are dead.
`AssignmentsDiffer` and `RevokesAreExclusive`: assignments differ in `granted_at` across
all transactions, and no two open transactions have revoked one row. `Stories` and
`StoryOfAll`: each transaction's rows tell exactly what it does to assignments, so that
committing it keeps trail and roles in agreement.

Each of these invariants was checked by TLC on the instance of section 3 first.

**Model-checked only.** Every safety property, action property and refinement of a passing
run is a theorem. What is left to TLC is liveness: `EveryValidEventPassed`, `CloseEndsRun`,
`WriteEnds`, `ServedEventsPassed`, `CloseEndsLoop`, `ProduceEnds`. Their proofs need fairness,
hence ENABLED, and an induction over the events still to come, and the proof system can
do neither. The theorems about the composition assume a caller that gives up after an
exception; section 6 shows why they must.

## 6. Findings

1. **A consumer that is polled again after an exception loses the event.**
   `consumer.py` 35-36 and 198-200 say that a failed event stays uncommitted and is
   redelivered. The offset is left alone, but `poll` has moved the fetch position and
   nothing seeks back: the next `poll_once` on the same consumer gets the next message,
   and its commit passes the failed one. Redelivery needs a new consumer or a
   reassignment, which is what the integration test does. `consumer_skips` is the trace.
2. **A doubled pair stops its partition.** `evidence_writer.py` 46-48 says that the
   store converges to exactly one pair per signal and 169-170 that a redelivery returns
   the existing rows. A partition that moves away while a handler runs lets two
   writers find nothing and both insert; the look-up of any later delivery then raises
   `MultipleResultsFound`, so that the event is never committed. `pipeline_poisoned` is
   the trace; `OnePairPerWriter` and `PassedEventsStored` say what holds instead.
3. **`flush=True` does not wait for an acknowledgement.** `producer.py` 126-127 says "when
   True, block until the broker acknowledges before returning" and 87-88 "no silent
   loss". `flush()` returns when the local queue is empty, which it also is after
   librdkafka has given the message up, and no delivery callback is installed to say so.
   `producer_loses` is the trace; `ReturnedIsAccountedFor` is what holds instead.

Observations met while modelling that no run is spent on, some of them divergences:

- `models.py` 557, `provider.py` 224 and `service.py` 380 call a role change a trigger of
  session revocation; `assign_role` revokes none, only `revoke_role` does.
- A session is issued by a separate call after `authenticate`: a login with the old
  password, answered before a password change, still leads to a session after it.
- A first validation that runs concurrently with another on one TypeScript client can be
  rejected by Ajv (known `$id`) though the schema is registered; an older answer can
  overwrite a newer validator in the cache (`schema-registry.ts` 180-195).
- Ajv and `jsonschema` treat `format` differently (section 2): a Python producer publishes
  events with malformed ids or times that a TypeScript consumer rejects for ever.
- Nothing makes a new schema version accept what an old one did: an event that a stale
  producer sends, or one sent before, may be refused by every consumer that starts later.
- A failing `connect` inside the TypeScript `produce` rejects with the client's error and
  not with `ProduceError`, being outside the `try` (`producer.ts` 182-184, 210).
- A TypeScript `close` while `connect` is pending does nothing, and the producer is
  connected afterwards.
- A `close` of a TypeScript consumer that was closed before and run again without another
  `subscribe` does nothing but clear `running`, which nothing reads in the loop: `connected` is
  down (`consumer.ts` 267-284).
- A poison message is fed first after every restart of a caller that exits; the other
  partitions of its owner may wait behind it for as long as that lasts.
- `service.py` 38-40 says that a persisted row always reflects an action that happened;
  `revoke_session` writes one for an unknown session, which the provider passes over
  (`fake_provider.py` 249-253).
- `provider.py` promises that disabling an account ends its sessions. In `fake_provider.py` a
  session checked before (224) and stored after the sweep (235) outlives it, and one stored
  during a sweep (257) makes the dictionary raise, with sessions left over and no audit row.
- `enrol_totp` and `verify_totp` overlapping can confirm a secret that no code was verified
  against, or take a confirmation back (`fake_provider.py` 263-288).
- `has_permission` believes its caller about the archetype (`service.py` 414-445): role names
  repeat across catalogues (`owner`, `admin`, `operator`, `read_only`), so that a wrong one gives
  the permissions of the other catalogue's role of that name, or raises `UnknownRole`.
- An exception of the audit sink reaches the caller, who may roll the row back after
  the event was emitted (`audit.py` 221-222 says that the row is persisted whatever the
  sink does).

## 7. Not modelled

- **Idempotency keys and envelopes as text** (`idempotency.py`, `envelope.py` and the `.ts`
  twins): canonical JSON and a hash, pure functions of text. The modules see the outcome:
  a key, and whether a body decodes.
- **`admin.py`, `schema_files.py`, `config.py`**: one call after another, no state kept.
- **Token signer**: stateless; a signature and an expiry check over a clock. Nothing in
  it depends on the order of steps.
- **In auth**: `mark_email_verified` (nothing reads the flag), `get_session` and the strict
  variant of `verify_totp` (they only answer or raise), the emitted copy of an audit
  event, the sign-on side of a real identity provider.
- **Observability, CI scripts, documentation and placeholder directories**
  (`scoring-engine`, `secrets`, `signal-collector-framework`): no state that the rest
  of the system reads.

What could follow: the TypeScript producer and consumer composed over one topic, so that
`ReturnedIsAccountedFor` and `DeliversAtLeastOnce` give an end-to-end statement.
