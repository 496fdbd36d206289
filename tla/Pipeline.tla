------------------------------ MODULE Pipeline ------------------------------
(***************************************************************************)
(* The consumer side end to end (tests/smoke/test_smoke_roundtrip.py): the *)
(* processes of one consumer group (EventConsumer), each with an           *)
(* EvidenceWriter over one store as its handler.  A handler call is the    *)
(* writer's transaction; a crash in the middle of it takes both down.      *)
(***************************************************************************)
EXTENDS EventConsumer, FiniteSets

CONSTANTS Domains, DomainOf, RowIds

\* WriterAssumption of the instance below.
ASSUME PipelineAssumption ==
    /\ DomainOf \in [Keys -> Domains]
    /\ None \notin Keys

VARIABLES domain, provenance, evidence, stage, key, open, results

Writer == INSTANCE EvidenceWriter WITH Writers <- Consumers

writerVars == <<domain, provenance, evidence, stage, key, open, results>>
pipelineVars == <<vars, writerVars>>

PipelineInit == Init /\ Writer!Init
-----------------------------------------------------------------------------
\* poll_once hands the fetched event to the writer.
HandEvent(c, p) == CallHandler(c, p) /\ Writer!Handle(c, Fetched(p).key)

\* handle returns a WriteResult, of a new pair or of the one it found.
HandleReturns(c) == HandlerReturns(c) /\ Writer!Returns(c)

\* The transaction fails, or only the answer to its commit is lost.
HandleFails(c) == HandlerRaises(c) /\ Writer!Fails(c)

\* The lookup finds the event stored twice.
HandleFindsMultiple(c) ==
    /\ ExceptionFromHandler(c)
    /\ Writer!RaiseMultipleFound(c)
    /\ UNCHANGED faults

CrashInHandler(c) == Crash(c) /\ Writer!Fails(c)

\* What consumers and broker do while the writer of c is not involved.
OutsideHandler(c) ==
    /\ \/ Start(c) \/ Close(c) \/ LeaveLoop(c) \/ Exit(c)
       \/ PollFails(c) \/ CommitEnds(c)
       \/ \E p \in Partitions : \/ Reject(c, p) \/ SkipDuplicate(c, p)
                                \/ Assign(p, c) \/ Rebalance(p, c)
       \/ status[c] # "handling" /\ Crash(c)
    /\ UNCHANGED writerVars

PipelineNext ==
    \/ \E p \in Partitions, e \in Events : Publish(p, e) /\ UNCHANGED writerVars
    \/ \E c \in Consumers :
        \/ OutsideHandler(c)
        \/ \E p \in Partitions : HandEvent(c, p)
        \/ Writer!Statement(c) /\ UNCHANGED vars
        \/ HandleReturns(c) \/ HandleFails(c) \/ HandleFindsMultiple(c)
        \/ CrashInHandler(c)

PipelineSpec == PipelineInit /\ [][PipelineNext]_pipelineVars

\* As for the consumers; a transaction goes on until the handler call ends.
PipelineFairSpec ==
    /\ PipelineSpec
    /\ \A c \in Consumers :
        /\ WF_pipelineVars(Start(c) /\ OutsideHandler(c))
        /\ WF_pipelineVars(LeaveLoop(c) /\ OutsideHandler(c))
        /\ WF_pipelineVars(Exit(c) /\ OutsideHandler(c))
        /\ WF_pipelineVars(\E p \in Partitions :
               \/ HandEvent(c, p)
               \/ (Reject(c, p) \/ SkipDuplicate(c, p)) /\ OutsideHandler(c))
        /\ WF_pipelineVars(\/ Writer!Statement(c) /\ UNCHANGED vars
                           \/ HandleReturns(c) \/ HandleFails(c)
                           \/ HandleFindsMultiple(c))
        /\ WF_pipelineVars(CommitEnds(c) /\ OutsideHandler(c))
    /\ \A p \in Partitions :
        WF_pipelineVars(\E c \in Consumers : Assign(p, c) /\ OutsideHandler(c))
-----------------------------------------------------------------------------
(***************************************************************************)
(* Properties.                                                             *)
(***************************************************************************)

\* End to end (evidence_writer.py 38-48, consumer.py 33-36): an event that the
\* group has passed is in the store, as one pair or, when the partition
\* changed hands in the middle of a write, as one pair of each consumer.
PassedEventsStored ==
    \A p \in Partitions : \A i \in 1..committed[p] :
        /\ Writer!Existing(log[p][i].key) # {}
        /\ \A a, b \in Writer!Existing(log[p][i].key) :
              a # b => a.writer # b.writer

\* What a consumer skips as a duplicate is in the store: the window, which is
\* memory, never knows more than the database (consumer.py 219-229).
WindowKeysAreStored ==
    \A c \in Consumers : \A k \in ToSet(dedup[c]) : Writer!Existing(k) # {}

\* Why these two hold: the transaction of c lasts exactly as long as the handler
\* call, for the event in hand, and a call that returned left the event stored.
TransactionIsHandlerCall ==
    \A c \in Consumers :
        /\ status[c] = "handling" <=> stage[c] # "idle"
        /\ status[c] = "handling" => key[c] = InHand(c).key

HandledAreStored == \A k \in handled : Writer!Existing(k) # {}

PipelineInv == /\ ExitingCallerInv /\ Writer!WriterInv
               /\ TransactionIsHandlerCall /\ HandledAreStored

\* A redelivery is recognised and returns the existing rows (evidence_writer.py
\* 46-48, 169-170), so that an event which is stored is passed in the end.
StoredEventPassed ==
    \A p \in Partitions : \A i \in 1..MaxLog :
        ValidPrefix(p, i) /\ Writer!Existing(log[p][i].key) # {} ~> committed[p] >= i
=============================================================================
