--------------------------- MODULE EvidenceWriter ---------------------------
(***************************************************************************)
(* The evidence writer (tests/smoke/evidence_writer.py): processes that    *)
(* each persist the events they are handed, one transaction per event, in  *)
(* a PostgreSQL store under READ COMMITTED.  A statement sees what was     *)
(* committed when it runs; a transaction's rows show when it commits.      *)
(* The columns that play no part in deduplication are left out.            *)
(***************************************************************************)
EXTENDS Integers, FiniteSets

CONSTANTS Writers,    \* the processes that run an EvidenceWriter
          Keys,       \* idempotency keys
          Domains,    \* domain ids
          DomainOf,   \* DomainOf[k]: the domain that the event of key k observes
          None,       \* nothing in hand
          RowIds      \* bound: the ids the store has for provenance rows

ASSUME WriterAssumption ==
    /\ DomainOf \in [Keys -> Domains]
    /\ None \notin Keys

VARIABLES
    \* the committed rows
    domain,      \* domain ids
    provenance,  \* rows of table provenance; method is the idempotency anchor
    evidence,    \* rows of table evidence, each referencing a provenance row
    \* the writers
    stage,       \* stage[w]: the next statement of w's transaction
    key,         \* key[w]: the idempotency key of the event in hand
    open,        \* open[w]: the rows that w's transaction has inserted
    results      \* the WriteResults returned so far

store == <<domain, provenance, evidence>>
vars == <<domain, provenance, evidence, stage, key, open, results>>

Stages == {"idle", "find_existing", "select_domain", "insert_domain",
           "insert_provenance", "insert_evidence", "commit"}

\* Two fields record what the tables and the results leave out: writer, who
\* inserted the row, and idempotency_key, which event the result is for.
ProvenanceRows == [provenance_id : RowIds, method : Keys, writer : Writers]
EvidenceRows == [provenance_id : RowIds, domain_id : Domains]
WriteResults == [provenance_id : RowIds, idempotency_key : Keys, created : BOOLEAN]

NoRows == [domain |-> {}, provenance |-> {}, evidence |-> {}]

\* The join of _find_existing: the provenance rows of key k that an evidence
\* row references.
Existing(k) == {p \in provenance : /\ p.method = k
                                   /\ \E e \in evidence :
                                         e.provenance_id = p.provenance_id}

Init ==
    /\ domain = {} /\ provenance = {} /\ evidence = {}
    /\ stage = [w \in Writers |-> "idle"]
    /\ key = [w \in Writers |-> None]
    /\ open = [w \in Writers |-> NoRows]
    /\ results = {}

Goto(w, s) == stage' = [stage EXCEPT ![w] = s]
-----------------------------------------------------------------------------
\* handle(envelope): a delivery, a redelivery or a re-run hands w the event.
Handle(w, k) ==
    /\ stage[w] = "idle"
    /\ Goto(w, "find_existing")
    /\ key' = [key EXCEPT ![w] = k]
    /\ UNCHANGED <<store, open, results>>

\* The transaction is over.
End(w) ==
    /\ Goto(w, "idle")
    /\ key' = [key EXCEPT ![w] = None]
    /\ open' = [open EXCEPT ![w] = NoRows]

Return(w, id, isNew) ==
    results' = results \cup {[provenance_id |-> id, idempotency_key |-> key[w],
                              created |-> isNew]}

\* Seeded fault: the lookup's answer is ignored.
FindNoneUnchecked(w) ==
    /\ stage[w] = "find_existing"
    /\ Goto(w, "select_domain")
    /\ UNCHANGED <<store, key, open, results>>

FindNone(w) ==
    /\ stage[w] = "find_existing"
    /\ Existing(key[w]) = {}
    /\ Goto(w, "select_domain")
    /\ UNCHANGED <<store, key, open, results>>

\* The event is already stored: its pair is returned, nothing is written.
ReturnExisting(w) ==
    /\ stage[w] = "find_existing"
    /\ \E p \in provenance : /\ Existing(key[w]) = {p}
                             /\ Return(w, p.provenance_id, FALSE)
    /\ End(w)
    /\ UNCHANGED store

\* one_or_none() raises MultipleResultsFound.
RaiseMultipleFound(w) ==
    /\ stage[w] = "find_existing"
    /\ Cardinality(Existing(key[w])) > 1
    /\ End(w)
    /\ UNCHANGED <<store, results>>

\* _ensure_domain
SelectDomain(w) ==
    /\ stage[w] = "select_domain"
    /\ Goto(w, IF DomainOf[key[w]] \in domain THEN "insert_provenance" ELSE "insert_domain")
    /\ UNCHANGED <<store, key, open, results>>

\* INSERT ... ON CONFLICT DO NOTHING waits for a transaction that has inserted
\* the same domain and not ended.
InsertDomain(w) ==
    /\ stage[w] = "insert_domain"
    /\ \A v \in Writers \ {w} : DomainOf[key[w]] \notin open[v].domain
    /\ IF DomainOf[key[w]] \in domain THEN UNCHANGED open
       ELSE open' = [open EXCEPT ![w].domain = @ \cup {DomainOf[key[w]]}]
    /\ Goto(w, "insert_provenance")
    /\ UNCHANGED <<store, key, results>>

\* RETURNING provenance_id: an id that no row has, stored or open.
UsedIds == {p.provenance_id : p \in provenance \cup UNION {open[w].provenance : w \in Writers}}
NewId == CHOOSE id \in RowIds : id \notin UsedIds

\* Seeded fault: the provenance row is committed by itself.
InsertProvenanceCommitted(w) ==
    /\ stage[w] = "insert_provenance"
    /\ UsedIds # RowIds
    /\ provenance' = provenance \cup
           {[provenance_id |-> NewId, method |-> key[w], writer |-> w]}
    /\ Goto(w, "commit")
    /\ UNCHANGED <<domain, evidence, key, open, results>>

InsertProvenance(w) ==
    /\ stage[w] = "insert_provenance"
    /\ UsedIds # RowIds
    /\ open' = [open EXCEPT ![w].provenance = @ \cup
           {[provenance_id |-> NewId, method |-> key[w], writer |-> w]}]
    /\ Goto(w, "insert_evidence")
    /\ UNCHANGED <<store, key, results>>

InsertEvidence(w) ==
    /\ stage[w] = "insert_evidence"
    /\ \E p \in open[w].provenance :
          open' = [open EXCEPT ![w].evidence = @ \cup
              {[provenance_id |-> p.provenance_id, domain_id |-> DomainOf[key[w]]]}]
    /\ Goto(w, "commit")
    /\ UNCHANGED <<store, key, results>>

StoreOpenRows(w) ==
    /\ domain' = domain \cup open[w].domain
    /\ provenance' = provenance \cup open[w].provenance
    /\ evidence' = evidence \cup open[w].evidence

\* Seeded fault: engine.connect() for engine.begin(), so nothing is committed.
ReturnUncommitted(w) ==
    /\ stage[w] = "commit"
    /\ \E p \in open[w].provenance : Return(w, p.provenance_id, TRUE)
    /\ End(w)
    /\ UNCHANGED store

Commit(w) ==
    /\ stage[w] = "commit"
    /\ StoreOpenRows(w)
    /\ \E p \in open[w].provenance : Return(w, p.provenance_id, TRUE)
    /\ End(w)

\* The commit happens, the writer sees an error or is gone.
CommitUnanswered(w) ==
    /\ stage[w] = "commit"
    /\ StoreOpenRows(w)
    /\ End(w)
    /\ UNCHANGED results

\* Seeded fault: an exception leaves the transaction open.
AbandonTransaction(w) ==
    /\ stage[w] # "idle"
    /\ Goto(w, "idle")
    /\ key' = [key EXCEPT ![w] = None]
    /\ UNCHANGED <<store, open, results>>

\* A statement or the commit fails, or the writer is gone: rolled back.
RollBack(w) ==
    /\ stage[w] # "idle"
    /\ End(w)
    /\ UNCHANGED <<store, results>>
-----------------------------------------------------------------------------
\* The statements inside the transaction.
Statement(w) == \/ FindNone(w) \/ SelectDomain(w) \/ InsertDomain(w)
                \/ InsertProvenance(w) \/ InsertEvidence(w)

Returns(w) == ReturnExisting(w) \/ Commit(w)

Fails(w) == RollBack(w) \/ CommitUnanswered(w)

Next == \E w \in Writers :
            \/ \E k \in Keys : Handle(w, k)
            \/ Statement(w) \/ Returns(w) \/ RaiseMultipleFound(w) \/ Fails(w)

Spec == Init /\ [][Next]_vars

\* A writer in a transaction goes on, unless it waits for another one; an
\* INSERT that waits is woken when the transaction it waits for ends.
FairSpec ==
    /\ Spec
    /\ \A w \in Writers :
          /\ WF_vars(Statement(w) \/ Returns(w) \/ RaiseMultipleFound(w))
          /\ SF_vars(InsertDomain(w))
-----------------------------------------------------------------------------
(***************************************************************************)
(* Properties.                                                             *)
(***************************************************************************)

\* Rows and stages keep their shape, and only a running transaction has rows
\* of its own: what engine.begin() ends leaves nothing behind (195-247).
TypeOK ==
    /\ domain \subseteq Domains
    /\ provenance \subseteq ProvenanceRows
    /\ evidence \subseteq EvidenceRows
    /\ stage \in [Writers -> Stages]
    /\ key \in [Writers -> Keys \cup {None}]
    /\ open \in [Writers -> [domain : SUBSET Domains, provenance : SUBSET ProvenanceRows,
                             evidence : SUBSET EvidenceRows]]
    /\ results \subseteq WriteResults
    /\ \A w \in Writers : stage[w] = "idle" => key[w] = None /\ open[w] = NoRows

\* No orphan row (evidence_writer.py 167-168): whatever fails in between, a
\* stored provenance row has exactly one evidence row, on the domain of its
\* key, and that domain row is stored; an evidence row has its provenance row.
NoOrphans ==
    /\ \A p \in provenance : \E e \in evidence :
          {f \in evidence : f.provenance_id = p.provenance_id} = {e}
    /\ \A e \in evidence : \E p \in provenance :
          /\ e.provenance_id = p.provenance_id
          /\ e.domain_id = DomainOf[p.method]
          /\ e.domain_id \in domain

\* A WriteResult names a pair that is in the store under the event's key, be
\* it new or found (evidence_writer.py 175-176).
ResultsAreStored ==
    \A r \in results : \E p \in Existing(r.idempotency_key) :
        p.provenance_id = r.provenance_id

\* A writer stores a key at most once, over redeliveries, failed commits whose
\* rows are stored all the same, and interleavings with other writers: two
\* pairs of one key come from two writers (evidence_writer.py 38-48).
OnePairPerWriter ==
    \A p, q \in provenance :
        p.method = q.method /\ p.writer = q.writer => p = q

\* Whatever fails between two statements and whatever the other writers do in
\* the meantime, a write happens at once or not at all (evidence_writer.py
\* 26-38, 162-170).
Atomic == INSTANCE EvidenceStore
WritesAreAtomic == Atomic!Spec

\* Why these hold.  A transaction has open exactly what its stage says ...
InsertedDomain == {"insert_provenance", "insert_evidence", "commit"}
InsertedProvenance == {"insert_evidence", "commit"}

RowsFollowStage(w) ==
    /\ stage[w] # "idle" => /\ key[w] # None
                            /\ open[w].domain \subseteq {DomainOf[key[w]]}
    /\ stage[w] \in InsertedDomain => DomainOf[key[w]] \in domain \cup open[w].domain
    /\ stage[w] \in InsertedProvenance =>
          \E p \in ProvenanceRows :
              /\ open[w].provenance = {p}
              /\ p.method = key[w] /\ p.writer = w
              /\ stage[w] = "commit" => open[w].evidence =
                    {[provenance_id |-> p.provenance_id, domain_id |-> DomainOf[key[w]]]}
    /\ stage[w] \notin InsertedProvenance => open[w].provenance = {}
    /\ stage[w] # "commit" => open[w].evidence = {}

OpenRowsFollowStage == \A w \in Writers : RowsFollowStage(w)

\* ... under ids of its own ...
OpenIdsAreFresh ==
    \A w \in Writers : \A p \in open[w].provenance :
        /\ \A q \in provenance : q.provenance_id # p.provenance_id
        /\ \A v \in Writers \ {w} : \A q \in open[v].provenance :
              q.provenance_id # p.provenance_id

IdsAreUnique ==
    \A p, q \in provenance : p.provenance_id = q.provenance_id => p = q

\* ... and, past its lookup, for a key that the writer has not stored.
WritesOnlyWhatIsMissing ==
    \A w \in Writers : stage[w] \notin {"idle", "find_existing"} =>
        \A p \in provenance : p.method = key[w] => p.writer # w

WriterInv == /\ TypeOK /\ NoOrphans /\ OnePairPerWriter /\ ResultsAreStored
             /\ OpenRowsFollowStage /\ OpenIdsAreFresh /\ IdsAreUnique
             /\ WritesOnlyWhatIsMissing

\* A transaction that waits for the domain row of another one ends: no two
\* writers wait for each other, and no ended transaction is waited for.
WriteEnds == \A w \in Writers : stage[w] # "idle" ~> stage[w] = "idle"
=============================================================================
