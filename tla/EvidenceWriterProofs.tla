------------------------ MODULE EvidenceWriterProofs ------------------------
(***************************************************************************)
(* Theorems about EvidenceWriter, for every number of writers, events and  *)
(* domains.                                                                *)
(***************************************************************************)
EXTENDS EvidenceWriter, TLAPS

\* The database hands out an id that no row has.
LEMMA NewIdIsNew ==
    ASSUME TypeOK, UsedIds # RowIds
    PROVE  NewId \in RowIds /\ NewId \notin UsedIds
<1>1. UsedIds \subseteq RowIds
  BY DEF UsedIds, TypeOK, ProvenanceRows
<1>2. \E id \in RowIds : id \notin UsedIds
  BY <1>1
<1>. QED BY <1>2 DEF NewId

LEMMA ReturnType ==
    ASSUME WriterInv, NEW w \in Writers, NEW p \in ProvenanceRows, NEW b \in BOOLEAN,
           key[w] \in Keys, Return(w, p.provenance_id, b)
    PROVE  results' \subseteq WriteResults
<1>1. p.provenance_id \in RowIds
  BY DEF ProvenanceRows
<1>2. [provenance_id |-> p.provenance_id, idempotency_key |-> key[w], created |-> b]
          \in WriteResults
  BY <1>1 DEF WriteResults
<1>. QED BY <1>2 DEF Return, WriterInv, TypeOK

\* What a transaction at its commit is about to store.
LEMMA RowsToCommit ==
    ASSUME WriterInv, NEW w \in Writers, stage[w] = "commit"
    PROVE  \E p \in ProvenanceRows, e \in EvidenceRows :
              /\ open[w].provenance = {p} /\ open[w].evidence = {e}
              /\ p.method = key[w] /\ p.writer = w /\ key[w] \in Keys
              /\ e.provenance_id = p.provenance_id
              /\ e.domain_id = DomainOf[p.method]
              /\ e.domain_id \in domain \cup open[w].domain
              /\ \A q \in provenance : q.provenance_id # p.provenance_id
              /\ \A q \in provenance : q.method = p.method => q.writer # w
<1>1. PICK p \in ProvenanceRows :
            /\ open[w].provenance = {p}
            /\ p.method = key[w] /\ p.writer = w
            /\ open[w].evidence = {[provenance_id |-> p.provenance_id,
                                    domain_id |-> DomainOf[key[w]]]}
  BY DEF WriterInv, OpenRowsFollowStage, RowsFollowStage, InsertedProvenance
<1>2. key[w] \in Keys /\ DomainOf[key[w]] \in domain \cup open[w].domain
  BY DEF WriterInv, TypeOK, OpenRowsFollowStage, RowsFollowStage, InsertedDomain
<1>3. \A q \in provenance : q.provenance_id # p.provenance_id
  BY <1>1 DEF WriterInv, OpenIdsAreFresh
<1>4. \A q \in provenance : q.method = p.method => q.writer # w
  BY <1>1 DEF WriterInv, WritesOnlyWhatIsMissing
<1> DEFINE e == [provenance_id |-> p.provenance_id, domain_id |-> DomainOf[key[w]]]
<1>5. e \in EvidenceRows
  BY <1>2, WriterAssumption DEF ProvenanceRows, EvidenceRows
<1>. QED BY <1>1, <1>2, <1>3, <1>4, <1>5

\* The committed rows change only when a transaction at its commit commits.
LEMMA OnlyCommitStores ==
    ASSUME WriterInv, [Next]_vars, store' # store
    PROVE  \E w \in Writers : stage[w] = "commit" /\ StoreOpenRows(w) /\ End(w)
<1>1. \E w \in Writers : Commit(w) \/ CommitUnanswered(w)
  BY DEF Next, Handle, Statement, FindNone, SelectDomain, InsertDomain,
         InsertProvenance, InsertEvidence, Returns, ReturnExisting, RaiseMultipleFound,
         Fails, RollBack, store, vars
<1>. QED BY <1>1 DEF Commit, CommitUnanswered

-----------------------------------------------------------------------------
(***************************************************************************)
(* The parts of the inductive invariant, one after the other.              *)
(***************************************************************************)
LEMMA NextTypeOK == WriterInv /\ [Next]_vars => TypeOK'
<1> SUFFICES ASSUME WriterInv, [Next]_vars PROVE TypeOK'
  OBVIOUS
<1> USE WriterAssumption DEF Goto, store
<1>1. ASSUME NEW w \in Writers, NEW k \in Keys, Handle(w, k)
      PROVE  TypeOK'
  BY <1>1 DEF WriterInv, TypeOK, Stages, NoRows, StoreOpenRows, Handle
<1>2. ASSUME NEW w \in Writers, FindNone(w)
      PROVE  TypeOK'
  BY <1>2 DEF WriterInv, TypeOK, Stages, NoRows, StoreOpenRows, FindNone
<1>3. ASSUME NEW w \in Writers, SelectDomain(w)
      PROVE  TypeOK'
  BY <1>3 DEF WriterInv, TypeOK, Stages, NoRows, StoreOpenRows, SelectDomain
<1>4. ASSUME NEW w \in Writers, InsertDomain(w)
      PROVE  TypeOK'
  <2>1. DomainOf[key[w]] \in Domains
    BY <1>4, WriterAssumption
       DEF InsertDomain, WriterInv, OpenRowsFollowStage, RowsFollowStage, TypeOK
  <2>. QED BY <1>4, <2>1 DEF WriterInv, TypeOK, Stages, InsertDomain
<1>5. ASSUME NEW w \in Writers, InsertProvenance(w)
      PROVE  TypeOK'
  <2>1. NewId \in RowIds
    BY <1>5, NewIdIsNew DEF InsertProvenance, WriterInv
  <2>2. key[w] \in Keys
    BY <1>5
       DEF InsertProvenance, WriterInv, OpenRowsFollowStage, RowsFollowStage,
           TypeOK
  <2>3. [provenance_id |-> NewId, method |-> key[w], writer |-> w] \in ProvenanceRows
    BY <2>1, <2>2 DEF ProvenanceRows
  <2>. QED BY <1>5, <2>3 DEF WriterInv, TypeOK, Stages, InsertProvenance
<1>6. ASSUME NEW w \in Writers, InsertEvidence(w)
      PROVE  TypeOK'
  <2>1. DomainOf[key[w]] \in Domains
    BY <1>6, WriterAssumption
       DEF InsertEvidence, WriterInv, OpenRowsFollowStage, RowsFollowStage, TypeOK
  <2>2. PICK p \in open[w].provenance :
              open' = [open EXCEPT ![w].evidence = @ \cup
                  {[provenance_id |-> p.provenance_id, domain_id |-> DomainOf[key[w]]]}]
    BY <1>6 DEF InsertEvidence
  <2>3. [provenance_id |-> p.provenance_id, domain_id |-> DomainOf[key[w]]] \in EvidenceRows
    BY <2>1 DEF WriterInv, TypeOK, ProvenanceRows, EvidenceRows
  <2>. QED BY <1>6, <2>2, <2>3 DEF WriterInv, TypeOK, Stages, InsertEvidence
<1>7. ASSUME NEW w \in Writers, ReturnExisting(w)
      PROVE  TypeOK'
  <2>1. PICK p \in provenance : Return(w, p.provenance_id, FALSE)
    BY <1>7 DEF ReturnExisting
  <2>2. key[w] \in Keys
    BY <1>7
       DEF ReturnExisting, WriterInv, OpenRowsFollowStage, RowsFollowStage, TypeOK
  <2>3. results' \subseteq WriteResults
    BY <2>1, <2>2, ReturnType DEF WriterInv, TypeOK
  <2>. QED BY <1>7, <2>3 DEF ReturnExisting, End, WriterInv, TypeOK, Stages, NoRows
<1>8. ASSUME NEW w \in Writers, RaiseMultipleFound(w)
      PROVE  TypeOK'
  BY <1>8
     DEF WriterInv, TypeOK, Stages, NoRows, StoreOpenRows, RaiseMultipleFound, End
<1>9. ASSUME NEW w \in Writers, RollBack(w)
      PROVE  TypeOK'
  BY <1>9 DEF WriterInv, TypeOK, Stages, NoRows, StoreOpenRows, RollBack, End
<1>10. ASSUME NEW w \in Writers, Commit(w)
      PROVE  TypeOK'
  <2>1. PICK p \in ProvenanceRows : open[w].provenance = {p} /\ key[w] \in Keys
    BY <1>10, RowsToCommit DEF Commit
  <2>2. Return(w, p.provenance_id, TRUE)
    BY <1>10, <2>1 DEF Commit
  <2>3. results' \subseteq WriteResults
    BY <2>1, <2>2, ReturnType
  <2>. QED BY <1>10, <2>3
           DEF Commit, StoreOpenRows, End, WriterInv, TypeOK, Stages, NoRows
<1>11. ASSUME NEW w \in Writers, CommitUnanswered(w)
      PROVE  TypeOK'
  BY <1>11
     DEF WriterInv, TypeOK, Stages, NoRows, StoreOpenRows, CommitUnanswered, End
<1>12. CASE UNCHANGED vars
  BY <1>12 DEF WriterInv, TypeOK, Stages, NoRows, StoreOpenRows, vars
<1>. QED
  BY <1>1, <1>2, <1>3, <1>4, <1>5, <1>6, <1>7, <1>8, <1>9, <1>10, <1>11, <1>12
     DEF Next, Statement, Returns, Fails

LEMMA NextStore ==
    ASSUME WriterInv, [Next]_vars
    PROVE  NoOrphans' /\ IdsAreUnique' /\ OnePairPerWriter'
<1>1. CASE store' = store
  BY <1>1 DEF WriterInv, NoOrphans, IdsAreUnique, OnePairPerWriter, store
<1>2. CASE store' # store
  <2>1. PICK w \in Writers : stage[w] = "commit" /\ StoreOpenRows(w)
    BY <1>2, OnlyCommitStores
  <2>2. PICK p \in ProvenanceRows, e \in EvidenceRows :
              /\ open[w].provenance = {p} /\ open[w].evidence = {e}
              /\ p.method = key[w] /\ p.writer = w /\ key[w] \in Keys
              /\ e.provenance_id = p.provenance_id
              /\ e.domain_id = DomainOf[p.method]
              /\ e.domain_id \in domain \cup open[w].domain
              /\ \A q \in provenance : q.provenance_id # p.provenance_id
              /\ \A q \in provenance : q.method = p.method => q.writer # w
    BY <2>1, RowsToCommit
  <2>3. /\ provenance' = provenance \cup {p} /\ evidence' = evidence \cup {e}
        /\ domain' = domain \cup open[w].domain
    BY <2>1, <2>2 DEF StoreOpenRows
  <2>4. \A f \in evidence : f.provenance_id # e.provenance_id
    BY <2>2 DEF WriterInv, NoOrphans
  <2>5. NoOrphans'
    <3>1. ASSUME NEW q \in provenance'
          PROVE  \E f \in evidence' :
                    {g \in evidence' : g.provenance_id = q.provenance_id} = {f}
      <4>1. CASE q = p
        BY <2>2, <2>3, <2>4, <4>1
      <4>2. CASE q \in provenance
        <5>1. PICK f \in evidence :
                    {g \in evidence : g.provenance_id = q.provenance_id} = {f}
          BY <4>2 DEF WriterInv, NoOrphans
        <5>2. e.provenance_id # q.provenance_id
          BY <2>2, <4>2
        <5>. QED BY <2>3, <5>1, <5>2
      <4>. QED BY <2>3, <3>1, <4>1, <4>2
    <3>2. ASSUME NEW f \in evidence'
          PROVE  \E q \in provenance' : /\ f.provenance_id = q.provenance_id
                                        /\ f.domain_id = DomainOf[q.method]
                                        /\ f.domain_id \in domain'
      BY <2>2, <2>3, <3>2 DEF WriterInv, NoOrphans
    <3>. QED BY <3>1, <3>2 DEF NoOrphans
  <2>6. IdsAreUnique'
    BY <2>2, <2>3 DEF WriterInv, IdsAreUnique
  <2>7. OnePairPerWriter'
    BY <2>2, <2>3 DEF WriterInv, OnePairPerWriter
  <2>. QED BY <2>5, <2>6, <2>7
<1>. QED BY <1>1, <1>2

LEMMA NextResultsAreStored == WriterInv /\ [Next]_vars => ResultsAreStored'
<1> SUFFICES ASSUME WriterInv, [Next]_vars PROVE ResultsAreStored'
  OBVIOUS
<1> USE WriterAssumption DEF Goto, store
<1>1. ASSUME NEW w \in Writers, NEW k \in Keys, Handle(w, k)
      PROVE  ResultsAreStored'
  BY <1>1 DEF WriterInv, ResultsAreStored, Existing, Handle
<1>2. ASSUME NEW w \in Writers, FindNone(w)
      PROVE  ResultsAreStored'
  BY <1>2 DEF WriterInv, ResultsAreStored, Existing, FindNone
<1>3. ASSUME NEW w \in Writers, SelectDomain(w)
      PROVE  ResultsAreStored'
  BY <1>3 DEF WriterInv, ResultsAreStored, Existing, SelectDomain
<1>4. ASSUME NEW w \in Writers, InsertDomain(w)
      PROVE  ResultsAreStored'
  BY <1>4 DEF WriterInv, ResultsAreStored, Existing, InsertDomain
<1>5. ASSUME NEW w \in Writers, InsertProvenance(w)
      PROVE  ResultsAreStored'
  BY <1>5 DEF WriterInv, ResultsAreStored, Existing, InsertProvenance
<1>6. ASSUME NEW w \in Writers, InsertEvidence(w)
      PROVE  ResultsAreStored'
  BY <1>6 DEF WriterInv, ResultsAreStored, Existing, InsertEvidence
<1>7. ASSUME NEW w \in Writers, ReturnExisting(w)
      PROVE  ResultsAreStored'
  <2>1. PICK p \in provenance : Existing(key[w]) = {p} /\ Return(w, p.provenance_id, FALSE)
    BY <1>7 DEF ReturnExisting
  <2>. QED BY <1>7, <2>1
     DEF Return, Existing, ReturnExisting, WriterInv, ResultsAreStored
<1>8. ASSUME NEW w \in Writers, RaiseMultipleFound(w)
      PROVE  ResultsAreStored'
  BY <1>8 DEF WriterInv, ResultsAreStored, Existing, RaiseMultipleFound, End
<1>9. ASSUME NEW w \in Writers, RollBack(w)
      PROVE  ResultsAreStored'
  BY <1>9 DEF WriterInv, ResultsAreStored, Existing, RollBack, End
<1>10. ASSUME NEW w \in Writers, Commit(w)
      PROVE  ResultsAreStored'
  <2>1. PICK p \in ProvenanceRows, e \in EvidenceRows :
              /\ open[w].provenance = {p} /\ open[w].evidence = {e}
              /\ p.method = key[w] /\ e.provenance_id = p.provenance_id
    BY <1>10, RowsToCommit DEF Commit
  <2>2. /\ provenance' = provenance \cup {p} /\ evidence' = evidence \cup {e}
        /\ Return(w, p.provenance_id, TRUE)
    BY <1>10, <2>1 DEF Commit, StoreOpenRows
  <2>3. ASSUME NEW r \in results
        PROVE  \E q \in Existing(r.idempotency_key)' : q.provenance_id = r.provenance_id
    <3>1. PICK q \in Existing(r.idempotency_key) : q.provenance_id = r.provenance_id
      BY DEF WriterInv, ResultsAreStored
    <3>. QED BY <2>2, <3>1 DEF Existing
  <2>4. PICK k \in Keys : k = key[w]
    BY <1>10, RowsToCommit DEF Commit
  <2>5. p \in Existing(k)'
    BY <2>1, <2>2, <2>4 DEF Existing
  <2>6. results' = results \cup {[provenance_id |-> p.provenance_id,
                                  idempotency_key |-> k, created |-> TRUE]}
    BY <2>2, <2>4 DEF Return
  <2>. QED BY <2>3, <2>5, <2>6 DEF ResultsAreStored
<1>11. ASSUME NEW w \in Writers, CommitUnanswered(w)
      PROVE  ResultsAreStored'
  <2>1. results' = results /\ \A k \in Keys : Existing(k) \subseteq Existing(k)'
    BY <1>11 DEF CommitUnanswered, StoreOpenRows, Existing
  <2>. QED BY <2>1 DEF Existing, WriterInv, ResultsAreStored, TypeOK, WriteResults
<1>12. CASE UNCHANGED vars
  BY <1>12 DEF WriterInv, ResultsAreStored, Existing, vars
<1>. QED
  BY <1>1, <1>2, <1>3, <1>4, <1>5, <1>6, <1>7, <1>8, <1>9, <1>10, <1>11, <1>12
     DEF Next, Statement, Returns, Fails

\* A step of one writer that leaves the committed rows alone does not disturb
\* the others.
LEMMA OtherRowsFollow ==
    ASSUME WriterInv, NEW v \in Writers, domain' = domain, key' = key,
           stage'[v] = stage[v], open'[v] = open[v]
    PROVE  RowsFollowStage(v)'
BY DEF WriterInv, OpenRowsFollowStage, RowsFollowStage, InsertedDomain, InsertedProvenance

LEMMA NextOpenRowsFollowStage == WriterInv /\ [Next]_vars => OpenRowsFollowStage'
<1> SUFFICES ASSUME WriterInv, [Next]_vars PROVE OpenRowsFollowStage'
  OBVIOUS
<1> USE WriterAssumption DEF Goto, store
<1>1. ASSUME NEW w \in Writers, NEW k \in Keys, Handle(w, k)
      PROVE  OpenRowsFollowStage'
  BY <1>1
     DEF WriterInv, TypeOK, OpenRowsFollowStage, RowsFollowStage, InsertedDomain,
         InsertedProvenance, NoRows, StoreOpenRows, Handle
<1>2. ASSUME NEW w \in Writers, FindNone(w)
      PROVE  OpenRowsFollowStage'
  BY <1>2
     DEF WriterInv, TypeOK, OpenRowsFollowStage, RowsFollowStage, InsertedDomain,
         InsertedProvenance, NoRows, StoreOpenRows, FindNone
<1>3. ASSUME NEW w \in Writers, SelectDomain(w)
      PROVE  OpenRowsFollowStage'
  BY <1>3
     DEF WriterInv, TypeOK, OpenRowsFollowStage, RowsFollowStage, InsertedDomain,
         InsertedProvenance, NoRows, StoreOpenRows, SelectDomain
<1>4. ASSUME NEW w \in Writers, InsertDomain(w)
      PROVE  OpenRowsFollowStage'
  <2>1. /\ key[w] \in Keys /\ open[w].domain \subseteq {DomainOf[key[w]]}
        /\ open[w].provenance = {} /\ open[w].evidence = {}
    BY <1>4
       DEF InsertDomain, WriterInv, TypeOK, OpenRowsFollowStage, RowsFollowStage,
                InsertedProvenance
  <2>2. /\ stage'[w] = "insert_provenance" /\ key' = key /\ domain' = domain
        /\ open'[w].provenance = {} /\ open'[w].evidence = {}
        /\ open'[w].domain \subseteq {DomainOf[key[w]]}
        /\ DomainOf[key[w]] \in domain \cup open'[w].domain
    BY <1>4, <2>1 DEF InsertDomain, WriterInv, TypeOK
  <2>3. RowsFollowStage(w)'
    BY <2>1, <2>2
       DEF RowsFollowStage, InsertedDomain, InsertedProvenance, WriterInv, TypeOK
  <2>4. \A v \in Writers \ {w} : stage'[v] = stage[v] /\ open'[v] = open[v]
    BY <1>4 DEF InsertDomain, WriterInv, TypeOK
  <2>. QED BY <2>2, <2>3, <2>4, OtherRowsFollow DEF OpenRowsFollowStage
<1>5. ASSUME NEW w \in Writers, InsertProvenance(w)
      PROVE  OpenRowsFollowStage'
  <2>1. /\ key[w] \in Keys /\ open[w].domain \subseteq {DomainOf[key[w]]}
        /\ DomainOf[key[w]] \in domain \cup open[w].domain
        /\ open[w].provenance = {} /\ open[w].evidence = {}
    BY <1>5
       DEF InsertProvenance, WriterInv, TypeOK, OpenRowsFollowStage,
           RowsFollowStage,
                InsertedDomain, InsertedProvenance
  <2> DEFINE p == [provenance_id |-> NewId, method |-> key[w], writer |-> w]
  <2>2. p \in ProvenanceRows /\ p.method = key[w] /\ p.writer = w
    BY <1>5, <2>1, NewIdIsNew DEF InsertProvenance, ProvenanceRows, WriterInv
  <2>3. /\ stage'[w] = "insert_evidence" /\ key' = key /\ domain' = domain
        /\ open'[w].provenance = {p} /\ open'[w].evidence = {}
        /\ open'[w].domain = open[w].domain
    BY <1>5, <2>1 DEF InsertProvenance, WriterInv, TypeOK
  <2> HIDE DEF p
  <2>4. RowsFollowStage(w)'
    BY <2>1, <2>2, <2>3
       DEF RowsFollowStage, InsertedDomain, InsertedProvenance, WriterInv,
                            TypeOK
  <2>5. \A v \in Writers \ {w} : stage'[v] = stage[v] /\ open'[v] = open[v]
    BY <1>5 DEF InsertProvenance, WriterInv, TypeOK
  <2>. QED BY <2>3, <2>4, <2>5, OtherRowsFollow DEF OpenRowsFollowStage
<1>6. ASSUME NEW w \in Writers, InsertEvidence(w)
      PROVE  OpenRowsFollowStage'
  <2>1. /\ key[w] \in Keys /\ open[w].domain \subseteq {DomainOf[key[w]]}
        /\ DomainOf[key[w]] \in domain \cup open[w].domain
        /\ open[w].evidence = {}
    BY <1>6
       DEF InsertEvidence, WriterInv, TypeOK, OpenRowsFollowStage,
           RowsFollowStage,
                InsertedDomain, InsertedProvenance
  <2>2. PICK p \in ProvenanceRows :
              open[w].provenance = {p} /\ p.method = key[w] /\ p.writer = w
    BY <1>6 DEF InsertEvidence, WriterInv, OpenRowsFollowStage, RowsFollowStage,
                InsertedProvenance
  <2>3. /\ stage'[w] = "commit" /\ key' = key /\ domain' = domain
        /\ open'[w].provenance = {p} /\ open'[w].domain = open[w].domain
        /\ open'[w].evidence = {[provenance_id |-> p.provenance_id,
                                 domain_id |-> DomainOf[key[w]]]}
    BY <1>6, <2>1, <2>2 DEF InsertEvidence, WriterInv, TypeOK
  <2>4. RowsFollowStage(w)'
    BY <2>1, <2>2, <2>3
       DEF RowsFollowStage, InsertedDomain, InsertedProvenance, WriterInv,
                            TypeOK
  <2>5. \A v \in Writers \ {w} : stage'[v] = stage[v] /\ open'[v] = open[v]
    BY <1>6 DEF InsertEvidence, WriterInv, TypeOK
  <2>. QED BY <2>3, <2>4, <2>5, OtherRowsFollow DEF OpenRowsFollowStage
<1>7. ASSUME NEW w \in Writers, ReturnExisting(w)
      PROVE  OpenRowsFollowStage'
  BY <1>7
     DEF WriterInv, TypeOK, OpenRowsFollowStage, RowsFollowStage, InsertedDomain,
         InsertedProvenance, NoRows, StoreOpenRows, ReturnExisting, End
<1>8. ASSUME NEW w \in Writers, RaiseMultipleFound(w)
      PROVE  OpenRowsFollowStage'
  BY <1>8
     DEF WriterInv, TypeOK, OpenRowsFollowStage, RowsFollowStage, InsertedDomain,
         InsertedProvenance, NoRows, StoreOpenRows, RaiseMultipleFound, End
<1>9. ASSUME NEW w \in Writers, RollBack(w)
      PROVE  OpenRowsFollowStage'
  BY <1>9
     DEF WriterInv, TypeOK, OpenRowsFollowStage, RowsFollowStage, InsertedDomain,
         InsertedProvenance, NoRows, StoreOpenRows, RollBack, End
<1>10. ASSUME NEW w \in Writers, Commit(w)
      PROVE  OpenRowsFollowStage'
  BY <1>10
     DEF WriterInv, TypeOK, OpenRowsFollowStage, RowsFollowStage, InsertedDomain,
         InsertedProvenance, NoRows, StoreOpenRows, Commit, End
<1>11. ASSUME NEW w \in Writers, CommitUnanswered(w)
      PROVE  OpenRowsFollowStage'
  BY <1>11
     DEF WriterInv, TypeOK, OpenRowsFollowStage, RowsFollowStage, InsertedDomain,
         InsertedProvenance, NoRows, StoreOpenRows, CommitUnanswered, End
<1>12. CASE UNCHANGED vars
  BY <1>12
     DEF WriterInv, TypeOK, OpenRowsFollowStage, RowsFollowStage, InsertedDomain,
         InsertedProvenance, NoRows, StoreOpenRows, vars
<1>. QED
  BY <1>1, <1>2, <1>3, <1>4, <1>5, <1>6, <1>7, <1>8, <1>9, <1>10, <1>11, <1>12
     DEF Next, Statement, Returns, Fails

LEMMA NextOpenIdsAreFresh == WriterInv /\ [Next]_vars => OpenIdsAreFresh'
<1> SUFFICES ASSUME WriterInv, [Next]_vars PROVE OpenIdsAreFresh'
  OBVIOUS
<1> USE WriterAssumption DEF Goto, store
<1>1. ASSUME NEW w \in Writers, NEW k \in Keys, Handle(w, k)
      PROVE  OpenIdsAreFresh'
  BY <1>1 DEF WriterInv, TypeOK, OpenIdsAreFresh, NoRows, StoreOpenRows, Handle
<1>2. ASSUME NEW w \in Writers, FindNone(w)
      PROVE  OpenIdsAreFresh'
  BY <1>2 DEF WriterInv, TypeOK, OpenIdsAreFresh, NoRows, StoreOpenRows, FindNone
<1>3. ASSUME NEW w \in Writers, SelectDomain(w)
      PROVE  OpenIdsAreFresh'
  BY <1>3
     DEF WriterInv, TypeOK, OpenIdsAreFresh, NoRows, StoreOpenRows, SelectDomain
<1>4. ASSUME NEW w \in Writers, InsertDomain(w)
      PROVE  OpenIdsAreFresh'
  <2>1. provenance' = provenance
        /\ \A v \in Writers : open'[v].provenance = open[v].provenance
    BY <1>4 DEF InsertDomain, WriterInv, TypeOK
  <2>. QED BY <2>1 DEF OpenIdsAreFresh, WriterInv
<1>5. ASSUME NEW w \in Writers, InsertProvenance(w)
      PROVE  OpenIdsAreFresh'
  <2>1. open[w].provenance = {}
    BY <1>5
       DEF InsertProvenance, WriterInv, OpenRowsFollowStage, RowsFollowStage,
           InsertedProvenance
  <2> DEFINE p == [provenance_id |-> NewId, method |-> key[w], writer |-> w]
  <2>2. /\ \A q \in provenance : q.provenance_id # NewId
        /\ \A v \in Writers : \A q \in open[v].provenance : q.provenance_id # NewId
    BY <1>5, NewIdIsNew DEF InsertProvenance, UsedIds, WriterInv
  <2>3. open'[w].provenance = {p} /\ provenance' = provenance
    BY <1>5, <2>1 DEF InsertProvenance, WriterInv, TypeOK
  <2>4. \A v \in Writers \ {w} : open'[v] = open[v]
    BY <1>5 DEF InsertProvenance, WriterInv, TypeOK
  <2>. QED BY <2>2, <2>3, <2>4 DEF OpenIdsAreFresh, WriterInv
<1>6. ASSUME NEW w \in Writers, InsertEvidence(w)
      PROVE  OpenIdsAreFresh'
  BY <1>6
     DEF WriterInv, TypeOK, OpenIdsAreFresh, NoRows, StoreOpenRows, InsertEvidence
<1>7. ASSUME NEW w \in Writers, ReturnExisting(w)
      PROVE  OpenIdsAreFresh'
  BY <1>7
     DEF WriterInv, TypeOK, OpenIdsAreFresh, NoRows, StoreOpenRows,
         ReturnExisting, End
<1>8. ASSUME NEW w \in Writers, RaiseMultipleFound(w)
      PROVE  OpenIdsAreFresh'
  BY <1>8
     DEF WriterInv, TypeOK, OpenIdsAreFresh, NoRows, StoreOpenRows,
         RaiseMultipleFound, End
<1>9. ASSUME NEW w \in Writers, RollBack(w)
      PROVE  OpenIdsAreFresh'
  BY <1>9
     DEF WriterInv, TypeOK, OpenIdsAreFresh, NoRows, StoreOpenRows, RollBack, End
<1>10. ASSUME NEW w \in Writers, Commit(w)
      PROVE  OpenIdsAreFresh'
  BY <1>10
     DEF WriterInv, TypeOK, OpenIdsAreFresh, NoRows, StoreOpenRows, Commit, End
<1>11. ASSUME NEW w \in Writers, CommitUnanswered(w)
      PROVE  OpenIdsAreFresh'
  BY <1>11
     DEF WriterInv, TypeOK, OpenIdsAreFresh, NoRows, StoreOpenRows,
         CommitUnanswered, End
<1>12. CASE UNCHANGED vars
  BY <1>12 DEF WriterInv, TypeOK, OpenIdsAreFresh, NoRows, StoreOpenRows, vars
<1>. QED
  BY <1>1, <1>2, <1>3, <1>4, <1>5, <1>6, <1>7, <1>8, <1>9, <1>10, <1>11, <1>12
     DEF Next, Statement, Returns, Fails

LEMMA NextWritesOnlyWhatIsMissing == WriterInv /\ [Next]_vars => WritesOnlyWhatIsMissing'
<1> SUFFICES ASSUME WriterInv, [Next]_vars PROVE WritesOnlyWhatIsMissing'
  OBVIOUS
<1> USE WriterAssumption DEF Goto, store
<1>1. ASSUME NEW w \in Writers, NEW k \in Keys, Handle(w, k)
      PROVE  WritesOnlyWhatIsMissing'
  BY <1>1 DEF WriterInv, TypeOK, WritesOnlyWhatIsMissing, StoreOpenRows, Handle
<1>2. ASSUME NEW w \in Writers, FindNone(w)
      PROVE  WritesOnlyWhatIsMissing'
  <2>1. \A p \in provenance : p.method # key[w]
    <3>1. \A p \in provenance : \E e \in evidence : e.provenance_id = p.provenance_id
      BY DEF WriterInv, NoOrphans
    <3>. QED BY <1>2, <3>1 DEF FindNone, Existing
  <2>. QED BY <1>2, <2>1 DEF FindNone, WriterInv, TypeOK, WritesOnlyWhatIsMissing
<1>3. ASSUME NEW w \in Writers, SelectDomain(w)
      PROVE  WritesOnlyWhatIsMissing'
  BY <1>3
     DEF WriterInv, TypeOK, WritesOnlyWhatIsMissing, StoreOpenRows, SelectDomain
<1>4. ASSUME NEW w \in Writers, InsertDomain(w)
      PROVE  WritesOnlyWhatIsMissing'
  BY <1>4
     DEF WriterInv, TypeOK, WritesOnlyWhatIsMissing, StoreOpenRows, InsertDomain
<1>5. ASSUME NEW w \in Writers, InsertProvenance(w)
      PROVE  WritesOnlyWhatIsMissing'
  BY <1>5
     DEF WriterInv, TypeOK, WritesOnlyWhatIsMissing, StoreOpenRows,
         InsertProvenance
<1>6. ASSUME NEW w \in Writers, InsertEvidence(w)
      PROVE  WritesOnlyWhatIsMissing'
  BY <1>6
     DEF WriterInv, TypeOK, WritesOnlyWhatIsMissing, StoreOpenRows, InsertEvidence
<1>7. ASSUME NEW w \in Writers, ReturnExisting(w)
      PROVE  WritesOnlyWhatIsMissing'
  BY <1>7
     DEF WriterInv, TypeOK, WritesOnlyWhatIsMissing, StoreOpenRows,
         ReturnExisting, End
<1>8. ASSUME NEW w \in Writers, RaiseMultipleFound(w)
      PROVE  WritesOnlyWhatIsMissing'
  BY <1>8
     DEF WriterInv, TypeOK, WritesOnlyWhatIsMissing, StoreOpenRows,
         RaiseMultipleFound, End
<1>9. ASSUME NEW w \in Writers, RollBack(w)
      PROVE  WritesOnlyWhatIsMissing'
  BY <1>9
     DEF WriterInv, TypeOK, WritesOnlyWhatIsMissing, StoreOpenRows, RollBack, End
<1>10. ASSUME NEW w \in Writers, Commit(w)
      PROVE  WritesOnlyWhatIsMissing'
  <2>1. PICK p \in ProvenanceRows : /\ open[w].provenance = {p}
                                    /\ p.method = key[w] /\ p.writer = w
    BY <1>10, RowsToCommit DEF Commit
  <2>2. provenance' = provenance \cup {p}
    BY <1>10, <2>1 DEF Commit, StoreOpenRows
  <2>. QED BY <1>10, <2>1, <2>2
     DEF Commit, End, WriterInv, TypeOK, WritesOnlyWhatIsMissing
<1>11. ASSUME NEW w \in Writers, CommitUnanswered(w)
      PROVE  WritesOnlyWhatIsMissing'
  <2>1. PICK p \in ProvenanceRows : /\ open[w].provenance = {p}
                                    /\ p.method = key[w] /\ p.writer = w
    BY <1>11, RowsToCommit DEF CommitUnanswered
  <2>2. provenance' = provenance \cup {p}
    BY <1>11, <2>1 DEF CommitUnanswered, StoreOpenRows
  <2>. QED BY <1>11, <2>1, <2>2
     DEF CommitUnanswered, End, WriterInv, TypeOK, WritesOnlyWhatIsMissing
<1>12. CASE UNCHANGED vars
  BY <1>12 DEF WriterInv, TypeOK, WritesOnlyWhatIsMissing, StoreOpenRows, vars
<1>. QED
  BY <1>1, <1>2, <1>3, <1>4, <1>5, <1>6, <1>7, <1>8, <1>9, <1>10, <1>11, <1>12
     DEF Next, Statement, Returns, Fails

-----------------------------------------------------------------------------
LEMMA AlwaysWriterInv == Spec => []WriterInv
<1>1. Init => WriterInv
  BY WriterAssumption
     DEF Init, WriterInv, TypeOK, Stages, NoRows, NoOrphans, OnePairPerWriter,
         ResultsAreStored, OpenRowsFollowStage, RowsFollowStage, InsertedDomain, InsertedProvenance,
         OpenIdsAreFresh, IdsAreUnique, WritesOnlyWhatIsMissing
<1>2. WriterInv /\ [Next]_vars => WriterInv'
  BY NextTypeOK, NextStore, NextResultsAreStored, NextOpenRowsFollowStage,
     NextOpenIdsAreFresh, NextWritesOnlyWhatIsMissing DEF WriterInv
<1>. QED BY <1>1, <1>2, PTL DEF Spec

\* Whatever statement fails and wherever the writers interleave, a transaction
\* holds only rows of its own event, and none after write_evidence has returned or
\* raised (evidence_writer.py 195-261).
THEOREM WriterTypeCorrect == Spec => []TypeOK
<1>1. WriterInv => TypeOK
  BY DEF WriterInv
<1>. QED BY <1>1, AlwaysWriterInv, PTL

\* A failure between the two inserts of a pair, or at the commit, leaves no
\* orphan row (evidence_writer.py 167-168), whatever other writers do.
THEOREM StoreHasNoOrphans == Spec => []NoOrphans
<1>1. WriterInv => NoOrphans
  BY DEF WriterInv
<1>. QED BY <1>1, AlwaysWriterInv, PTL

\* The lookup before the insert (evidence_writer.py 195-205) keeps one writer
\* from ever storing a key twice; it does not bind two writers.
THEOREM WriterStoresOnce == Spec => []OnePairPerWriter
<1>1. WriterInv => OnePairPerWriter
  BY DEF WriterInv
<1>. QED BY <1>1, AlwaysWriterInv, PTL

\* A returned WriteResult names rows that are in the store under the event's
\* key (evidence_writer.py 175-176, 249-261).
THEOREM ReturnedRowsAreStored == Spec => []ResultsAreStored
<1>1. WriterInv => ResultsAreStored
  BY DEF WriterInv
<1>. QED BY <1>1, AlwaysWriterInv, PTL

-----------------------------------------------------------------------------
(***************************************************************************)
(* The writers implement EvidenceStore.                                    *)
(***************************************************************************)
\* The join of _find_existing finds what is stored.
LEMMA ExistingIsStored ==
    ASSUME NoOrphans, NEW k
    PROVE  Existing(k) = Atomic!Stored(k)
<1>1. \A p \in provenance : \E e \in evidence : e.provenance_id = p.provenance_id
  BY DEF NoOrphans
<1>. QED BY <1>1 DEF Existing, Atomic!Stored

LEMMA CommitIsAtomic ==
    ASSUME WriterInv, NEW w \in Writers, stage[w] = "commit", StoreOpenRows(w),
           \/ UNCHANGED results
           \/ \E p \in open[w].provenance : Return(w, p.provenance_id, TRUE)
    PROVE  Atomic!Next
<1>1. PICK p \in ProvenanceRows, e \in EvidenceRows :
              /\ open[w].provenance = {p} /\ open[w].evidence = {e}
              /\ p.method = key[w] /\ p.writer = w /\ key[w] \in Keys
              /\ e.provenance_id = p.provenance_id
              /\ e.domain_id = DomainOf[p.method]
              /\ e.domain_id \in domain \cup open[w].domain
              /\ \A q \in provenance : q.provenance_id # p.provenance_id
              /\ \A q \in provenance : q.method = p.method => q.writer # w
  BY RowsToCommit
<1> DEFINE id == p.provenance_id
<1>2. id \in RowIds /\ p = [provenance_id |-> id, method |-> key[w], writer |-> w]
  BY <1>1 DEF ProvenanceRows
<1>3. e = [provenance_id |-> id, domain_id |-> DomainOf[key[w]]]
  BY <1>1 DEF EvidenceRows
<1>4. domain' = domain \cup {DomainOf[key[w]]}
  <2>1. open[w].domain \subseteq {DomainOf[key[w]]}
    BY DEF WriterInv, OpenRowsFollowStage, RowsFollowStage
  <2>. QED BY <1>1, <2>1 DEF StoreOpenRows
<1>5. results' \in {results, results \cup {Atomic!Answer(id, key[w], TRUE)}}
  BY <1>1 DEF Return, Atomic!Answer
<1>6. Atomic!Store(w, key[w], id)
  BY <1>1, <1>2, <1>3, <1>4, <1>5 DEF StoreOpenRows, Atomic!Store, Atomic!Stored
<1>. QED BY <1>1, <1>2, <1>6 DEF Atomic!Next

LEMMA StepIsAtomic ==
    ASSUME WriterInv, [Next]_vars
    PROVE  [Atomic!Next]_Atomic!vars
<1>1. ASSUME NEW w \in Writers, Commit(w) \/ CommitUnanswered(w)
      PROVE  Atomic!Next
  BY <1>1, CommitIsAtomic DEF Commit, CommitUnanswered
<1>2. ASSUME NEW w \in Writers, ReturnExisting(w)
      PROVE  Atomic!Next
  <2>1. key[w] \in Keys
    BY <1>2 DEF ReturnExisting, WriterInv, OpenRowsFollowStage, RowsFollowStage, TypeOK
  <2>2. Existing(key[w]) = Atomic!Stored(key[w])
    BY ExistingIsStored DEF WriterInv
  <2>3. Atomic!Find(key[w])
    BY <1>2, <2>2 DEF ReturnExisting, Return, store, Atomic!Find, Atomic!Answer
  <2>. QED BY <2>1, <2>3 DEF Atomic!Next
<1>3. ASSUME NEW w \in Writers,
             \/ \E k \in Keys : Handle(w, k)
             \/ Statement(w) \/ RaiseMultipleFound(w) \/ RollBack(w)
      PROVE  UNCHANGED Atomic!vars
  BY <1>3 DEF Handle, Statement, FindNone, SelectDomain, InsertDomain, InsertProvenance,
              InsertEvidence, RaiseMultipleFound, RollBack, store, Atomic!vars
<1>4. UNCHANGED vars => UNCHANGED Atomic!vars
  BY DEF vars, Atomic!vars
<1>. QED BY <1>1, <1>2, <1>3, <1>4 DEF Next, Returns, Fails

\* For any number of writers, the statement-by-statement transactions under READ
\* COMMITTED, with their failures and lost answers, store whole pairs in single
\* steps (evidence_writer.py 26-53, 162-170).
THEOREM WritersImplementStore == Spec => WritesAreAtomic
<1>1. Init => Atomic!Init
  BY DEF Init, Atomic!Init
<1>2. WriterInv /\ [Next]_vars => [Atomic!Next]_Atomic!vars
  BY StepIsAtomic
<1>. QED BY <1>1, <1>2, AlwaysWriterInv, PTL DEF Spec, WritesAreAtomic, Atomic!Spec
=============================================================================
