------------------------ MODULE CanonicalStoreProofs ------------------------
(***************************************************************************)
(* For every set of rows the application can write: references hold, roles *)
(* stay within the scope of their account, records are kept, and the view  *)
(* never goes back to older evidence.                                      *)
(***************************************************************************)
EXTENDS CanonicalStore, FiniteSetTheorems, WellFoundedInduction, TLAPS

StoreInv == TypeOK /\ ReferencesHold

LEMMA KeysGrow ==
    ASSUME NEW S, NEW T, S \subseteq T
    PROVE  KeysOf(S) \subseteq KeysOf(T)
BY DEF KeysOf

LEMMA KeysWithout ==
    ASSUME NEW S, NEW r
    PROVE  KeysOf(S) \ Keys(r) \subseteq KeysOf(S \ {r})
BY DEF KeysOf

LEMMA KeysReplaced ==
    ASSUME NEW S, NEW old, NEW new
    PROVE  KeysOf(S) \ (Keys(old) \ Keys(new)) \subseteq KeysOf((S \ {old}) \cup {new})
BY DEF KeysOf

\* Whatever a row refers to in the rows of one state, it finds in the next: the
\* step at the bottom of all theorems of this module.
LEMMA ReferencesFound ==
    ASSUME ReferencesHold, [Next]_vars, NEW r \in rows
    PROVE  Refers(r) \subseteq KeysOf(rows')
<1>1. Refers(r) \subseteq KeysOf(rows)
  BY DEF ReferencesHold
<1>2. ASSUME NEW n \in Rows, Insert(n) PROVE Refers(r) \subseteq KeysOf(rows')
  BY <1>1, <1>2, KeysGrow DEF Insert
<1>3. ASSUME NEW old \in rows, NEW new \in Rows, Update(old, new)
      PROVE  Refers(r) \subseteq KeysOf(rows')
  <2>1. Refers(r) \cap (Keys(old) \ Keys(new)) = {}
    BY <1>3 DEF Update, Unreferenced
  <2>2. rows' = (rows \ {old}) \cup {new}
    BY <1>3 DEF Update
  <2> QED
    BY <1>1, <2>1, <2>2, KeysReplaced
<1>4. ASSUME NEW d \in rows, Delete(d) PROVE Refers(r) \subseteq KeysOf(rows')
  <2>1. Refers(r) \cap Keys(d) = {}
    BY <1>4 DEF Delete, Unreferenced
  <2>2. rows' = rows \ {d}
    BY <1>4 DEF Delete
  <2> QED
    BY <1>1, <2>1, <2>2, KeysWithout
<1>5. CASE UNCHANGED rows
  BY <1>1, <1>5
<1> QED
  BY <1>2, <1>3, <1>4, <1>5 DEF Next, BeginRefresh, EndRefresh, vars

\* A row of an append-only table is still there after any step.
LEMMA RecordKept ==
    ASSUME [Next]_vars, NEW r \in rows, r.table \in AppendOnlyTables
    PROVE  r \in rows'
<1>1. ASSUME NEW n \in Rows, Insert(n) PROVE r \in rows'
  BY <1>1 DEF Insert
<1>2. ASSUME NEW old \in rows, NEW new \in Rows, Update(old, new) PROVE r \in rows'
  BY <1>2 DEF Update, Mutable
<1>3. ASSUME NEW d \in rows, Delete(d) PROVE r \in rows'
  BY <1>3 DEF Delete, Mutable
<1> QED
  BY <1>1, <1>2, <1>3 DEF Next, BeginRefresh, EndRefresh, vars

LEMMA TypeStep ==
    ASSUME TypeOK, [Next]_vars
    PROVE  TypeOK'
<1>1. rows' \subseteq Rows
  BY DEF TypeOK, Next, vars, Insert, Update, Delete, BeginRefresh, EndRefresh
<1>2. StoredEvidence \subseteq StoredEvidence'
  <2>1. ASSUME NEW e \in StoredEvidence PROVE e \in StoredEvidence'
    <3>1. e \in rows /\ e.table = "evidence"
      BY DEF StoredEvidence
    <3>2. e \in rows'
      BY <3>1, RecordKept DEF AppendOnlyTables
    <3> QED
      BY <3>1, <3>2 DEF StoredEvidence
  <2> QED
    BY <2>1
<1>3. view' \subseteq view \cup (IF snapshot = None THEN {} ELSE snapshot)
  BY DEF Next, vars, Insert, Update, Delete, BeginRefresh, EndRefresh
<1>4. snapshot' = None \/ snapshot' = snapshot \/ snapshot' \subseteq StoredEvidence
  BY DEF Next, vars, Insert, Update, Delete, BeginRefresh, EndRefresh, Latest
<1> QED
  BY <1>1, <1>2, <1>3, <1>4 DEF TypeOK

LEMMA StoreInvInductive == Spec => []StoreInv
<1>1. Init => StoreInv
  BY DEF Init, StoreInv, TypeOK, ReferencesHold, StoredEvidence
<1>2. StoreInv /\ [Next]_vars => StoreInv'
  <2> SUFFICES ASSUME StoreInv, [Next]_vars PROVE StoreInv'
    OBVIOUS
  <2> USE DEF StoreInv
  <2>1. ASSUME NEW r \in rows' PROVE Refers(r) \subseteq KeysOf(rows')
    <3>1. CASE r \in rows
      BY <3>1, ReferencesFound
    <3>2. CASE r \notin rows
      <4>1. ASSUME NEW n \in Rows, Insert(n) PROVE Refers(r) \subseteq KeysOf(rows')
        BY <3>2, <4>1, KeysGrow DEF Insert
      <4>2. ASSUME NEW old \in rows, NEW new \in Rows, Update(old, new)
            PROVE  Refers(r) \subseteq KeysOf(rows')
        BY <3>2, <4>2 DEF Update
      <4>3. ASSUME NEW d \in rows, Delete(d) PROVE FALSE
        BY <3>2, <4>3 DEF Delete
      <4> QED
        BY <3>2, <4>1, <4>2, <4>3 DEF Next, BeginRefresh, EndRefresh, vars
    <3> QED
      BY <3>1, <3>2
  <2>2. ReferencesHold'
    BY <2>1 DEF ReferencesHold
  <2> QED
    BY <2>2, TypeStep
<1> QED
  BY <1>1, <1>2, PTL DEF Spec

\* The tables, the view and a refresh under way hold what they may.
THEOREM StoreTypeCorrect == Spec => []TypeOK
<1>1. StoreInv => TypeOK
  BY DEF StoreInv
<1> QED
  BY <1>1, StoreInvInductive, PTL

\* A role assignment's own row satisfies the CHECK, and its reference finds the
\* account with the archetype that it carries.
LEMMA ScopeFromReferences ==
    ASSUME StoreInv
    PROVE  RoleScopeFollowsAccount
<1> DEFINE pinned == <<"user_role_assignment", <<"user_id", "account_archetype">>,
                       "user_account", <<"user_id", "archetype">> >>
<1> SUFFICES ASSUME NEW r \in rows, r.table = "user_role_assignment"
             PROVE  \E a \in rows : /\ a.table = "user_account" /\ a.user_id = r.user_id
                                    /\ (a.archetype = "brand_customer") <=> (r.customer_id # None)
  BY DEF RoleScopeFollowsAccount
<1>1. r \in UserRoleAssignment
  BY DEF StoreInv, TypeOK, Rows, Domain, Pool, DomainPoolMembership, Provenance,
     Evidence, Attestation, Score, ScoreHistory, UserAccount, UserSession,
     AuthAuditEvent, OperatorAccountExtension, BrandCustomerAccountExtension,
     FoundationUserAccountExtension
<1>2. r.user_id \in Accounts /\ r.account_archetype \in Archetypes /\ CustomerRequired(r)
  BY <1>1 DEF UserRoleAssignment
<1>3. r.user_id # None /\ r.account_archetype # None
  BY <1>2, StoreAssumption DEF Archetypes
<1>4. <<"user_account", <<"user_id", "archetype">>,
        Columns(r, <<"user_id", "account_archetype">>)>> \in Refers(r)
  <2>1. pinned \in References
    BY DEF References, ScoreAndRoleReferences
  <2>2. pinned[1] = r.table
    OBVIOUS
  <2>3. \A i \in DOMAIN pinned[2] : r[pinned[2][i]] # None
    BY <1>3
  <2> QED
    BY <2>1, <2>2, <2>3 DEF Refers
<1>5. PICK a \in rows : <<"user_account", <<"user_id", "archetype">>,
                          Columns(r, <<"user_id", "account_archetype">>)>> \in Keys(a)
  BY <1>4 DEF StoreInv, ReferencesHold, KeysOf
<1>6. PICK k \in UniqueKeys :
         /\ k[1] = a.table
         /\ <<"user_account", <<"user_id", "archetype">>,
              Columns(r, <<"user_id", "account_archetype">>)>>
              = <<k[1], k[2], Columns(a, k[2])>>
  BY <1>5 DEF Keys
<1>7. /\ a.table = "user_account"
      /\ Columns(r, <<"user_id", "account_archetype">>)
         = Columns(a, <<"user_id", "archetype">>)
  BY <1>6
<1>8. a.user_id = r.user_id /\ a.archetype = r.account_archetype
  <2>1. \A i \in 1..2 : Columns(r, <<"user_id", "account_archetype">>)[i]
                        = Columns(a, <<"user_id", "archetype">>)[i]
    BY <1>7
  <2> QED
    BY <2>1 DEF Columns
<1> QED
  BY <1>2, <1>7, <1>8 DEF CustomerRequired

\* Customer isolation holds at every moment, for every sequence of statements.
THEOREM RolesStayInScope == Spec => []RoleScopeFollowsAccount
BY StoreInvInductive, ScopeFromReferences, PTL

\* Append-only rows stay, and with them all that they refer to.
THEOREM RecordsAreKept == Spec => RecordsStay
<1>1. StoreInv /\ [Next]_vars =>
        [\A r \in rows : r.table \in {"evidence", "provenance", "score_history",
                                      "attestation", "auth_audit_event"} =>
            r \in rows' /\ Refers(r) \subseteq KeysOf(rows')]_vars
  BY RecordKept, ReferencesFound DEF StoreInv, AppendOnlyTables
<1> QED
  BY <1>1, StoreInvInductive, PTL DEF Spec, RecordsStay
-----------------------------------------------------------------------------
(***************************************************************************)
(* evidence_current never regresses.  The order of the view is total on    *)
(* the rows of one natural key only because evidence_id is unique, and a   *)
(* newest row exists only because the table is finite.                     *)
(***************************************************************************)
\* Keys are shared by no two rows.
LEMMA KeysUniqueStep ==
    ASSUME KeysAreUnique, [Next]_vars
    PROVE  KeysAreUnique'
<1> SUFFICES ASSUME NEW r \in rows', NEW s \in rows', Keys(r) \cap Keys(s) # {}
             PROVE  r = s
  BY DEF KeysAreUnique
<1>1. ASSUME NEW x, NEW S, NEW y \in S, Keys(x) \cap KeysOf(S) = {}
      PROVE  Keys(x) \cap Keys(y) = {}
  BY <1>1 DEF KeysOf
<1>2. ASSUME NEW n \in Rows, Insert(n) PROVE r = s
  BY <1>1, <1>2 DEF Insert, KeysAreUnique
<1>3. ASSUME NEW old \in rows, NEW new \in Rows, Update(old, new) PROVE r = s
  BY <1>1, <1>3 DEF Update, KeysAreUnique
<1>4. ASSUME NEW d \in rows, Delete(d) PROVE r = s
  BY <1>4 DEF Delete, KeysAreUnique
<1>5. CASE UNCHANGED rows
  BY <1>5 DEF KeysAreUnique
<1> QED
  BY <1>2, <1>3, <1>4, <1>5 DEF Next, BeginRefresh, EndRefresh, vars

LEMMA FinitelyManyRows ==
    ASSUME IsFiniteSet(rows), [Next]_vars
    PROVE  IsFiniteSet(rows')
<1>1. ASSUME NEW n \in Rows, Insert(n) PROVE IsFiniteSet(rows')
  BY <1>1, FS_AddElement DEF Insert
<1>2. ASSUME NEW old \in rows, NEW new \in Rows, Update(old, new)
      PROVE  IsFiniteSet(rows')
  BY <1>2, FS_AddElement, FS_RemoveElement DEF Update
<1>3. ASSUME NEW d \in rows, Delete(d) PROVE IsFiniteSet(rows')
  BY <1>3, FS_RemoveElement DEF Delete
<1> QED
  BY <1>1, <1>2, <1>3 DEF Next, BeginRefresh, EndRefresh, vars

LEMMA EvidenceColumns ==
    ASSUME TypeOK, NEW e \in StoredEvidence
    PROVE  e.observed_at \in Nat /\ e.recorded_at \in Nat /\ e.evidence_id \in Nat
<1>1. e \in Evidence
  BY DEF StoredEvidence, TypeOK, Rows, Domain, Pool, DomainPoolMembership, Provenance,
     Attestation, Score, ScoreHistory, UserAccount, UserSession, UserRoleAssignment,
     AuthAuditEvent, OperatorAccountExtension, BrandCustomerAccountExtension,
     FoundationUserAccountExtension
<1>2. e.observed_at \in Times /\ e.recorded_at \in Times /\ e.evidence_id \in Ids
  BY <1>1 DEF Evidence
<1> QED
  BY <1>2, StoreAssumption

\* The primary key of evidence.
LEMMA EvidenceIdIsUnique ==
    ASSUME KeysAreUnique, NEW e \in StoredEvidence, NEW f \in StoredEvidence,
           e.evidence_id = f.evidence_id
    PROVE  e = f
<1> DEFINE key(r) == <<"evidence", <<"evidence_id">>, Columns(r, <<"evidence_id">>)>>
<1>1. <<"evidence", <<"evidence_id">> >> \in UniqueKeys
  BY DEF UniqueKeys, EvidenceKeys
<1>2. key(e) \in Keys(e) /\ key(f) \in Keys(f)
  BY <1>1 DEF Keys, StoredEvidence
<1>3. key(e) = key(f)
  BY DEF Columns
<1>4. e \in rows /\ f \in rows
  BY DEF StoredEvidence
<1> HIDE DEF key
<1> QED
  BY <1>2, <1>3, <1>4 DEF KeysAreUnique

\* Newer is a strict total order on stored evidence.
LEMMA NewerIsTotal ==
    ASSUME TypeOK, KeysAreUnique, NEW e \in StoredEvidence, NEW f \in StoredEvidence
    PROVE  e = f \/ Newer(e, f) \/ Newer(f, e)
BY EvidenceColumns, EvidenceIdIsUnique DEF Newer

LEMMA NewerIsStrictOrder ==
    ASSUME TypeOK, NEW e \in StoredEvidence, NEW f \in StoredEvidence,
           NEW g \in StoredEvidence
    PROVE  ~Newer(e, e) /\ (Newer(e, f) /\ Newer(f, g) => Newer(e, g))
BY EvidenceColumns DEF Newer

LEMMA LeastNumber ==
    ASSUME NEW T \in SUBSET Nat, T # {}
    PROVE  \E n \in T : \A m \in T : n <= m
<1>1. PICK n \in T : \A m \in T : ~(<<m, n>> \in OpToRel(<, Nat))
  BY NatLessThanWellFounded, WFMin
<1>2. ASSUME NEW m \in T PROVE n <= m
  <2>1. ~(m < n)
    BY <1>1 DEF OpToRel
  <2> QED
    BY <2>1
<1> QED
  BY <1>2

\* Every stored observation is in the view's query, or a newer one of its
\* natural key is.
LEMMA LatestCovers ==
    ASSUME TypeOK, KeysAreUnique, IsFiniteSet(rows), NEW e \in StoredEvidence
    PROVE  \E f \in Latest : NaturalKey(e) = NaturalKey(f) /\ (e = f \/ Newer(f, e))
<1> DEFINE Above(g) == {h \in StoredEvidence :
                           NaturalKey(h) = NaturalKey(g) /\ Newer(h, g)}
           G == {g \in StoredEvidence :
                    NaturalKey(e) = NaturalKey(g) /\ (e = g \/ Newer(g, e))}
           T == {Cardinality(Above(g)) : g \in G}
<1>1. ASSUME NEW g PROVE IsFiniteSet(Above(g)) /\ Cardinality(Above(g)) \in Nat
  <2>1. Above(g) \in SUBSET rows
    BY DEF StoredEvidence
  <2> QED
    BY <2>1, FS_Subset, FS_CardinalityType
<1>2. PICK f \in G : \A g \in G : Cardinality(Above(f)) <= Cardinality(Above(g))
  <2>1. T \in SUBSET Nat /\ T # {}
    BY <1>1
  <2>2. PICK n \in T : \A m \in T : n <= m
    <3> HIDE DEF T
    <3> QED
      BY <2>1, LeastNumber
  <2> HIDE DEF Above, G
  <2>3. PICK f \in G : n = Cardinality(Above(f))
    BY <2>2
  <2> QED
    BY <2>2, <2>3
<1>3. ASSUME NEW g \in Above(f) PROVE FALSE
  <2>1. g \in G
    BY <1>2, <1>3, NewerIsStrictOrder
  <2>2. Above(g) \subseteq Above(f)
    BY <1>2, <1>3, NewerIsStrictOrder
  <2>3. g \notin Above(g)
    BY <1>3, NewerIsStrictOrder
  <2>4. Cardinality(Above(g)) < Cardinality(Above(f))
    <3> HIDE DEF Above
    <3>1. Above(g) # Above(f)
      BY <1>3, <2>3
    <3>2. /\ Cardinality(Above(g)) <= Cardinality(Above(f))
          /\ Cardinality(Above(f)) = Cardinality(Above(g)) => Above(f) = Above(g)
      BY <1>1, <2>2, FS_Subset
    <3> QED
      BY <1>1, <3>1, <3>2
  <2> HIDE DEF Above, G
  <2> QED
    BY <1>1, <1>2, <2>1, <2>4
<1>4. f \in Latest
  BY <1>2, <1>3, NewerIsTotal DEF Latest
<1> QED
  BY <1>2, <1>4

\* What a refresh under way is about to show takes nothing back.
SnapshotCoversView ==
    snapshot # None =>
        \A e \in view : \E f \in snapshot :
            NaturalKey(e) = NaturalKey(f) /\ (e = f \/ Newer(f, e))

ViewInv == StoreInv /\ KeysAreUnique /\ IsFiniteSet(rows) /\ SnapshotCoversView

LEMMA SnapshotCoversViewStep ==
    ASSUME TypeOK, KeysAreUnique, IsFiniteSet(rows), SnapshotCoversView, [Next]_vars
    PROVE  SnapshotCoversView'
<1>1. CASE BeginRefresh
  <2>1. view \subseteq StoredEvidence
    BY DEF TypeOK
  <2>2. \A e \in view : \E f \in Latest :
           NaturalKey(e) = NaturalKey(f) /\ (e = f \/ Newer(f, e))
    BY <2>1, LatestCovers
  <2>3. snapshot' = Latest /\ view' = view
    BY <1>1 DEF BeginRefresh
  <2> QED
    BY <2>2, <2>3 DEF SnapshotCoversView
<1>2. CASE EndRefresh
  BY <1>2 DEF EndRefresh, SnapshotCoversView
<1>3. CASE UNCHANGED <<view, snapshot>>
  BY <1>3 DEF SnapshotCoversView
<1> QED
  BY <1>1, <1>2, <1>3 DEF Next, vars, Insert, Update, Delete

LEMMA ViewInvInductive == Spec => []ViewInv
<1>1. Init => KeysAreUnique /\ IsFiniteSet(rows) /\ SnapshotCoversView
  BY FS_EmptySet DEF Init, KeysAreUnique, SnapshotCoversView
<1>2. StoreInv /\ KeysAreUnique /\ IsFiniteSet(rows) /\ SnapshotCoversView /\ [Next]_vars
      => (KeysAreUnique /\ IsFiniteSet(rows) /\ SnapshotCoversView)'
  BY KeysUniqueStep, FinitelyManyRows, SnapshotCoversViewStep DEF StoreInv
<1> QED
  BY <1>1, <1>2, StoreInvInductive, PTL DEF Spec, ViewInv

\* The constraints of migration 0001 hold: no two rows share a unique key, and
\* no reference dangles.
THEOREM ConstraintsHold == Spec => [](KeysAreUnique /\ ReferencesHold)
<1>1. ViewInv => KeysAreUnique /\ ReferencesHold
  BY DEF ViewInv, StoreInv
<1> QED
  BY <1>1, ViewInvInductive, PTL

\* For any number of evidence rows, in any order of observation and recording,
\* with inserts during a refresh: no natural key leaves evidence_current, and
\* none goes back to an older row (models.py 358-360).
THEOREM ViewIsMonotone == Spec => ViewNeverRegresses
<1>1. ViewInv /\ [Next]_vars =>
        [\A e \in view : \E f \in view' :
            NaturalKey(e) = NaturalKey(f) /\ (e = f \/ Newer(f, e))]_vars
  <2> SUFFICES ASSUME ViewInv, Next, NEW e \in view
               PROVE  \E f \in view' :
                          NaturalKey(e) = NaturalKey(f) /\ (e = f \/ Newer(f, e))
    OBVIOUS
  <2>1. CASE EndRefresh
    BY <2>1 DEF EndRefresh, ViewInv, SnapshotCoversView
  <2>2. CASE view' = view
    BY <2>2
  <2> QED
    BY <2>1, <2>2 DEF Next, Insert, Update, Delete, BeginRefresh
<1> QED
  BY <1>1, ViewInvInductive, PTL DEF Spec, ViewNeverRegresses
=============================================================================
