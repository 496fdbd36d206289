--------------------------- MODULE CanonicalStore ---------------------------
(***************************************************************************)
(* The canonical store (data-model/): the fifteen tables with their keys,  *)
(* references and checks, the rights of the role trustlist_app, under      *)
(* which every service connects, and the materialised view                 *)
(* evidence_current.  A row is a record of the columns that keys,          *)
(* references, checks or the view look at.                                 *)
(***************************************************************************)
EXTENDS Naturals, FiniteSets

CONSTANTS Domains, Pools, Accounts, Customers, Roles,
          Ids,       \* the other surrogate keys
          Urls,      \* signal_class and source_url of evidence
          Times,
          None,      \* NULL
          MaxRows    \* bound on the rows of all tables together

Archetypes == {"operator", "brand_customer", "foundation_internal"}

ASSUME StoreAssumption ==
    /\ Ids \subseteq Nat /\ Times \subseteq Nat
    /\ None \notin Domains \cup Pools \cup Accounts \cup Customers \cup Archetypes

VARIABLES rows,      \* what is committed in all tables
          view,      \* the contents of evidence_current
          snapshot   \* what a refresh that is under way has read, or None

vars == <<rows, view, snapshot>>
-----------------------------------------------------------------------------
(***************************************************************************)
(* The rows that the columns and CHECK constraints of each table allow.    *)
(***************************************************************************)
\* A domain_id stands for its normalised_url, a pool_id for its handle and a
\* user_id for its e-mail address too: they are unique and play no other part.
Domain == [table : {"domain"}, domain_id : Domains]

Pool == [table : {"pool"}, pool_id : Pools]

DomainPoolMembership ==
    [table : {"domain_pool_membership"}, domain_id : Domains, pool_id : Pools,
     valid_from : Times]

Provenance ==
    [table : {"provenance"}, provenance_id : Ids,
     contributor_id : Accounts \cup {None}]

Evidence ==
    [table : {"evidence"}, evidence_id : Ids, domain_id : Domains,
     source_url : Urls, observed_at : Times, recorded_at : Times,
     provenance_id : Ids]

Attestation ==
    [table : {"attestation"}, attestation_id : Ids, domain_id : Domains,
     pool_id : Pools \cup {None}, operator_user_id : Accounts]

Score == [table : {"score"}, domain_id : Domains]

ScoreHistory ==
    [table : {"score_history"}, score_history_id : Ids, domain_id : Domains]

UserAccount ==
    [table : {"user_account"}, user_id : Accounts, archetype : Archetypes]

UserSession ==
    [table : {"user_session"}, session_id : Ids, user_id : Accounts]

\* customer_id is there for, and only for, brand customers.
CustomerRequired(r) ==
    (r.account_archetype = "brand_customer") <=> (r.customer_id # None)

UserRoleAssignment ==
    {r \in [table : {"user_role_assignment"}, user_id : Accounts,
            account_archetype : Archetypes, role : Roles, granted_at : Times,
            granted_by_user_id : Accounts \cup {None},
            customer_id : Customers \cup {None}] : CustomerRequired(r)}

AuthAuditEvent ==
    [table : {"auth_audit_event"}, auth_audit_event_id : Ids,
     user_id : Accounts \cup {None}]

OperatorAccountExtension ==
    [table : {"operator_account_extension"}, user_id : Accounts]

BrandCustomerAccountExtension ==
    [table : {"brand_customer_account_extension"}, user_id : Accounts,
     customer_id : Customers]

FoundationUserAccountExtension ==
    [table : {"foundation_user_account_extension"}, user_id : Accounts]

Rows == Domain \cup Pool \cup DomainPoolMembership \cup Provenance \cup Evidence
        \cup Attestation \cup Score \cup ScoreHistory \cup UserAccount
        \cup UserSession \cup UserRoleAssignment \cup AuthAuditEvent
        \cup OperatorAccountExtension \cup BrandCustomerAccountExtension
        \cup FoundationUserAccountExtension
-----------------------------------------------------------------------------
(***************************************************************************)
(* The constraints of migration 0001: which columns are unique together,   *)
(* and which columns of a table must be found under a key of another.      *)
(***************************************************************************)
IdentityKeys ==
    {<<"domain", <<"domain_id">> >>, <<"pool", <<"pool_id">> >>,
     <<"user_account", <<"user_id">> >>,
     <<"user_account", <<"user_id", "archetype">> >>}

EvidenceKeys ==
    {<<"domain_pool_membership", <<"domain_id", "pool_id", "valid_from">> >>,
     <<"provenance", <<"provenance_id">> >>, <<"evidence", <<"evidence_id">> >>,
     <<"attestation", <<"attestation_id">> >>}

ScoreAndRoleKeys ==
    {<<"score", <<"domain_id">> >>, <<"score_history", <<"score_history_id">> >>,
     <<"user_session", <<"session_id">> >>,
     <<"user_role_assignment", <<"user_id", "role", "granted_at">> >>}

AuditAndExtensionKeys ==
    {<<"auth_audit_event", <<"auth_audit_event_id">> >>}
    \cup {<<t, <<"user_id">> >> : t \in {"operator_account_extension",
             "brand_customer_account_extension", "foundation_user_account_extension"}}

UniqueKeys == IdentityKeys \cup EvidenceKeys \cup ScoreAndRoleKeys
              \cup AuditAndExtensionKeys

\* The column of table t that refers to the primary key of a parent.
ToDomain(t) == <<t, <<"domain_id">>, "domain", <<"domain_id">> >>
ToPool(t) == <<t, <<"pool_id">>, "pool", <<"pool_id">> >>
ToAccount(t, column) == <<t, <<column>>, "user_account", <<"user_id">> >>

EvidenceReferences ==
    {ToDomain("domain_pool_membership"), ToPool("domain_pool_membership"),
     ToAccount("provenance", "contributor_id"), ToDomain("evidence"),
     <<"evidence", <<"provenance_id">>, "provenance", <<"provenance_id">> >>,
     ToDomain("attestation"), ToPool("attestation"),
     ToAccount("attestation", "operator_user_id")}

\* Seeded fault: the role assignment refers to the account's user_id only.
ScoreAndRoleReferencesUnpinned ==
    {ToDomain("score"), ToDomain("score_history"),
     ToAccount("user_session", "user_id"),
     ToAccount("user_role_assignment", "granted_by_user_id"),
     ToAccount("user_role_assignment", "user_id")}

\* The last one pins account_archetype to the account's archetype.
ScoreAndRoleReferences ==
    {ToDomain("score"), ToDomain("score_history"),
     ToAccount("user_session", "user_id"),
     ToAccount("user_role_assignment", "granted_by_user_id"),
     <<"user_role_assignment", <<"user_id", "account_archetype">>,
       "user_account", <<"user_id", "archetype">> >>}

AuditAndExtensionReferences ==
    {ToAccount(t, "user_id") : t \in {"auth_audit_event",
        "operator_account_extension", "brand_customer_account_extension",
        "foundation_user_account_extension"}}

References == EvidenceReferences \cup ScoreAndRoleReferences
              \cup AuditAndExtensionReferences

Columns(r, cs) == [i \in DOMAIN cs |-> r[cs[i]]]

\* What r can be found under, and what must be found for r to be allowed.
Keys(r) == {<<k[1], k[2], Columns(r, k[2])>> : k \in {u \in UniqueKeys : u[1] = r.table}}

\* A reference with a NULL in it refers to nothing.
Refers(r) ==
    {<<f[3], f[4], Columns(r, f[2])>> : f \in
        {g \in References : g[1] = r.table /\ \A i \in DOMAIN g[2] : r[g[2][i]] # None}}

KeysOf(S) == UNION {Keys(r) : r \in S}
-----------------------------------------------------------------------------
(***************************************************************************)
(* What trustlist_app may do.                                              *)
(***************************************************************************)
\* Seeded fault: evidence is not among the tables that lose UPDATE and DELETE.
AppendOnlyWithoutEvidence ==
    {"provenance", "score_history", "attestation", "auth_audit_event"}

AppendOnlyTables ==
    {"evidence", "provenance", "score_history", "attestation", "auth_audit_event"}

\* SELECT and INSERT are granted on every table, UPDATE and DELETE on these rows.
Mutable(r) == r.table \notin AppendOnlyTables

Insert(r) ==
    /\ Cardinality(rows) < MaxRows
    /\ Keys(r) \cap KeysOf(rows) = {}
    /\ Refers(r) \subseteq KeysOf(rows)
    /\ rows' = rows \cup {r}
    /\ UNCHANGED <<view, snapshot>>

Unreferenced(keys) == \A s \in rows : Refers(s) \cap keys = {}

\* Seeded fault: only the new row's own references are checked.
UpdateReferenced(old, new) ==
    /\ Mutable(old) /\ new.table = old.table
    /\ Keys(new) \cap KeysOf(rows \ {old}) = {}
    /\ Refers(new) \subseteq KeysOf((rows \ {old}) \cup {new})
    /\ rows' = (rows \ {old}) \cup {new}
    /\ UNCHANGED <<view, snapshot>>

\* No key that a row refers to may go: references are ON UPDATE NO ACTION ...
Update(old, new) ==
    /\ Mutable(old) /\ new.table = old.table
    /\ Keys(new) \cap KeysOf(rows \ {old}) = {}
    /\ Refers(new) \subseteq KeysOf((rows \ {old}) \cup {new})
    /\ Unreferenced(Keys(old) \ Keys(new))
    /\ rows' = (rows \ {old}) \cup {new}
    /\ UNCHANGED <<view, snapshot>>

\* Seeded fault: the row goes though others refer to it.
DeleteReferenced(r) ==
    /\ Mutable(r)
    /\ rows' = rows \ {r}
    /\ UNCHANGED <<view, snapshot>>

\* ... and ON DELETE NO ACTION.
Delete(r) ==
    /\ Mutable(r)
    /\ Unreferenced(Keys(r))
    /\ rows' = rows \ {r}
    /\ UNCHANGED <<view, snapshot>>
-----------------------------------------------------------------------------
(***************************************************************************)
(* evidence_current.                                                       *)
(***************************************************************************)
NaturalKey(e) == <<e.domain_id, e.source_url>>

\* ORDER BY observed_at DESC, recorded_at DESC, evidence_id DESC.
Newer(e, f) ==
    \/ e.observed_at > f.observed_at
    \/ e.observed_at = f.observed_at /\ e.recorded_at > f.recorded_at
    \/ /\ e.observed_at = f.observed_at /\ e.recorded_at = f.recorded_at
       /\ e.evidence_id > f.evidence_id

StoredEvidence == {r \in rows : r.table = "evidence"}

\* Seeded fault: the row recorded last wins, however old the observation.
LastRecorded ==
    {e \in StoredEvidence : \A f \in StoredEvidence :
        NaturalKey(e) = NaturalKey(f) =>
            \/ e = f
            \/ e.recorded_at > f.recorded_at
            \/ e.recorded_at = f.recorded_at /\ e.evidence_id > f.evidence_id}

\* DISTINCT ON the natural key.
Latest == {e \in StoredEvidence : \A f \in StoredEvidence :
              NaturalKey(e) = NaturalKey(f) => e = f \/ Newer(e, f)}

\* REFRESH MATERIALIZED VIEW CONCURRENTLY reads one snapshot while others write,
\* and is alone until it replaces the contents.
BeginRefresh ==
    /\ snapshot = None
    /\ snapshot' = Latest
    /\ UNCHANGED <<rows, view>>

EndRefresh ==
    /\ snapshot # None
    /\ view' = snapshot
    /\ snapshot' = None
    /\ UNCHANGED rows

\* upgrade(): empty tables, the role and its rights, the view refreshed once.
Init == rows = {} /\ view = {} /\ snapshot = None

Next ==
    \/ \E r \in Rows : Insert(r)
    \/ \E old \in rows : \E new \in Rows : Update(old, new)
    \/ \E r \in rows : Delete(r)
    \/ BeginRefresh
    \/ EndRefresh

Spec == Init /\ [][Next]_vars
-----------------------------------------------------------------------------
(***************************************************************************)
(* Properties.                                                             *)
(***************************************************************************)

\* Only rows that the columns and CHECKs allow; what the view shows, and what a
\* refresh is about to show, is stored evidence.
TypeOK ==
    /\ rows \subseteq Rows
    /\ view \subseteq StoredEvidence
    /\ snapshot = None \/ snapshot \subseteq StoredEvidence

\* No two rows share a unique key, and every reference finds its row.
KeysAreUnique == \A r, s \in rows : Keys(r) \cap Keys(s) # {} => r = s

ReferencesHold == \A r \in rows : Refers(r) \subseteq KeysOf(rows)

\* Customer isolation (models.py 585-596, 621-640): a role assignment names a
\* customer exactly when the account it belongs to is, now, a brand customer's,
\* although the CHECK sees only the copy of the archetype in its own row and
\* accounts may be changed, deleted and created anew.
RoleScopeFollowsAccount ==
    \A r \in rows : r.table = "user_role_assignment" =>
        \E a \in rows : /\ a.table = "user_account" /\ a.user_id = r.user_id
                        /\ (a.archetype = "brand_customer") <=> (r.customer_id # None)

\* Append-only (0001_create_canonical_data_model.py 672-681): a record stays as
\* it is, and what it refers to stays findable, also where that is a domain, a
\* pool or an account, which the application may otherwise delete or change.
RecordsStay ==
    [][\A r \in rows : r.table \in {"evidence", "provenance", "score_history",
                                    "attestation", "auth_audit_event"} =>
          r \in rows' /\ Refers(r) \subseteq KeysOf(rows')]_vars

\* Over late observations, inserts during a refresh and rows recorded out of
\* order, a natural key in evidence_current never disappears, and never shows an
\* older row than it did (models.py 358-360).
ViewNeverRegresses ==
    [][\A e \in view : \E f \in view' :
          NaturalKey(e) = NaturalKey(f) /\ (e = f \/ Newer(f, e))]_vars
=============================================================================
