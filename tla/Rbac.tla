-------------------------------- MODULE Rbac --------------------------------
(***************************************************************************)
(* The role and permission framework of auth/trustlist_auth/rbac.py: what  *)
(* a set of held roles confers.                                            *)
(***************************************************************************)

Archetypes == {"operator", "brand_customer", "foundation_internal"}

GovernancePermissions ==
    {"governance:vote", "governance:observe", "adjudication:review"}

Permissions ==
    {"team:manage", "account:manage",
     "domain:view", "evidence:submit", "attestation:deploy", "decision:contest",
     "audit:manage", "audit:view", "certification:generate", "data_source:connect",
     "platform:operate", "codebase:maintain"} \cup GovernancePermissions

\* A catalogue gives each role identifier of an archetype its permissions.
OperatorCatalogue ==
    LET operate == {"domain:view", "evidence:submit", "attestation:deploy",
                    "decision:contest"}
    IN [owner |-> operate \cup {"team:manage", "account:manage"},
        admin |-> operate \cup {"team:manage"},
        operator |-> operate,
        read_only |-> {"domain:view"}]

BrandCustomerCatalogue ==
    LET analyse == {"audit:manage", "audit:view", "certification:generate"}
        operate == analyse \cup {"data_source:connect"}
    IN [owner |-> operate \cup {"team:manage", "account:manage"},
        admin |-> operate \cup {"team:manage"},
        operator |-> operate,
        analyst |-> analyse,
        read_only |-> {"audit:view"}]

FoundationInternalCatalogue ==
    [maintainer |-> {"codebase:maintain", "platform:operate"},
     ops_staff |-> {"platform:operate"},
     trust_council_voting |-> {"governance:vote", "governance:observe"},
     trust_council_observer |-> {"governance:observe"},
     adjudicator |-> {"adjudication:review"}]

\* feature_flagged_off: in the catalogue and assignable, but not yet active.
FeatureFlaggedOff == {"trust_council_voting", "trust_council_observer", "adjudicator"}

CatalogueFor(archetype) ==
    CASE archetype = "operator" -> OperatorCatalogue
      [] archetype = "brand_customer" -> BrandCustomerCatalogue
      [] archetype = "foundation_internal" -> FoundationInternalCatalogue

HasRole(archetype, role) == role \in DOMAIN CatalogueFor(archetype)

\* All the roles held are of the archetype's catalogue; else UnknownRole is raised.
KnowsAll(archetype, held) == \A r \in held : HasRole(archetype, r)

\* Seeded fault: the flag is looked at when a role is listed, not when it is used.
ResolveFlagged(archetype, held) ==
    IF KnowsAll(archetype, held) THEN UNION {CatalogueFor(archetype)[r] : r \in held} ELSE {}

\* The flag gates the effect of a role that is held; an exception confers nothing.
ResolvePermissions(archetype, held) ==
    IF KnowsAll(archetype, held)
    THEN UNION {CatalogueFor(archetype)[r] : r \in held \ FeatureFlaggedOff} ELSE {}
=============================================================================
