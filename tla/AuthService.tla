---------------------------- MODULE AuthService ----------------------------
(***************************************************************************)
(* Authentication (auth/trustlist_auth/): AuthService over an identity     *)
(* provider, the role store and the audit trail.  The callers of a process *)
(* run at the same time, each in a database transaction of its own that it *)
(* commits or rolls back as it likes; what the provider has done it does   *)
(* not undo.  The provider takes no lock: a step is one of its accesses to *)
(* an account or to the table of sessions, or one SQL statement.           *)
(***************************************************************************)
EXTENDS Naturals, Rbac

CONSTANTS Callers,
          Users,        \* accounts: an archetype and an e-mail address
          ArchetypeOf,  \* [Users -> Archetypes]
          SessionIds,
          Customers,
          RolesTried,   \* the role identifiers callers ask for
          None,
          MaxCalls      \* bound on the calls that change state

ASSUME AuthAssumption ==
    /\ ArchetypeOf \in [Users -> Archetypes]
    /\ None \notin Users \cup Customers \cup SessionIds
    /\ MaxCalls \in Nat

VARIABLES
    \* the identity provider
    registered, disabled,
    password,      \* password[u]: the call that set it last
    totp,          \* totp[u]: "none", "pending" or "confirmed"
    holder,        \* holder[s]: whose session s is, None before it is issued
    issuing,       \* the sessions whose account was found fit, not stored yet
    live,          \* the sessions stored that are neither revoked nor expired
    escaped,       \* history: the sessions the last disabling did not end
    \* the committed rows
    roles,         \* of user_role_assignment
    trail,         \* of auth_audit_event
    \* the callers, and what is open in their transactions
    pc,
    event,         \* event[c]: the audit event c's call is going to record
    grants,        \* grants[c]: assignments inserted
    revokes,       \* revokes[c]: the granted_at of assignments revoked
    rows,          \* rows[c]: audit rows inserted
    calls          \* how much of MaxCalls is used up; also tells calls apart

sessionVars == <<holder, issuing, live, escaped>>
providerVars == <<registered, disabled, password, totp, sessionVars>>
openVars == <<grants, revokes, rows>>
vars == <<providerVars, roles, trail, pc, event, openVars, calls>>

Assignments ==
    [user : Users, archetype : Archetypes, role : RolesTried,
     customer : Customers \cup {None}, granted_at : 1..MaxCalls, revoked : BOOLEAN]

EventTypes ==
    {"login_success", "login_failure", "mfa_challenge_issued",
     "mfa_challenge_success", "mfa_challenge_failure", "password_change",
     "role_grant", "role_revoke", "account_disable", "session_revoke"}

\* An audit event; call, grant and ended are history: the call it belongs to, the
\* assignment it is about, and the sessions that the call is to end.
AuditEvents ==
    [call : 1..MaxCalls, type : EventTypes, user : Users \cup {None},
     role : RolesTried \cup {None}, customer : Customers \cup {None},
     grant : 0..MaxCalls, ended : SUBSET SessionIds]

\* The sessions of u that the provider has stored.
SessionsOf(u) == {s \in SessionIds \ issuing : holder[s] = u}

Init ==
    /\ registered = {} /\ disabled = {} /\ issuing = {} /\ live = {} /\ escaped = {}
    /\ password = [u \in Users |-> 0]
    /\ totp = [u \in Users |-> "none"]
    /\ holder = [s \in SessionIds |-> None]
    /\ roles = {} /\ trail = {}
    /\ pc = [c \in Callers |-> "open"]
    /\ event = [c \in Callers |-> None]
    /\ grants = [c \in Callers |-> {}]
    /\ revokes = [c \in Callers |-> {}]
    /\ rows = [c \in Callers |-> {}]
    /\ calls = 0

\* A call of c is between its steps.
Steps == {"enrolling", "confirming", "disabling", "revoking", "recording"}
UnderWay(c) == pc[c] \in Steps

\* The call of c is going to revoke the sessions of an account one by one.
Sweeping(c) == pc[c] \in {"disabling", "revoking"}

Goto(c, step) == pc' = [pc EXCEPT ![c] = step]

NewEvent(type, u) ==
    [call |-> calls + 1, type |-> type, user |-> u, role |-> None,
     customer |-> None, grant |-> 0, ended |-> {}]

Ending(type, u) == [NewEvent(type, u) EXCEPT !.ended = SessionsOf(u)]

About(type, a, ended) ==
    [NewEvent(type, a.user) EXCEPT !.role = a.role, !.customer = a.customer,
                                   !.grant = a.granted_at, !.ended = ended]

\* A call of c begins, and will record e.
Call(c, step, e) ==
    /\ pc[c] = "open"
    /\ calls < MaxCalls
    /\ calls' = calls + 1
    /\ Goto(c, step)
    /\ event' = [event EXCEPT ![c] = e]
-----------------------------------------------------------------------------
(***************************************************************************)
(* Calls that only the provider sees.                                      *)
(***************************************************************************)
Register(u) ==
    /\ registered' = registered \cup {u}
    /\ UNCHANGED <<disabled, password, totp, sessionVars, roles, trail, pc,
                   event, openVars, calls>>

\* Seeded fault: the account is looked up, its state is not.
IssueSessionUnchecked(u, s) ==
    /\ u \in registered
    /\ holder[s] = None
    /\ holder' = [holder EXCEPT ![s] = u]
    /\ issuing' = issuing \cup {s}
    /\ UNCHANGED <<registered, disabled, password, totp, live, escaped, roles,
                   trail, pc, event, openVars, calls>>

\* Seeded fault: the account is not looked up.
IssueSessionToAnyone(u, s) ==
    /\ holder[s] = None
    /\ holder' = [holder EXCEPT ![s] = u]
    /\ issuing' = issuing \cup {s}
    /\ UNCHANGED <<registered, disabled, password, totp, live, escaped, roles,
                   trail, pc, event, openVars, calls>>

\* issue_session finds the account fit and makes the record ...
IssueSession(u, s) ==
    /\ u \in registered \ disabled
    /\ holder[s] = None
    /\ holder' = [holder EXCEPT ![s] = u]
    /\ issuing' = issuing \cup {s}
    /\ UNCHANGED <<registered, disabled, password, totp, live, escaped, roles,
                   trail, pc, event, openVars, calls>>

\* ... and stores it, without a second look.  The calls in "cut" are at that
\* moment iterating over the table, which must not grow: they raise, with only
\* some of the sessions revoked, and their callers roll back.
StoreSession(s) ==
    /\ s \in issuing
    /\ issuing' = issuing \ {s}
    /\ \E cut \in SUBSET {c \in Callers : Sweeping(c)} :
        /\ \E reached \in SUBSET UNION {SessionsOf(event[c].user) : c \in cut} :
              live' = (live \ reached) \cup {s}
        /\ escaped' = escaped \cup {t \in SessionIds :
                          \E c \in cut : pc[c] = "disabling" /\ holder[t] = event[c].user}
        /\ pc' = [c \in Callers |-> IF c \in cut THEN "aborted" ELSE pc[c]]
        /\ event' = [c \in Callers |-> IF c \in cut THEN None ELSE event[c]]
    /\ UNCHANGED <<registered, disabled, password, totp, holder, roles, trail,
                   openVars, calls>>

\* The TTL elapses: get_session refuses the session from then on.
Expire(s) ==
    /\ live' = live \ {s}
    /\ UNCHANGED <<registered, disabled, password, totp, holder, issuing, escaped,
                   roles, trail, pc, event, openVars, calls>>
-----------------------------------------------------------------------------
(***************************************************************************)
(* Calls that are recorded: what they do before the audit row is inserted. *)
(* A call with an account the provider does not know raises at once.       *)
(***************************************************************************)
\* authenticate: a failure is recorded without a user and raised again.
Authenticate(c, u, right) ==
    /\ Call(c, "recording",
            IF right /\ u \in registered \ disabled
            THEN NewEvent("login_success", u) ELSE NewEvent("login_failure", None))
    /\ UNCHANGED <<providerVars, roles, trail, openVars>>

ChangePassword(c, u) ==
    /\ u \in registered
    /\ password' = [password EXCEPT ![u] = calls + 1]
    /\ Call(c, "revoking", Ending("password_change", u))
    /\ UNCHANGED <<registered, disabled, totp, sessionVars, roles, trail, openVars>>

\* revoke_session, of an identifier that its caller knows of: that of a session
\* stored, or of none (s = None), which the provider passes over and the service
\* records like any other.  The user on record is the one that the caller names,
\* by default none; nothing depends on whom it names, so that it is always none.
RevokeSession(c, s) ==
    /\ s # None => holder[s] # None /\ s \notin issuing
    /\ live' = live \ {s}
    /\ Call(c, "recording",
            [NewEvent("session_revoke", None) EXCEPT !.ended = {s} \ {None}])
    /\ UNCHANGED <<registered, disabled, password, totp, holder, issuing, escaped,
                   roles, trail, openVars>>

\* Refused once confirmed; until then it replaces the secret, in a second step.
EnrolTotp(c, u) ==
    /\ u \in registered
    /\ totp[u] # "confirmed"
    /\ Call(c, "enrolling", NewEvent("mfa_challenge_issued", u))
    /\ UNCHANGED <<providerVars, roles, trail, openVars>>

\* A right code completes enrolment, in a second step.
VerifyTotp(c, u, right) ==
    /\ u \in registered
    /\ totp[u] # "none"
    /\ IF right
       THEN Call(c, "confirming", NewEvent("mfa_challenge_success", u))
       ELSE Call(c, "recording", NewEvent("mfa_challenge_failure", u))
    /\ UNCHANGED <<providerVars, roles, trail, openVars>>

\* The second step of both, whatever the other has done to the account since.
StoreTotp(c) ==
    /\ pc[c] \in {"enrolling", "confirming"}
    /\ totp' = [totp EXCEPT ![event[c].user] =
                   IF pc[c] = "enrolling" THEN "pending" ELSE "confirmed"]
    /\ Goto(c, "recording")
    /\ UNCHANGED <<registered, disabled, password, sessionVars, roles, trail,
                   event, openVars, calls>>

\* The account refuses sessions from now on; those it has go next.
DisableAccount(c, u) ==
    /\ u \in registered
    /\ disabled' = disabled \cup {u}
    /\ Call(c, "disabling", Ending("account_disable", u))
    /\ UNCHANGED <<registered, password, totp, sessionVars, roles, trail, openVars>>

CustomerScope(archetype, k) == (archetype = "brand_customer") <=> (k # None)

\* grant_role: a role of the catalogue, scoped as the archetype demands.  The
\* reference to (user_id, archetype) of user_account refuses a wrong archetype.
AssignRole(c, u, archetype, r, k) ==
    LET a == [user |-> u, archetype |-> archetype, role |-> r, customer |-> k,
              granted_at |-> calls + 1, revoked |-> FALSE]
    IN /\ HasRole(archetype, r) /\ CustomerScope(archetype, k)
       /\ IF u \in registered /\ archetype = ArchetypeOf[u]
          THEN /\ grants' = [grants EXCEPT ![c] = @ \cup {a}]
               /\ Call(c, "recording", About("role_grant", a, {}))
          ELSE /\ Call(c, "aborted", None)
               /\ UNCHANGED grants
       /\ UNCHANGED <<providerVars, roles, trail, revokes, rows>>

\* The UPDATE of an assignment that another transaction has revoked waits for
\* the end of that transaction.
RowLocked(c, a) == \E d \in Callers \ {c} : a.granted_at \in revokes[d]

\* Seeded fault: the UPDATE does not ask for revoked_at IS NULL.
RevokeRoleAgain(c, a) ==
    /\ ~RowLocked(c, a)
    /\ revokes' = [revokes EXCEPT ![c] = @ \cup {a.granted_at}]
    /\ Call(c, "revoking", About("role_revoke", a, SessionsOf(a.user)))
    /\ UNCHANGED <<providerVars, roles, trail, grants, rows>>

\* Seeded fault: a role change does not end the sessions.
RevokeRoleKeepingSessions(c, a) ==
    /\ ~RowLocked(c, a)
    /\ ~a.revoked /\ a.granted_at \notin revokes[c]
    /\ revokes' = [revokes EXCEPT ![c] = @ \cup {a.granted_at}]
    /\ Call(c, "recording", About("role_revoke", a, SessionsOf(a.user)))
    /\ UNCHANGED <<providerVars, roles, trail, grants, rows>>

\* revoke_role; an UPDATE that finds no live row changes nothing and is not
\* recorded.
RevokeRole(c, a) ==
    /\ ~RowLocked(c, a)
    /\ ~a.revoked /\ a.granted_at \notin revokes[c]
    /\ revokes' = [revokes EXCEPT ![c] = @ \cup {a.granted_at}]
    /\ Call(c, "revoking", About("role_revoke", a, SessionsOf(a.user)))
    /\ UNCHANGED <<providerVars, roles, trail, grants, rows>>

\* The provider's revoke_all_sessions, after change_password, the UPDATE or the
\* disabling; a session still being issued is not there to be revoked.
RevokeAllSessions(c) ==
    LET u == event[c].user
    IN /\ Sweeping(c)
       /\ live' = live \ SessionsOf(u)
       /\ escaped' = IF pc[c] = "disabling"
                     THEN (escaped \ SessionsOf(u)) \cup {s \in issuing : holder[s] = u}
                     ELSE escaped
       /\ Goto(c, "recording")
       /\ UNCHANGED <<registered, disabled, password, totp, holder, issuing, roles,
                      trail, event, openVars, calls>>
-----------------------------------------------------------------------------
(***************************************************************************)
(* The audit row and the end of the transaction.                           *)
(***************************************************************************)
\* AuditTrail.record; the sink's emit may raise, which the caller sees like the
\* failure of a login.
Record(c) ==
    /\ pc[c] = "recording"
    /\ rows' = [rows EXCEPT ![c] = @ \cup {event[c]}]
    /\ event' = [event EXCEPT ![c] = None]
    /\ Goto(c, "open")
    /\ UNCHANGED <<providerVars, roles, trail, grants, revokes, calls>>

\* The INSERT fails: the transaction can only be rolled back.
RecordFails(c) ==
    /\ pc[c] = "recording"
    /\ event' = [event EXCEPT ![c] = None]
    /\ Goto(c, "aborted")
    /\ UNCHANGED <<providerVars, roles, trail, openVars, calls>>

Close(c) ==
    /\ grants' = [grants EXCEPT ![c] = {}]
    /\ revokes' = [revokes EXCEPT ![c] = {}]
    /\ rows' = [rows EXCEPT ![c] = {}]
    /\ event' = [event EXCEPT ![c] = None]
    /\ Goto(c, "open")
    /\ UNCHANGED <<providerVars, calls>>

Commit(c) ==
    /\ pc[c] = "open"
    /\ trail' = trail \cup rows[c]
    /\ roles' = {[a EXCEPT !.revoked = @ \/ a.granted_at \in revokes[c]] :
                   a \in roles \cup grants[c]}
    /\ Close(c)

\* The caller gives up, after an exception or in between, or the connection is
\* lost; a call that is inside the provider goes on until it needs the connection.
RollBack(c) ==
    /\ pc[c] \in {"open", "recording", "aborted"}
    /\ Close(c)
    /\ UNCHANGED <<roles, trail>>
-----------------------------------------------------------------------------
UserCall(c, u) ==
    \/ ChangePassword(c, u)
    \/ EnrolTotp(c, u)
    \/ DisableAccount(c, u)
    \/ \E right \in BOOLEAN : Authenticate(c, u, right) \/ VerifyTotp(c, u, right)
    \/ \E archetype \in Archetypes, r \in RolesTried, k \in Customers \cup {None} :
          AssignRole(c, u, archetype, r, k)

Next ==
    \/ \E u \in Users : Register(u) \/ \E s \in SessionIds : IssueSession(u, s)
    \/ \E s \in SessionIds : StoreSession(s) \/ Expire(s)
    \/ \E c \in Callers :
        \/ \E u \in Users : UserCall(c, u)
        \/ \E s \in SessionIds \cup {None} : RevokeSession(c, s)
        \/ \E a \in roles \cup grants[c] : RevokeRole(c, a)
        \/ StoreTotp(c) \/ RevokeAllSessions(c) \/ Record(c) \/ RecordFails(c)
        \/ Commit(c) \/ RollBack(c)

Spec == Init /\ [][Next]_vars
-----------------------------------------------------------------------------
(***************************************************************************)
(* What roles confer.  has_permission takes the archetype from its caller   *)
(* and looks up the live roles of the account in that catalogue.           *)
(***************************************************************************)
\* Seeded fault: the customer is not asked for.
LiveRolesOfAnyCustomer(u, k) == {a.role : a \in {b \in roles : b.user = u /\ ~b.revoked}}

\* live_role_identifiers; k = None asks for no customer.
LiveRoles(u, k) ==
    {a.role : a \in {b \in roles : /\ b.user = u /\ ~b.revoked
                                   /\ k # None => b.customer = k}}
-----------------------------------------------------------------------------
(***************************************************************************)
(* Properties.                                                             *)
(***************************************************************************)

\* The state keeps its shape: a live session has a registered holder, a call
\* between its steps has an event to record.
TypeOK ==
    /\ registered \subseteq Users /\ disabled \subseteq registered
    /\ password \in [Users -> 0..MaxCalls]
    /\ totp \in [Users -> {"none", "pending", "confirmed"}]
    /\ holder \in [SessionIds -> registered \cup {None}]
    /\ issuing \subseteq {s \in SessionIds : holder[s] # None}
    /\ live \subseteq {s \in SessionIds \ issuing : holder[s] # None}
    /\ escaped \subseteq SessionIds
    /\ roles \subseteq Assignments /\ trail \subseteq AuditEvents
    /\ pc \in [Callers -> Steps \cup {"open", "aborted"}]
    /\ event \in [Callers -> AuditEvents \cup {None}]
    /\ \A c \in Callers : IF UnderWay(c) THEN event[c] \in AuditEvents ELSE event[c] = None
    /\ grants \in [Callers -> SUBSET Assignments]
    /\ revokes \in [Callers -> SUBSET (1..MaxCalls)]
    /\ rows \in [Callers -> SUBSET AuditEvents]
    /\ calls \in 0..MaxCalls

\* What an audit event says has happened, and lasts.
Done(e) ==
    /\ e.type = "account_disable" => e.user \in disabled
    /\ e.type = "password_change" => password[e.user] >= e.call
    /\ e.type \in {"mfa_challenge_issued", "mfa_challenge_success"} => totp[e.user] # "none"

Happened(e) == e.ended \cap live = {} /\ Done(e)

\* "A persisted audit row always reflects a provider action that actually
\* happened" (service.py 36-40), as far as it does, whatever else happens before
\* the row is persisted: the account is disabled, the password changed, the
\* second factor begun, and not one session lives on that was there when the
\* password or the role changed, or that was to be revoked.  The row of a
\* session_revoke says no more than that no such session is live: there may never
\* have been one.
AuditRowsReflectActions == \A e \in trail : Happened(e)

Disabling(u) == \E c \in Callers : pc[c] = "disabling" /\ event[c].user = u

\* A disabled account has no session (provider.py 191-200, 254-259) once its
\* disabling is done, but for those that disable_account cannot end
\* (fake_provider.py 223-235, 294-296): a session whose issue had looked at the
\* account before it was disabled and stored the session after the sweep, and what
\* a sweep left that was cut short.  To disable the account again ends these too.
DisabledHasNoSession ==
    \A s \in live : holder[s] \in disabled => s \in escaped \/ Disabling(holder[s])

Events(type, granted_at) == {e \in trail : e.type = type /\ e.grant = granted_at}

\* The trail and the roles tell the same story (service.py 35-38): an assignment
\* has exactly one grant on record, is revoked by exactly one revocation on
\* record, and nothing is on record for assignments that do not exist.
TrailMatchesRoles ==
    /\ \A a \in roles :
        /\ \E e \in trail : Events("role_grant", a.granted_at) = {e}
        /\ IF a.revoked THEN \E e \in trail : Events("role_revoke", a.granted_at) = {e}
                        ELSE Events("role_revoke", a.granted_at) = {}
    /\ \A e \in trail : e.type \in {"role_grant", "role_revoke"} =>
          \E a \in roles : a.granted_at = e.grant /\ a.user = e.user /\ a.role = e.role

\* Customer isolation (service.py 427-435): a permission, for whatever archetype
\* it is asked, rests on a recorded grant to that account whose role has it and
\* of which no revocation is on record, for a customer on a grant for that
\* customer.  Asked for its own archetype, an account always gets an answer.
PermissionsAreGranted ==
    \A u \in Users, k \in Customers \cup {None} :
        LET held == LiveRoles(u, k)
        IN /\ KnowsAll(ArchetypeOf[u], held)
           /\ \A archetype \in Archetypes : \A p \in ResolvePermissions(archetype, held) :
                 \E e \in trail :
                     /\ e.type = "role_grant" /\ e.user = u
                     /\ k # None => e.customer = k
                     /\ HasRole(archetype, e.role) /\ p \in CatalogueFor(archetype)[e.role]
                     /\ Events("role_revoke", e.grant) = {}

\* Nobody votes, observes or adjudicates before the Trust Council is seated,
\* although the roles can be assigned (rbac.py 114-117, 355-360), for whatever
\* archetype the permission is asked.
NobodyGoverns ==
    \A u \in Users, k \in Customers \cup {None} :
        LET held == LiveRoles(u, k)
        IN \A archetype \in Archetypes :
              ResolvePermissions(archetype, held) \cap GovernancePermissions = {}
-----------------------------------------------------------------------------
(***************************************************************************)
(* Why the properties hold.                                                *)
(***************************************************************************)
\* An event is about things that exist ...
Sound(e) ==
    /\ e.call <= calls
    /\ \A s \in e.ended : holder[s] # None /\ s \notin issuing
    /\ e.type \notin {"login_failure", "session_revoke"} => e.user \in Users

\* ... and is recorded when what it says is done; before, its sessions may live.
EventsHappened ==
    /\ \A e \in trail : Sound(e) /\ Happened(e)
    /\ \A c \in Callers : \A e \in rows[c] : Sound(e) /\ Happened(e)
    /\ \A c \in Callers : pc[c] = "recording" => Sound(event[c]) /\ Happened(event[c])
    /\ \A c \in Callers : Sweeping(c) =>
          Sound(event[c]) /\ Done(event[c]) /\ event[c].ended \subseteq SessionsOf(event[c].user)
    /\ \A c \in Callers : pc[c] \in {"enrolling", "confirming"} =>
          /\ Sound(event[c]) /\ event[c].ended = {}
          /\ event[c].type \in {"mfa_challenge_issued", "mfa_challenge_success"}

\* A session of a disabled account, issued or about to be, is one that escaped or
\* that a disabling has still to look for.
SessionsAnswered ==
    \A s \in live \cup issuing :
        holder[s] \in disabled => s \in escaped \/ Disabling(holder[s])

\* Roles come from the catalogue of the archetype that the account has.
Fits(a) == a.archetype = ArchetypeOf[a.user] /\ HasRole(a.archetype, a.role)

RolesFit ==
    /\ \A a \in roles : Fits(a)
    /\ \A c \in Callers : \A a \in grants[c] : Fits(a)

\* Assignments that differ differ in granted_at, also those not committed yet.
AssignmentsDiffer ==
    /\ \A a, b \in roles : a.granted_at = b.granted_at => a = b
    /\ \A a \in roles : a.granted_at <= calls
    /\ \A c \in Callers : \A a \in grants[c] :
        /\ a.granted_at <= calls /\ ~a.revoked
        /\ \A b \in roles : b.granted_at # a.granted_at
        /\ \A d \in Callers : \A b \in grants[d] : b.granted_at = a.granted_at => b = a /\ c = d

\* What the transaction of c has revoked was live, and no other has revoked it.
RevokesAreExclusive ==
    \A c \in Callers :
        /\ \A g \in revokes[c] : \E a \in roles \cup grants[c] : a.granted_at = g /\ ~a.revoked
        /\ \A d \in Callers \ {c} : revokes[c] \cap revokes[d] = {}

\* The audit rows of the transaction of c, with the one to come.
Told(c) == rows[c] \cup (IF UnderWay(c) THEN {event[c]} ELSE {})

Tells(e, a) == e.grant = a.granted_at /\ e.user = a.user /\ e.role = a.role
TellsGrant(e, a) == e.type = "role_grant" /\ Tells(e, a) /\ e.customer = a.customer
TellsRevoke(e, g) == e.type = "role_revoke" /\ e.grant = g

Once(events) ==
    \A e, f \in events : e.type = f.type /\ e.type \in {"role_grant", "role_revoke"}
                          /\ e.grant = f.grant => e = f

\* The rows of a transaction tell what it does to assignments, until it can only
\* be rolled back; the trail tells what all have done.
StoryOf(c) ==
    /\ Once(Told(c))
    /\ \A e \in Told(c) :
        /\ e.type = "role_grant" => \E a \in grants[c] : Tells(e, a)
        /\ e.type = "role_revoke" =>
              e.grant \in revokes[c] /\ \E a \in roles \cup grants[c] : Tells(e, a)
    /\ pc[c] # "aborted" =>
        /\ \A a \in grants[c] : \E e \in Told(c) : TellsGrant(e, a)
        /\ \A g \in revokes[c] : \E e \in Told(c) : TellsRevoke(e, g)

Stories == \A c \in Callers : StoryOf(c)

StoryOfAll ==
    /\ Once(trail)
    /\ \A e \in trail :
        /\ e.type = "role_grant" => \E a \in roles : Tells(e, a)
        /\ e.type = "role_revoke" => \E a \in roles : Tells(e, a) /\ a.revoked
    /\ \A a \in roles :
        /\ \E e \in trail : TellsGrant(e, a)
        /\ a.revoked => \E e \in trail : TellsRevoke(e, a.granted_at)

AuthInv ==
    /\ TypeOK /\ SessionsAnswered /\ EventsHappened /\ RolesFit
    /\ AssignmentsDiffer /\ RevokesAreExclusive /\ Stories /\ StoryOfAll
=============================================================================
