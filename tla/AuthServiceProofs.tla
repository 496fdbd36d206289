-------------------------- MODULE AuthServiceProofs --------------------------
(***************************************************************************)
(* Theorems about AuthService, for any number of callers, accounts,        *)
(* sessions, customers and calls.                                          *)
(***************************************************************************)
EXTENDS AuthService, TLAPS

-----------------------------------------------------------------------------
(***************************************************************************)
(* What events and assignments are made of.                                *)
(***************************************************************************)
LEMMA NewEventHas ==
    ASSUME calls \in 0..MaxCalls, calls < MaxCalls,
           NEW type \in EventTypes, NEW u \in Users \cup {None}
    PROVE  /\ NewEvent(type, u) \in AuditEvents
           /\ NewEvent(type, u).call = calls + 1 /\ NewEvent(type, u).type = type
           /\ NewEvent(type, u).user = u /\ NewEvent(type, u).ended = {}
           /\ NewEvent(type, u).grant = 0
BY AuthAssumption DEF NewEvent, AuditEvents

LEMMA EndingHas ==
    ASSUME calls \in 0..MaxCalls, calls < MaxCalls,
           NEW type \in EventTypes, NEW u \in Users \cup {None}
    PROVE  /\ Ending(type, u) \in AuditEvents
           /\ Ending(type, u).call = calls + 1 /\ Ending(type, u).type = type
           /\ Ending(type, u).user = u /\ Ending(type, u).ended = SessionsOf(u)
           /\ Ending(type, u).grant = 0
BY AuthAssumption DEF Ending, NewEvent, AuditEvents, SessionsOf

LEMMA AboutHas ==
    ASSUME calls \in 0..MaxCalls, calls < MaxCalls,
           NEW type \in EventTypes, NEW a \in Assignments, NEW ended \in SUBSET SessionIds
    PROVE  /\ About(type, a, ended) \in AuditEvents
           /\ About(type, a, ended).call = calls + 1 /\ About(type, a, ended).type = type
           /\ About(type, a, ended).user = a.user /\ About(type, a, ended).ended = ended
           /\ About(type, a, ended).role = a.role
           /\ About(type, a, ended).customer = a.customer
           /\ About(type, a, ended).grant = a.granted_at
<1>1. /\ a.user \in Users /\ a.role \in RolesTried /\ a.customer \in Customers \cup {None}
      /\ a.granted_at \in 0..MaxCalls
  BY AuthAssumption DEF Assignments
<1>2. PICK n \in AuditEvents : /\ n = NewEvent(type, a.user) /\ n.call = calls + 1
                               /\ n.type = type /\ n.user = a.user
  BY <1>1, NewEventHas
<1>3. About(type, a, ended) = [n EXCEPT !.role = a.role, !.customer = a.customer,
                                        !.grant = a.granted_at, !.ended = ended]
  BY <1>2 DEF About
<1>4. [n EXCEPT !.role = a.role, !.customer = a.customer,
                !.grant = a.granted_at, !.ended = ended] \in AuditEvents
  BY <1>1 DEF AuditEvents
<1>. QED BY <1>1, <1>2, <1>3, <1>4 DEF AuditEvents

\* What has been committed differs from what was there in "revoked" at most.
LEMMA AssignmentRevoked ==
    ASSUME NEW a \in Assignments, NEW b \in BOOLEAN
    PROVE  /\ [a EXCEPT !.revoked = b] \in Assignments
           /\ [a EXCEPT !.revoked = b].user = a.user
           /\ [a EXCEPT !.revoked = b].archetype = a.archetype
           /\ [a EXCEPT !.revoked = b].role = a.role
           /\ [a EXCEPT !.revoked = b].customer = a.customer
           /\ [a EXCEPT !.revoked = b].granted_at = a.granted_at
           /\ [a EXCEPT !.revoked = b].revoked = b
BY DEF Assignments

-----------------------------------------------------------------------------
(***************************************************************************)
(* The state keeps its shape.                                              *)
(***************************************************************************)
LEMMA InitTypeOK == Init => TypeOK
BY AuthAssumption DEF Init, TypeOK, UnderWay, Steps

LEMMA CallTypes ==
    ASSUME TypeOK, NEW c \in Callers, NEW step, NEW e, Call(c, step, e),
           \/ step \in Steps /\ e \in AuditEvents
           \/ step = "aborted" /\ e = None
    PROVE  /\ pc' \in [Callers -> Steps \cup {"open", "aborted"}]
           /\ event' \in [Callers -> AuditEvents \cup {None}]
           /\ \A d \in Callers : IF UnderWay(d)' THEN event'[d] \in AuditEvents
                                                 ELSE event'[d] = None
           /\ calls' \in 0..MaxCalls
<1>1. /\ calls' \in 0..MaxCalls
      /\ pc' = [pc EXCEPT ![c] = step] /\ event' = [event EXCEPT ![c] = e]
  BY AuthAssumption DEF Call, Goto, TypeOK
<1>2. /\ pc' \in [Callers -> Steps \cup {"open", "aborted"}]
      /\ event' \in [Callers -> AuditEvents \cup {None}]
  BY <1>1 DEF TypeOK, Steps
<1>3. \A d \in Callers : IF UnderWay(d)' THEN event'[d] \in AuditEvents ELSE event'[d] = None
  BY <1>1 DEF TypeOK, UnderWay, Steps
<1>. QED BY <1>1, <1>2, <1>3

LEMMA NextTypeOK == TypeOK /\ [Next]_vars => TypeOK'
<1> SUFFICES ASSUME TypeOK, [Next]_vars PROVE TypeOK'
  OBVIOUS
<1> USE AuthAssumption DEF Goto, providerVars, sessionVars, openVars
<1>1. ASSUME NEW u \in Users, Register(u)
      PROVE  TypeOK'
  BY <1>1
     DEF TypeOK, UnderWay, Register
<1>2. ASSUME NEW u \in Users, NEW s \in SessionIds, IssueSession(u, s)
      PROVE  TypeOK'
  <2>1. /\ holder' \in [SessionIds -> registered \cup {None}] /\ u # None
        /\ \A x \in SessionIds : holder[x] # None => holder'[x] # None
        /\ holder'[s] # None /\ s \notin live
    BY <1>2 DEF IssueSession, TypeOK
  <2>2. /\ issuing' \subseteq {x \in SessionIds : holder'[x] # None}
        /\ live' \subseteq {x \in SessionIds \ issuing' : holder'[x] # None}
    BY <1>2, <2>1 DEF IssueSession, TypeOK
  <2>. QED BY <1>2, <2>1, <2>2 DEF IssueSession, TypeOK, UnderWay
<1>2a. ASSUME NEW s \in SessionIds, StoreSession(s)
       PROVE  TypeOK'
  <2>1. PICK cut \in SUBSET {c \in Callers : Sweeping(c)} :
          /\ live' \subseteq live \cup {s}
          /\ escaped' \subseteq escaped \cup SessionIds
          /\ pc' = [c \in Callers |-> IF c \in cut THEN "aborted" ELSE pc[c]]
          /\ event' = [c \in Callers |-> IF c \in cut THEN None ELSE event[c]]
    BY <1>2a DEF StoreSession
  <2>2. /\ issuing' \subseteq {x \in SessionIds : holder'[x] # None}
        /\ live' \subseteq {x \in SessionIds \ issuing' : holder'[x] # None}
        /\ escaped' \subseteq SessionIds
    BY <1>2a, <2>1 DEF StoreSession, TypeOK
  <2>3. /\ pc' \in [Callers -> Steps \cup {"open", "aborted"}]
        /\ event' \in [Callers -> AuditEvents \cup {None}]
    BY <2>1 DEF TypeOK
  <2>4. \A d \in Callers : IF UnderWay(d)' THEN event'[d] \in AuditEvents ELSE event'[d] = None
    BY <2>1 DEF TypeOK, UnderWay, Steps
  <2>. QED BY <1>2a, <2>2, <2>3, <2>4 DEF StoreSession, TypeOK
<1>3. ASSUME NEW s \in SessionIds, Expire(s)
      PROVE  TypeOK'
  BY <1>3
     DEF TypeOK, UnderWay, Expire
<1>4. ASSUME NEW c \in Callers, NEW u \in Users, ChangePassword(c, u)
      PROVE  TypeOK'
  <2>1. calls \in 0..MaxCalls /\ calls < MaxCalls
    BY <1>4 DEF ChangePassword, Call, TypeOK
  <2>2. Ending("password_change", u) \in AuditEvents
    BY <2>1, EndingHas DEF EventTypes, TypeOK
  <2>3. /\ pc' \in [Callers -> Steps \cup {"open", "aborted"}]
        /\ event' \in [Callers -> AuditEvents \cup {None}]
        /\ \A d \in Callers : IF UnderWay(d)' THEN event'[d] \in AuditEvents
                                              ELSE event'[d] = None
        /\ calls' \in 0..MaxCalls
    BY <1>4, <2>2, CallTypes DEF ChangePassword, Steps
  <2>4. password' \in [Users -> 0..MaxCalls]
    BY <1>4, <2>1 DEF ChangePassword, TypeOK
  <2>. QED BY <1>4, <2>3, <2>4 DEF ChangePassword, TypeOK, SessionsOf
<1>5. ASSUME NEW c \in Callers, NEW u \in Users, EnrolTotp(c, u)
      PROVE  TypeOK'
  <2>1. calls \in 0..MaxCalls /\ calls < MaxCalls
    BY <1>5 DEF EnrolTotp, Call, TypeOK
  <2>2. NewEvent("mfa_challenge_issued", u) \in AuditEvents
    BY <2>1, NewEventHas DEF EventTypes, TypeOK
  <2>3. /\ pc' \in [Callers -> Steps \cup {"open", "aborted"}]
        /\ event' \in [Callers -> AuditEvents \cup {None}]
        /\ \A d \in Callers : IF UnderWay(d)' THEN event'[d] \in AuditEvents
                                              ELSE event'[d] = None
        /\ calls' \in 0..MaxCalls
    BY <1>5, <2>2, CallTypes DEF EnrolTotp, Steps
  <2>. QED BY <1>5, <2>3 DEF EnrolTotp, TypeOK, SessionsOf
<1>6. ASSUME NEW c \in Callers, NEW u \in Users, DisableAccount(c, u)
      PROVE  TypeOK'
  <2>1. calls \in 0..MaxCalls /\ calls < MaxCalls
    BY <1>6 DEF DisableAccount, Call, TypeOK
  <2>2. Ending("account_disable", u) \in AuditEvents
    BY <2>1, EndingHas DEF EventTypes, TypeOK
  <2>3. /\ pc' \in [Callers -> Steps \cup {"open", "aborted"}]
        /\ event' \in [Callers -> AuditEvents \cup {None}]
        /\ \A d \in Callers : IF UnderWay(d)' THEN event'[d] \in AuditEvents
                                              ELSE event'[d] = None
        /\ calls' \in 0..MaxCalls
    BY <1>6, <2>2, CallTypes DEF DisableAccount, Steps
  <2>. QED BY <1>6, <2>3 DEF DisableAccount, TypeOK, SessionsOf
<1>7. ASSUME NEW c \in Callers, NEW u \in Users, NEW right \in BOOLEAN, Authenticate(c, u, right)
      PROVE  TypeOK'
  <2>1. calls \in 0..MaxCalls /\ calls < MaxCalls
    BY <1>7 DEF Authenticate, Call, TypeOK
  <2>2. (IF right /\ u \in registered \ disabled
        THEN NewEvent("login_success", u) ELSE NewEvent("login_failure", None)) \in AuditEvents
    BY <2>1, NewEventHas DEF EventTypes, TypeOK
  <2>3. /\ pc' \in [Callers -> Steps \cup {"open", "aborted"}]
        /\ event' \in [Callers -> AuditEvents \cup {None}]
        /\ \A d \in Callers : IF UnderWay(d)' THEN event'[d] \in AuditEvents
                                              ELSE event'[d] = None
        /\ calls' \in 0..MaxCalls
    BY <1>7, <2>2, CallTypes DEF Authenticate, Steps
  <2>. QED BY <1>7, <2>3 DEF Authenticate, TypeOK, SessionsOf
<1>8. ASSUME NEW c \in Callers, NEW u \in Users, NEW right \in BOOLEAN, VerifyTotp(c, u, right)
      PROVE  TypeOK'
  <2>1. calls \in 0..MaxCalls /\ calls < MaxCalls
    BY <1>8 DEF VerifyTotp, Call, TypeOK
  <2>2. /\ NewEvent("mfa_challenge_success", u) \in AuditEvents
        /\ NewEvent("mfa_challenge_failure", u) \in AuditEvents
    BY <2>1, NewEventHas DEF EventTypes, TypeOK
  <2>3. /\ pc' \in [Callers -> Steps \cup {"open", "aborted"}]
        /\ event' \in [Callers -> AuditEvents \cup {None}]
        /\ \A d \in Callers : IF UnderWay(d)' THEN event'[d] \in AuditEvents
                                              ELSE event'[d] = None
        /\ calls' \in 0..MaxCalls
    <3>1. \/ Call(c, "confirming", NewEvent("mfa_challenge_success", u))
          \/ Call(c, "recording", NewEvent("mfa_challenge_failure", u))
      BY <1>8 DEF VerifyTotp
    <3>. QED BY <2>2, <3>1, CallTypes DEF Steps
  <2>. QED BY <1>8, <2>3 DEF VerifyTotp, TypeOK, SessionsOf
<1>8a. ASSUME NEW c \in Callers, StoreTotp(c)
       PROVE  TypeOK'
  <2>1. totp' \in [Users -> {"none", "pending", "confirmed"}]
    BY <1>8a DEF StoreTotp, TypeOK
  <2>. QED BY <1>8a, <2>1 DEF StoreTotp, TypeOK, UnderWay, Steps
<1>9. ASSUME NEW c \in Callers, NEW u \in Users, NEW archetype \in Archetypes,
             NEW r \in RolesTried, NEW k \in Customers \cup {None}, AssignRole(c, u, archetype, r, k)
      PROVE  TypeOK'
  <2> DEFINE new == [user |-> u, archetype |-> archetype, role |-> r, customer |-> k,
                      granted_at |-> calls + 1, revoked |-> FALSE]
  <2>1. calls \in 0..MaxCalls /\ calls < MaxCalls
    BY <1>9 DEF AssignRole, Call, TypeOK
  <2>2. new \in Assignments
    BY <2>1 DEF Assignments
  <2>3. About("role_grant", new, {}) \in AuditEvents
    BY <2>1, <2>2, AboutHas DEF EventTypes
  <2>4. /\ pc' \in [Callers -> Steps \cup {"open", "aborted"}]
        /\ event' \in [Callers -> AuditEvents \cup {None}]
        /\ \A d \in Callers : IF UnderWay(d)' THEN event'[d] \in AuditEvents
                                              ELSE event'[d] = None
        /\ calls' \in 0..MaxCalls
    <3>1. \/ Call(c, "recording", About("role_grant", new, {}))
          \/ Call(c, "aborted", None)
      BY <1>9 DEF AssignRole
    <3>. QED BY <2>3, <3>1, CallTypes DEF Steps
  <2>5. grants' \in [Callers -> SUBSET Assignments]
    <3>1. grants' = grants \/ grants' = [grants EXCEPT ![c] = @ \cup {new}]
      BY <1>9 DEF AssignRole
    <3>2. grants \in [Callers -> SUBSET Assignments]
      BY DEF TypeOK
    <3>. HIDE DEF new
    <3>. QED BY <2>2, <3>1, <3>2
  <2>. QED BY <1>9, <2>4, <2>5 DEF AssignRole, TypeOK
<1>10. ASSUME NEW c \in Callers, NEW s \in SessionIds \cup {None}, RevokeSession(c, s)
      PROVE  TypeOK'
  <2>1. calls \in 0..MaxCalls /\ calls < MaxCalls
    BY <1>10 DEF RevokeSession, Call, TypeOK
  <2>2. [NewEvent("session_revoke", None) EXCEPT !.ended = {s} \ {None}] \in AuditEvents
    BY <2>1 DEF NewEvent, AuditEvents, EventTypes, TypeOK
  <2>3. /\ pc' \in [Callers -> Steps \cup {"open", "aborted"}]
        /\ event' \in [Callers -> AuditEvents \cup {None}]
        /\ \A d \in Callers : IF UnderWay(d)' THEN event'[d] \in AuditEvents
                                              ELSE event'[d] = None
        /\ calls' \in 0..MaxCalls
    BY <1>10, <2>2, CallTypes DEF RevokeSession, Steps
  <2>. QED BY <1>10, <2>3 DEF RevokeSession, TypeOK, SessionsOf
<1>11. ASSUME NEW c \in Callers, NEW a \in roles \cup grants[c], RevokeRole(c, a)
      PROVE  TypeOK'
  <2>0. a \in Assignments /\ SessionsOf(a.user) \subseteq SessionIds /\ a.granted_at \in 1..MaxCalls
    BY DEF TypeOK, SessionsOf, Assignments
  <2>1. calls \in 0..MaxCalls /\ calls < MaxCalls
    BY <1>11 DEF RevokeRole, Call, TypeOK
  <2>2. About("role_revoke", a, SessionsOf(a.user)) \in AuditEvents
    BY <2>1, <2>0, AboutHas DEF EventTypes, TypeOK
  <2>3. /\ pc' \in [Callers -> Steps \cup {"open", "aborted"}]
        /\ event' \in [Callers -> AuditEvents \cup {None}]
        /\ \A d \in Callers : IF UnderWay(d)' THEN event'[d] \in AuditEvents
                                              ELSE event'[d] = None
        /\ calls' \in 0..MaxCalls
    BY <1>11, <2>2, CallTypes DEF RevokeRole, Steps
  <2>4. revokes' \in [Callers -> SUBSET (1..MaxCalls)]
    BY <1>11, <2>0 DEF RevokeRole, TypeOK
  <2>. QED BY <1>11, <2>3, <2>4 DEF RevokeRole, TypeOK, SessionsOf
<1>12. ASSUME NEW c \in Callers, RevokeAllSessions(c)
      PROVE  TypeOK'
  BY <1>12
     DEF TypeOK, UnderWay, Steps, Sweeping, RevokeAllSessions
<1>13. ASSUME NEW c \in Callers, Record(c)
      PROVE  TypeOK'
  BY <1>13
     DEF TypeOK, UnderWay, Steps, Sweeping, Record
<1>14. ASSUME NEW c \in Callers, RecordFails(c)
      PROVE  TypeOK'
  BY <1>14
     DEF TypeOK, UnderWay, Steps, Sweeping, RecordFails
<1>15. ASSUME NEW c \in Callers, Commit(c)
      PROVE  TypeOK'
  <2>1. roles' \subseteq Assignments
    <3>1. \A a \in roles \cup grants[c] : a \in Assignments /\ a.revoked \in BOOLEAN
      BY DEF TypeOK, Assignments
    <3>2. \A a \in roles \cup grants[c] : (a.revoked \/ a.granted_at \in revokes[c]) \in BOOLEAN
      OBVIOUS
    <3>3. \A a \in roles \cup grants[c] :
            [a EXCEPT !.revoked = @ \/ a.granted_at \in revokes[c]] \in Assignments
      BY <3>1, <3>2, AssignmentRevoked
    <3>. QED BY <1>15, <3>3 DEF Commit
  <2>2. trail' \subseteq AuditEvents
    BY <1>15 DEF Commit, TypeOK
  <2>. QED BY <1>15, <2>1, <2>2 DEF Commit, Close, TypeOK, UnderWay, Steps
<1>16. ASSUME NEW c \in Callers, RollBack(c)
      PROVE  TypeOK'
  BY <1>16
     DEF TypeOK, UnderWay, Steps, RollBack, Close
<1>17. CASE UNCHANGED vars
  BY <1>17
     DEF TypeOK, UnderWay, vars
<1>18. ASSUME NEW c \in Callers, NEW u \in Users, UserCall(c, u)
      PROVE  TypeOK'
  <2>1. CASE ChangePassword(c, u) \/ EnrolTotp(c, u) \/ DisableAccount(c, u)
    BY <2>1, <1>4, <1>5, <1>6
  <2>2. ASSUME NEW right \in BOOLEAN, Authenticate(c, u, right) \/ VerifyTotp(c, u, right)
        PROVE  TypeOK'
    BY <2>2, <1>7, <1>8
  <2>3. ASSUME NEW archetype \in Archetypes, NEW r \in RolesTried,
               NEW k \in Customers \cup {None}, AssignRole(c, u, archetype, r, k)
        PROVE  TypeOK'
    BY <2>3, <1>9
  <2>. QED BY <1>18, <2>1, <2>2, <2>3 DEF UserCall
<1>19. CASE \E u \in Users : Register(u) \/ \E s \in SessionIds : IssueSession(u, s)
  BY <1>19, <1>1, <1>2
<1>20. CASE \E s \in SessionIds : StoreSession(s) \/ Expire(s)
  BY <1>20, <1>2a, <1>3
<1>21. ASSUME NEW c \in Callers,
             \/ \E u \in Users : UserCall(c, u)
             \/ \E s \in SessionIds \cup {None} : RevokeSession(c, s)
             \/ \E a \in roles \cup grants[c] : RevokeRole(c, a)
             \/ StoreTotp(c) \/ RevokeAllSessions(c) \/ Record(c) \/ RecordFails(c)
             \/ Commit(c) \/ RollBack(c)
       PROVE  TypeOK'
  BY <1>21, <1>18, <1>8a, <1>10, <1>11, <1>12, <1>13, <1>14, <1>15, <1>16
<1>. QED BY <1>17, <1>19, <1>20, <1>21 DEF Next

LEMMA AlwaysTypeOK == Spec => []TypeOK
<1>1. TypeOK /\ [Next]_vars => TypeOK'
  BY NextTypeOK
<1>. QED BY <1>1, InitTypeOK, PTL DEF Spec

-----------------------------------------------------------------------------
(***************************************************************************)
(* The sessions of a disabled account are answered for.                    *)
(***************************************************************************)
\* A step of c that is not its disabling leaves the others at theirs.
LEMMA DisablingStays ==
    ASSUME NEW c \in Callers, pc[c] # "disabling",
           \A d \in Callers \ {c} : pc'[d] = pc[d] /\ event'[d] = event[d]
    PROVE  \A u : Disabling(u) => Disabling(u)'
BY DEF Disabling

LEMMA CallLeavesDisabling ==
    ASSUME TypeOK, NEW c \in Callers, NEW step, NEW e, Call(c, step, e)
    PROVE  \A u : Disabling(u) => Disabling(u)'
<1>1. /\ pc[c] # "disabling"
      /\ \A d \in Callers \ {c} : pc'[d] = pc[d] /\ event'[d] = event[d]
  BY DEF Call, Goto, TypeOK
<1>. QED BY <1>1, DisablingStays

LEMMA AnsweredStays ==
    ASSUME SessionsAnswered, live' \cup issuing' \subseteq live \cup issuing,
           holder' = holder, disabled' = disabled, escaped \subseteq escaped',
           \A u : Disabling(u) => Disabling(u)'
    PROVE  SessionsAnswered'
BY DEF SessionsAnswered

LEMMA NextSessionsAnswered == TypeOK /\ SessionsAnswered /\ [Next]_vars => SessionsAnswered'
<1> SUFFICES ASSUME TypeOK, SessionsAnswered, [Next]_vars PROVE SessionsAnswered'
  OBVIOUS
<1> USE AuthAssumption DEF Goto, providerVars, sessionVars, openVars
<1>1. ASSUME NEW u \in Users, Register(u)
      PROVE  SessionsAnswered'
  BY <1>1, AnsweredStays DEF Register, Disabling
<1>2. ASSUME NEW u \in Users, NEW s \in SessionIds, IssueSession(u, s)
      PROVE  SessionsAnswered'
  <2>1. /\ u \notin disabled /\ holder'[s] = u /\ live' = live /\ issuing' = issuing \cup {s}
        /\ \A t \in SessionIds \ {s} : holder'[t] = holder[t]
        /\ disabled' = disabled /\ escaped' = escaped
        /\ pc' = pc /\ event' = event
    BY <1>2 DEF IssueSession, TypeOK
  <2>2. live \subseteq SessionIds /\ issuing \subseteq SessionIds
    BY DEF TypeOK
  <2>. QED BY <2>1, <2>2 DEF SessionsAnswered, Disabling
<1>2a. ASSUME NEW s \in SessionIds, StoreSession(s)
       PROVE  SessionsAnswered'
  <2>1. PICK cut \in SUBSET {c \in Callers : Sweeping(c)} :
          /\ live' \subseteq live \cup {s}
          /\ escaped' = escaped \cup {t \in SessionIds :
                          \E c \in cut : pc[c] = "disabling" /\ holder[t] = event[c].user}
          /\ pc' = [c \in Callers |-> IF c \in cut THEN "aborted" ELSE pc[c]]
          /\ event' = [c \in Callers |-> IF c \in cut THEN None ELSE event[c]]
    BY <1>2a DEF StoreSession
  <2>2. s \in issuing /\ issuing' = issuing \ {s} /\ holder' = holder /\ disabled' = disabled
    BY <1>2a DEF StoreSession
  <2>3. ASSUME NEW t \in live' \cup issuing', holder'[t] \in disabled'
        PROVE  t \in escaped' \/ Disabling(holder[t])'
    <3>1. /\ t \in live \cup issuing /\ holder[t] \in disabled /\ t \in SessionIds
      BY <2>1, <2>2, <2>3 DEF TypeOK
    <3>2. CASE t \in escaped
      BY <2>1, <3>2
    <3>3. CASE Disabling(holder[t])
      <4>1. PICK c \in Callers : pc[c] = "disabling" /\ event[c].user = holder[t]
        BY <3>3 DEF Disabling
      <4>2. CASE c \in cut
        BY <2>1, <3>1, <4>1, <4>2
      <4>3. CASE c \notin cut
        BY <2>1, <2>2, <4>1, <4>3 DEF Disabling
      <4>. QED BY <4>2, <4>3
    <3>. QED BY <3>1, <3>2, <3>3 DEF SessionsAnswered
  <2>. QED BY <2>3 DEF SessionsAnswered
<1>3. ASSUME NEW s \in SessionIds, Expire(s)
      PROVE  SessionsAnswered'
  BY <1>3, AnsweredStays DEF Expire, Disabling
<1>4. ASSUME NEW c \in Callers, NEW u \in Users, ChangePassword(c, u)
      PROVE  SessionsAnswered'
  <2>1. \E step, e : Call(c, step, e)
    BY <1>4 DEF ChangePassword
  <2>. QED BY <1>4, <2>1, CallLeavesDisabling, AnsweredStays DEF ChangePassword
<1>5. ASSUME NEW c \in Callers, NEW u \in Users, EnrolTotp(c, u)
      PROVE  SessionsAnswered'
  <2>1. \E step, e : Call(c, step, e)
    BY <1>5 DEF EnrolTotp
  <2>. QED BY <1>5, <2>1, CallLeavesDisabling, AnsweredStays DEF EnrolTotp
<1>6. ASSUME NEW c \in Callers, NEW u \in Users, DisableAccount(c, u)
      PROVE  SessionsAnswered'
  <2>1. /\ Call(c, "disabling", Ending("account_disable", u))
        /\ disabled' = disabled \cup {u} /\ calls \in 0..MaxCalls /\ calls < MaxCalls
        /\ live' = live /\ issuing' = issuing /\ holder' = holder /\ escaped' = escaped
    BY <1>6 DEF DisableAccount, Call, TypeOK
  <2>2. \A v : Disabling(v) => Disabling(v)'
    BY <2>1, CallLeavesDisabling
  <2>3. (Ending("account_disable", u)).user = u
    BY <2>1, EndingHas DEF EventTypes
  <2>4. pc'[c] = "disabling" /\ event'[c] = Ending("account_disable", u)
    BY <2>1 DEF Call, TypeOK
  <2>5. Disabling(u)'
    BY <2>3, <2>4 DEF Disabling
  <2>. QED BY <2>1, <2>2, <2>5 DEF SessionsAnswered
<1>7. ASSUME NEW c \in Callers, NEW u \in Users, NEW right \in BOOLEAN, Authenticate(c, u, right)
      PROVE  SessionsAnswered'
  <2>1. \E step, e : Call(c, step, e)
    BY <1>7 DEF Authenticate
  <2>. QED BY <1>7, <2>1, CallLeavesDisabling, AnsweredStays DEF Authenticate
<1>8. ASSUME NEW c \in Callers, NEW u \in Users, NEW right \in BOOLEAN, VerifyTotp(c, u, right)
      PROVE  SessionsAnswered'
  <2>1. \E step, e : Call(c, step, e)
    BY <1>8 DEF VerifyTotp
  <2>. QED BY <1>8, <2>1, CallLeavesDisabling, AnsweredStays DEF VerifyTotp
<1>8a. ASSUME NEW c \in Callers, StoreTotp(c)
      PROVE  SessionsAnswered'
  <2>1. /\ pc[c] # "disabling"
        /\ \A d \in Callers \ {c} : pc'[d] = pc[d] /\ event'[d] = event[d]
    BY <1>8a DEF StoreTotp, TypeOK
  <2>. QED BY <1>8a, <2>1, DisablingStays, AnsweredStays DEF StoreTotp
<1>9. ASSUME NEW c \in Callers, NEW u \in Users, NEW archetype \in Archetypes,
             NEW r \in RolesTried, NEW k \in Customers \cup {None}, AssignRole(c, u, archetype, r, k)
      PROVE  SessionsAnswered'
  <2>1. \E step, e : Call(c, step, e)
    BY <1>9 DEF AssignRole
  <2>. QED BY <1>9, <2>1, CallLeavesDisabling, AnsweredStays DEF AssignRole
<1>10. ASSUME NEW c \in Callers, NEW s \in SessionIds \cup {None}, RevokeSession(c, s)
      PROVE  SessionsAnswered'
  <2>1. \E step, e : Call(c, step, e)
    BY <1>10 DEF RevokeSession
  <2>. QED BY <1>10, <2>1, CallLeavesDisabling, AnsweredStays DEF RevokeSession
<1>11. ASSUME NEW c \in Callers, NEW a \in roles \cup grants[c], RevokeRole(c, a)
      PROVE  SessionsAnswered'
  <2>1. \E step, e : Call(c, step, e)
    BY <1>11 DEF RevokeRole
  <2>. QED BY <1>11, <2>1, CallLeavesDisabling, AnsweredStays DEF RevokeRole
<1>12. ASSUME NEW c \in Callers, RevokeAllSessions(c)
      PROVE  SessionsAnswered'
  <2> DEFINE u == event[c].user
  <2>1. /\ live' = live \ SessionsOf(u) /\ issuing' = issuing /\ holder' = holder
        /\ disabled' = disabled /\ event' = event
        /\ escaped' = IF pc[c] = "disabling"
                      THEN (escaped \ SessionsOf(u)) \cup {s \in issuing : holder[s] = u}
                      ELSE escaped
        /\ \A d \in Callers \ {c} : pc'[d] = pc[d]
    BY <1>12 DEF RevokeAllSessions, TypeOK
  <2>2. CASE pc[c] # "disabling"
    BY <2>1, <2>2, DisablingStays, AnsweredStays
  <2>3. CASE pc[c] = "disabling"
    <3>1. SUFFICES ASSUME NEW t \in live' \cup issuing', holder'[t] \in disabled'
                   PROVE  t \in escaped' \/ Disabling(holder[t])'
      BY <2>1 DEF SessionsAnswered
    <3>2. /\ t \in live \cup issuing /\ t \in SessionIds /\ t \notin SessionsOf(u)
      BY <2>1, <3>1 DEF TypeOK, SessionsOf
    <3>3. CASE holder[t] = u
      <4>1. t \in issuing
        BY <3>2, <3>3 DEF SessionsOf
      <4>. QED BY <2>1, <2>3, <3>3, <4>1
    <3>4. CASE holder[t] # u
      <4>1. t \in escaped \/ Disabling(holder[t])
        BY <2>1, <3>1, <3>2 DEF SessionsAnswered
      <4>2. Disabling(holder[t]) => Disabling(holder[t])'
        BY <2>1, <3>4 DEF Disabling
      <4>. QED BY <2>1, <2>3, <3>2, <4>1, <4>2
    <3>. QED BY <3>3, <3>4
  <2>. QED BY <2>2, <2>3
<1>13. ASSUME NEW c \in Callers, Record(c)
      PROVE  SessionsAnswered'
  <2>1. /\ pc[c] # "disabling"
        /\ \A d \in Callers \ {c} : pc'[d] = pc[d] /\ event'[d] = event[d]
    BY <1>13 DEF Record, TypeOK
  <2>. QED BY <1>13, <2>1, DisablingStays, AnsweredStays DEF Record
<1>14. ASSUME NEW c \in Callers, RecordFails(c)
      PROVE  SessionsAnswered'
  <2>1. /\ pc[c] # "disabling"
        /\ \A d \in Callers \ {c} : pc'[d] = pc[d] /\ event'[d] = event[d]
    BY <1>14 DEF RecordFails, TypeOK
  <2>. QED BY <1>14, <2>1, DisablingStays, AnsweredStays DEF RecordFails
<1>15. ASSUME NEW c \in Callers, Commit(c)
      PROVE  SessionsAnswered'
  <2>1. /\ pc[c] # "disabling"
        /\ \A d \in Callers \ {c} : pc'[d] = pc[d] /\ event'[d] = event[d]
    BY <1>15 DEF Commit, Close, TypeOK
  <2>. QED BY <1>15, <2>1, DisablingStays, AnsweredStays DEF Commit, Close
<1>16. ASSUME NEW c \in Callers, RollBack(c)
      PROVE  SessionsAnswered'
  <2>1. /\ pc[c] # "disabling"
        /\ \A d \in Callers \ {c} : pc'[d] = pc[d] /\ event'[d] = event[d]
    BY <1>16 DEF RollBack, Close, TypeOK
  <2>. QED BY <1>16, <2>1, DisablingStays, AnsweredStays DEF RollBack, Close
<1>17. CASE UNCHANGED vars
  BY <1>17 DEF SessionsAnswered, Disabling, vars
<1>18. ASSUME NEW c \in Callers, NEW u \in Users, UserCall(c, u)
      PROVE  SessionsAnswered'
  <2>1. CASE ChangePassword(c, u) \/ EnrolTotp(c, u) \/ DisableAccount(c, u)
    BY <2>1, <1>4, <1>5, <1>6
  <2>2. ASSUME NEW right \in BOOLEAN, Authenticate(c, u, right) \/ VerifyTotp(c, u, right)
        PROVE  SessionsAnswered'
    BY <2>2, <1>7, <1>8
  <2>3. ASSUME NEW archetype \in Archetypes, NEW r \in RolesTried,
               NEW k \in Customers \cup {None}, AssignRole(c, u, archetype, r, k)
        PROVE  SessionsAnswered'
    BY <2>3, <1>9
  <2>. QED BY <1>18, <2>1, <2>2, <2>3 DEF UserCall
<1>19. CASE \E u \in Users : Register(u) \/ \E s \in SessionIds : IssueSession(u, s)
  BY <1>19, <1>1, <1>2
<1>20. CASE \E s \in SessionIds : StoreSession(s) \/ Expire(s)
  BY <1>20, <1>2a, <1>3
<1>21. ASSUME NEW c \in Callers,
             \/ \E u \in Users : UserCall(c, u)
             \/ \E s \in SessionIds \cup {None} : RevokeSession(c, s)
             \/ \E a \in roles \cup grants[c] : RevokeRole(c, a)
             \/ StoreTotp(c) \/ RevokeAllSessions(c) \/ Record(c) \/ RecordFails(c)
             \/ Commit(c) \/ RollBack(c)
       PROVE  SessionsAnswered'
  BY <1>21, <1>18, <1>8a, <1>10, <1>11, <1>12, <1>13, <1>14, <1>15, <1>16
<1>. QED BY <1>17, <1>19, <1>20, <1>21 DEF Next

-----------------------------------------------------------------------------
(***************************************************************************)
(* What an audit event says lasts.                                         *)
(***************************************************************************)
\* The provider undoes nothing: no account is enabled or forgotten, no second
\* factor taken away, no session revived or handed over.
ProviderLasts ==
    /\ disabled \subseteq disabled'
    /\ calls \in Nat /\ calls' \in Nat /\ calls <= calls'
    /\ \A u \in Users :
        /\ password[u] \in Nat
        /\ password'[u] = password[u] \/ password'[u] = calls + 1
        /\ totp[u] # "none" => totp'[u] # "none"
    /\ \A s \in SessionIds : holder[s] # None /\ s \notin issuing =>
        /\ holder'[s] = holder[s] /\ s \notin issuing'
        /\ s \in live' => s \in live

LEMMA NextProviderLasts == TypeOK /\ [Next]_vars => ProviderLasts
<1> SUFFICES ASSUME TypeOK, [Next]_vars PROVE ProviderLasts
  OBVIOUS
<1> USE AuthAssumption DEF Goto, providerVars, sessionVars, openVars
<1>1. ASSUME NEW u \in Users, Register(u)
      PROVE  ProviderLasts
  BY <1>1
     DEF ProviderLasts, TypeOK, Register
<1>2. ASSUME NEW u \in Users, NEW s \in SessionIds, IssueSession(u, s)
      PROVE  ProviderLasts
  BY <1>2
     DEF ProviderLasts, TypeOK, IssueSession
<1>2a. ASSUME NEW s \in SessionIds, StoreSession(s)
       PROVE  ProviderLasts
  <2>1. live' \subseteq live \cup {s}
    BY <1>2a DEF StoreSession
  <2>. QED BY <1>2a, <2>1 DEF ProviderLasts, TypeOK, StoreSession
<1>3. ASSUME NEW s \in SessionIds, Expire(s)
      PROVE  ProviderLasts
  BY <1>3
     DEF ProviderLasts, TypeOK, Expire
<1>4. ASSUME NEW c \in Callers, NEW u \in Users, ChangePassword(c, u)
      PROVE  ProviderLasts
  BY <1>4
     DEF ProviderLasts, TypeOK, ChangePassword, Call
<1>5. ASSUME NEW c \in Callers, NEW u \in Users, EnrolTotp(c, u)
      PROVE  ProviderLasts
  BY <1>5
     DEF ProviderLasts, TypeOK, EnrolTotp, Call
<1>6. ASSUME NEW c \in Callers, NEW u \in Users, DisableAccount(c, u)
      PROVE  ProviderLasts
  BY <1>6
     DEF ProviderLasts, TypeOK, DisableAccount, Call
<1>7. ASSUME NEW c \in Callers, NEW u \in Users, NEW right \in BOOLEAN, Authenticate(c, u, right)
      PROVE  ProviderLasts
  BY <1>7
     DEF ProviderLasts, TypeOK, Authenticate, Call
<1>8. ASSUME NEW c \in Callers, NEW u \in Users, NEW right \in BOOLEAN, VerifyTotp(c, u, right)
      PROVE  ProviderLasts
  BY <1>8
     DEF ProviderLasts, TypeOK, VerifyTotp, Call
<1>8a. ASSUME NEW c \in Callers, StoreTotp(c)
       PROVE  ProviderLasts
  BY <1>8a DEF ProviderLasts, TypeOK, StoreTotp
<1>9. ASSUME NEW c \in Callers, NEW u \in Users, NEW archetype \in Archetypes,
             NEW r \in RolesTried, NEW k \in Customers \cup {None}, AssignRole(c, u, archetype, r, k)
      PROVE  ProviderLasts
  BY <1>9
     DEF ProviderLasts, TypeOK, AssignRole, Call
<1>10. ASSUME NEW c \in Callers, NEW s \in SessionIds \cup {None}, RevokeSession(c, s)
      PROVE  ProviderLasts
  BY <1>10
     DEF ProviderLasts, TypeOK, RevokeSession, Call
<1>11. ASSUME NEW c \in Callers, NEW a \in roles \cup grants[c], RevokeRole(c, a)
      PROVE  ProviderLasts
  BY <1>11
     DEF ProviderLasts, TypeOK, RevokeRole, Call
<1>12. ASSUME NEW c \in Callers, RevokeAllSessions(c)
      PROVE  ProviderLasts
  BY <1>12
     DEF ProviderLasts, TypeOK, RevokeAllSessions
<1>13. ASSUME NEW c \in Callers, Record(c)
      PROVE  ProviderLasts
  BY <1>13
     DEF ProviderLasts, TypeOK, Record
<1>14. ASSUME NEW c \in Callers, RecordFails(c)
      PROVE  ProviderLasts
  BY <1>14
     DEF ProviderLasts, TypeOK, RecordFails
<1>15. ASSUME NEW c \in Callers, Commit(c)
      PROVE  ProviderLasts
  BY <1>15
     DEF ProviderLasts, TypeOK, Commit, Close
<1>16. ASSUME NEW c \in Callers, RollBack(c)
      PROVE  ProviderLasts
  BY <1>16
     DEF ProviderLasts, TypeOK, RollBack, Close
<1>17. CASE UNCHANGED vars
  BY <1>17
     DEF ProviderLasts, TypeOK, vars
<1>18. ASSUME NEW c \in Callers, NEW u \in Users, UserCall(c, u)
      PROVE  ProviderLasts
  <2>1. CASE ChangePassword(c, u) \/ EnrolTotp(c, u) \/ DisableAccount(c, u)
    BY <2>1, <1>4, <1>5, <1>6
  <2>2. ASSUME NEW right \in BOOLEAN, Authenticate(c, u, right) \/ VerifyTotp(c, u, right)
        PROVE  ProviderLasts
    BY <2>2, <1>7, <1>8
  <2>3. ASSUME NEW archetype \in Archetypes, NEW r \in RolesTried,
               NEW k \in Customers \cup {None}, AssignRole(c, u, archetype, r, k)
        PROVE  ProviderLasts
    BY <2>3, <1>9
  <2>. QED BY <1>18, <2>1, <2>2, <2>3 DEF UserCall
<1>19. CASE \E u \in Users : Register(u) \/ \E s \in SessionIds : IssueSession(u, s)
  BY <1>19, <1>1, <1>2
<1>20. CASE \E s \in SessionIds : StoreSession(s) \/ Expire(s)
  BY <1>20, <1>2a, <1>3
<1>21. ASSUME NEW c \in Callers,
             \/ \E u \in Users : UserCall(c, u)
             \/ \E s \in SessionIds \cup {None} : RevokeSession(c, s)
             \/ \E a \in roles \cup grants[c] : RevokeRole(c, a)
             \/ StoreTotp(c) \/ RevokeAllSessions(c) \/ Record(c) \/ RecordFails(c)
             \/ Commit(c) \/ RollBack(c)
       PROVE  ProviderLasts
  BY <1>21, <1>18, <1>8a, <1>10, <1>11, <1>12, <1>13, <1>14, <1>15, <1>16
<1>. QED BY <1>17, <1>19, <1>20, <1>21 DEF Next

LEMMA EventsLast ==
    ASSUME TypeOK, ProviderLasts, NEW e \in AuditEvents, Sound(e)
    PROVE  /\ Sound(e)'
           /\ Done(e) => Done(e)'
           /\ Happened(e) => Happened(e)'
           /\ e.ended \subseteq SessionsOf(e.user) => e.ended \subseteq SessionsOf(e.user)'
<1>1. /\ e.call \in Nat /\ e.ended \subseteq SessionIds /\ e.call <= calls
      /\ calls \in Nat /\ calls' \in Nat /\ calls <= calls'
  BY AuthAssumption DEF AuditEvents, Sound, ProviderLasts
<1>2. Sound(e)'
  BY <1>1 DEF Sound, ProviderLasts
<1>3. ASSUME Done(e)
      PROVE  Done(e)'
  <2>1. e.type = "account_disable" => e.user \in disabled'
    BY <1>3 DEF Done, ProviderLasts
  <2>2. e.type = "password_change" => password'[e.user] >= e.call
    <3> SUFFICES ASSUME e.type = "password_change" PROVE password'[e.user] >= e.call
      OBVIOUS
    <3>1. e.user \in Users /\ password[e.user] >= e.call
      BY <1>3 DEF Done, Sound
    <3>2. /\ password[e.user] \in Nat
          /\ password'[e.user] = password[e.user] \/ password'[e.user] = calls + 1
      BY <3>1 DEF ProviderLasts
    <3>. QED BY <1>1, <3>1, <3>2
  <2>3. e.type \in {"mfa_challenge_issued", "mfa_challenge_success"} => totp'[e.user] # "none"
    BY <1>3 DEF Done, Sound, ProviderLasts
  <2>. QED BY <2>1, <2>2, <2>3 DEF Done
<1>4. e.ended \cap live = {} => e.ended \cap live' = {}
  BY <1>1 DEF Sound, ProviderLasts
<1>5. e.ended \subseteq SessionsOf(e.user) => e.ended \subseteq SessionsOf(e.user)'
  BY <1>1 DEF Sound, ProviderLasts, SessionsOf
<1>. QED BY <1>2, <1>3, <1>4, <1>5 DEF Happened

\* The new event of a caller, as its step leaves it.
Fresh(c) ==
    \/ pc'[c] \in {"open", "aborted"}
    \/ pc'[c] = "recording" /\ Sound(event[c])' /\ Happened(event[c])'
    \/ /\ pc'[c] \in {"disabling", "revoking"} /\ Sound(event[c])' /\ Done(event[c])'
       /\ event'[c].ended \subseteq SessionsOf(event[c].user)'
    \/ /\ pc'[c] \in {"enrolling", "confirming"} /\ Sound(event[c])'
       /\ event'[c].ended = {}
       /\ event'[c].type \in {"mfa_challenge_issued", "mfa_challenge_success"}

\* Where the events of the next state come from.
EventsMove ==
    /\ \A e \in trail' : e \in trail \/ \E c \in Callers : e \in rows[c]
    /\ \A c \in Callers : \A e \in rows'[c] :
          e \in rows[c] \/ (pc[c] = "recording" /\ e = event[c])
    /\ \A c \in Callers : (pc'[c] = pc[c] /\ event'[c] = event[c]) \/ Fresh(c)

LEMMA NextEventsMove == TypeOK /\ EventsHappened /\ [Next]_vars => EventsMove
<1> SUFFICES ASSUME TypeOK /\ EventsHappened, [Next]_vars PROVE EventsMove
  OBVIOUS
<1> USE AuthAssumption DEF Goto, providerVars, sessionVars, openVars
<1>1. ASSUME NEW u \in Users, Register(u)
      PROVE  EventsMove
  BY <1>1
     DEF EventsMove, TypeOK, Register
<1>2. ASSUME NEW u \in Users, NEW s \in SessionIds, IssueSession(u, s)
      PROVE  EventsMove
  BY <1>2
     DEF EventsMove, TypeOK, IssueSession
<1>2a. ASSUME NEW s \in SessionIds, StoreSession(s)
       PROVE  EventsMove
  <2>1. PICK cut \in SUBSET {c \in Callers : Sweeping(c)} :
          /\ pc' = [c \in Callers |-> IF c \in cut THEN "aborted" ELSE pc[c]]
          /\ event' = [c \in Callers |-> IF c \in cut THEN None ELSE event[c]]
    BY <1>2a DEF StoreSession
  <2>2. trail' = trail /\ rows' = rows
    BY <1>2a DEF StoreSession
  <2>. QED BY <2>1, <2>2 DEF EventsMove, Fresh
<1>3. ASSUME NEW s \in SessionIds, Expire(s)
      PROVE  EventsMove
  BY <1>3
     DEF EventsMove, TypeOK, Expire
<1>4. ASSUME NEW c \in Callers, NEW u \in Users, ChangePassword(c, u)
      PROVE  EventsMove
  <2>1. calls \in 0..MaxCalls /\ calls < MaxCalls /\ calls' = calls + 1
    BY <1>4 DEF ChangePassword, Call, TypeOK
  <2>2. /\ trail' = trail /\ rows' = rows
        /\ \A d \in Callers \ {c} : pc'[d] = pc[d] /\ event'[d] = event[d]
    BY <1>4 DEF ChangePassword, Call, TypeOK
  <2>3. PICK e \in AuditEvents : /\ e = Ending("password_change", u)
                                 /\ e.call = calls + 1 /\ e.user = u /\ e.ended = SessionsOf(u)
                                 /\ e.type = "password_change"
    BY <2>1, EndingHas DEF EventTypes
  <2>4. event'[c] = e /\ pc'[c] = "revoking"
    BY <1>4, <2>3 DEF ChangePassword, Call, TypeOK
  <2>5. password'[u] = calls + 1 /\ holder' = holder /\ issuing' = issuing
    BY <1>4 DEF ChangePassword, TypeOK
  <2>6. Sound(e)'
    BY <2>1, <2>3, <2>5 DEF Sound, SessionsOf
  <2>7. Done(e)' /\ e.ended \subseteq SessionsOf(e.user)'
    BY <2>1, <2>3, <2>5 DEF Done, SessionsOf
  <2>9. Fresh(c)
    BY <2>4, <2>6, <2>7 DEF Fresh
  <2>. QED BY <2>2, <2>9 DEF EventsMove
<1>5. ASSUME NEW c \in Callers, NEW u \in Users, EnrolTotp(c, u)
      PROVE  EventsMove
  <2>1. calls \in 0..MaxCalls /\ calls < MaxCalls /\ calls' = calls + 1
    BY <1>5 DEF EnrolTotp, Call, TypeOK
  <2>2. /\ trail' = trail /\ rows' = rows
        /\ \A d \in Callers \ {c} : pc'[d] = pc[d] /\ event'[d] = event[d]
    BY <1>5 DEF EnrolTotp, Call, TypeOK
  <2>3. PICK e \in AuditEvents : /\ e = NewEvent("mfa_challenge_issued", u)
                                 /\ e.call = calls + 1 /\ e.user = u /\ e.ended = {}
                                 /\ e.type = "mfa_challenge_issued"
    BY <2>1, NewEventHas DEF EventTypes, TypeOK
  <2>4. event'[c] = e /\ pc'[c] = "enrolling"
    BY <1>5, <2>3 DEF EnrolTotp, Call, TypeOK
  <2>5. Sound(e)'
    BY <2>1, <2>3 DEF Sound
  <2>6. Fresh(c)
    BY <2>3, <2>4, <2>5 DEF Fresh
  <2>. QED BY <2>2, <2>6 DEF EventsMove
<1>6. ASSUME NEW c \in Callers, NEW u \in Users, DisableAccount(c, u)
      PROVE  EventsMove
  <2>1. calls \in 0..MaxCalls /\ calls < MaxCalls /\ calls' = calls + 1
    BY <1>6 DEF DisableAccount, Call, TypeOK
  <2>2. /\ trail' = trail /\ rows' = rows
        /\ \A d \in Callers \ {c} : pc'[d] = pc[d] /\ event'[d] = event[d]
    BY <1>6 DEF DisableAccount, Call, TypeOK
  <2>3. PICK e \in AuditEvents : /\ e = Ending("account_disable", u)
                                 /\ e.call = calls + 1 /\ e.user = u /\ e.ended = SessionsOf(u)
                                 /\ e.type = "account_disable"
    BY <2>1, EndingHas DEF EventTypes
  <2>4. event'[c] = e /\ pc'[c] = "disabling"
    BY <1>6, <2>3 DEF DisableAccount, Call, TypeOK
  <2>5. u \in disabled' /\ holder' = holder /\ issuing' = issuing
    BY <1>6 DEF DisableAccount
  <2>6. Sound(e)'
    BY <2>1, <2>3, <2>5 DEF Sound, SessionsOf
  <2>7. Done(e)' /\ e.ended \subseteq SessionsOf(e.user)'
    BY <2>3, <2>5 DEF Done, SessionsOf
  <2>8. Fresh(c)
    BY <2>4, <2>6, <2>7 DEF Fresh
  <2>. QED BY <2>2, <2>8 DEF EventsMove
<1>7. ASSUME NEW c \in Callers, NEW u \in Users, NEW right \in BOOLEAN, Authenticate(c, u, right)
      PROVE  EventsMove
  <2>1. calls \in 0..MaxCalls /\ calls < MaxCalls /\ calls' = calls + 1
    BY <1>7 DEF Authenticate, Call, TypeOK
  <2>2. /\ trail' = trail /\ rows' = rows
        /\ \A d \in Callers \ {c} : pc'[d] = pc[d] /\ event'[d] = event[d]
    BY <1>7 DEF Authenticate, Call, TypeOK
  <2>3. PICK e \in AuditEvents :
          /\ e = IF right /\ u \in registered \ disabled
                 THEN NewEvent("login_success", u) ELSE NewEvent("login_failure", None)
          /\ e.call = calls + 1 /\ e.ended = {}
          /\ \/ e.type = "login_success" /\ e.user = u
             \/ e.type = "login_failure"
    <3>1. CASE right /\ u \in registered \ disabled
      BY <2>1, <3>1, NewEventHas DEF EventTypes
    <3>2. CASE ~(right /\ u \in registered \ disabled)
      BY <2>1, <3>2, NewEventHas DEF EventTypes
    <3>. QED BY <3>1, <3>2
  <2>4. event'[c] = e /\ pc'[c] = "recording"
    BY <1>7, <2>3 DEF Authenticate, Call, TypeOK
  <2>6. Sound(e)' /\ Happened(e)'
    BY <2>1, <2>3 DEF Sound, Happened, Done
  <2>9. Fresh(c)
    BY <2>4, <2>6 DEF Fresh
  <2>. QED BY <2>2, <2>9 DEF EventsMove
<1>8. ASSUME NEW c \in Callers, NEW u \in Users, NEW right \in BOOLEAN, VerifyTotp(c, u, right)
      PROVE  EventsMove
  <2>1. calls \in 0..MaxCalls /\ calls < MaxCalls /\ calls' = calls + 1
    BY <1>8 DEF VerifyTotp, Call, TypeOK
  <2>2. /\ trail' = trail /\ rows' = rows
        /\ \A d \in Callers \ {c} : pc'[d] = pc[d] /\ event'[d] = event[d]
    BY <1>8 DEF VerifyTotp, Call, TypeOK
  <2>3. PICK e \in AuditEvents :
          /\ e.call = calls + 1 /\ e.user = u /\ e.ended = {}
          /\ event'[c] = e
          /\ \/ e.type = "mfa_challenge_success" /\ pc'[c] = "confirming"
             \/ e.type = "mfa_challenge_failure" /\ pc'[c] = "recording"
    <3>1. CASE right
      <4>1. Call(c, "confirming", NewEvent("mfa_challenge_success", u))
        BY <1>8, <3>1 DEF VerifyTotp
      <4>. QED BY <2>1, <4>1, NewEventHas DEF EventTypes, Call, TypeOK
    <3>2. CASE ~right
      <4>1. Call(c, "recording", NewEvent("mfa_challenge_failure", u))
        BY <1>8, <3>2 DEF VerifyTotp
      <4>. QED BY <2>1, <4>1, NewEventHas DEF EventTypes, Call, TypeOK
    <3>. QED BY <3>1, <3>2
  <2>4. Sound(e)' /\ (pc'[c] = "recording" => Happened(e)')
    BY <2>1, <2>3 DEF Sound, Happened, Done
  <2>5. Fresh(c)
    BY <2>3, <2>4 DEF Fresh
  <2>. QED BY <2>2, <2>5 DEF EventsMove
<1>8a. ASSUME NEW c \in Callers, StoreTotp(c)
       PROVE  EventsMove
  <2>1. /\ trail' = trail /\ rows' = rows /\ event' = event /\ sessionVars' = sessionVars
        /\ disabled' = disabled /\ password' = password /\ calls' = calls
        /\ pc[c] \in {"enrolling", "confirming"}
        /\ pc'[c] = "recording" /\ \A d \in Callers \ {c} : pc'[d] = pc[d]
    BY <1>8a DEF StoreTotp, TypeOK
  <2>2. /\ Sound(event[c]) /\ event[c].ended = {}
        /\ event[c].type \in {"mfa_challenge_issued", "mfa_challenge_success"}
    BY <2>1 DEF EventsHappened
  <2>3. event[c].user \in Users
    BY <2>2 DEF Sound
  <2>4. totp'[event[c].user] # "none"
    BY <1>8a, <2>3 DEF StoreTotp, TypeOK
  <2>5. Sound(event[c])' /\ Happened(event[c])'
    BY <2>1, <2>2, <2>4 DEF Sound, Happened, Done
  <2>6. Fresh(c)
    BY <2>1, <2>5 DEF Fresh
  <2>. QED BY <2>1, <2>6 DEF EventsMove
<1>9. ASSUME NEW c \in Callers, NEW u \in Users, NEW archetype \in Archetypes,
             NEW r \in RolesTried, NEW k \in Customers \cup {None}, AssignRole(c, u, archetype, r, k)
      PROVE  EventsMove
  <2>1. calls \in 0..MaxCalls /\ calls < MaxCalls /\ calls' = calls + 1
    BY <1>9 DEF AssignRole, Call, TypeOK
  <2>2. /\ trail' = trail /\ rows' = rows
        /\ \A d \in Callers \ {c} : pc'[d] = pc[d] /\ event'[d] = event[d]
    <3>1. \E step, e : Call(c, step, e)
      BY <1>9 DEF AssignRole
    <3>2. trail' = trail /\ rows' = rows
      BY <1>9 DEF AssignRole
    <3>. QED BY <3>1, <3>2 DEF Call, TypeOK
  <2> DEFINE new == [user |-> u, archetype |-> archetype, role |-> r, customer |-> k,
                      granted_at |-> calls + 1, revoked |-> FALSE]
  <2>3. PICK e \in AuditEvents :
          /\ e = About("role_grant", new, {})
          /\ e.call = calls + 1 /\ e.ended = {}
          /\ e.type = "role_grant" /\ e.user \in Users
    <3>1. new \in Assignments /\ new.user = u
      BY <2>1 DEF Assignments
    <3>. HIDE DEF new
    <3>. QED BY <2>1, <3>1, AboutHas DEF EventTypes
  <2>4. \/ event'[c] = e /\ pc'[c] = "recording"
        \/ pc'[c] = "aborted"
    <3>1. \/ Call(c, "recording", e)
          \/ Call(c, "aborted", None)
      BY <1>9, <2>3 DEF AssignRole
    <3>. HIDE DEF new
    <3>. QED BY <3>1 DEF Call, TypeOK
  <2>. HIDE DEF new
  <2>5. /\ e.call = calls' /\ e.ended = {} /\ e.user \in Users /\ e.type = "role_grant"
        /\ calls' \in Nat
    BY <2>1, <2>3
  <2>6. Sound(e)' /\ Happened(e)'
    BY <2>5 DEF Sound, Happened, Done
  <2>9. Fresh(c)
    BY <2>4, <2>6 DEF Fresh
  <2>. QED BY <2>2, <2>9 DEF EventsMove
<1>10. ASSUME NEW c \in Callers, NEW s \in SessionIds \cup {None}, RevokeSession(c, s)
      PROVE  EventsMove
  <2>1. calls \in 0..MaxCalls /\ calls < MaxCalls /\ calls' = calls + 1
    BY <1>10 DEF RevokeSession, Call, TypeOK
  <2>2. /\ trail' = trail /\ rows' = rows
        /\ \A d \in Callers \ {c} : pc'[d] = pc[d] /\ event'[d] = event[d]
    BY <1>10 DEF RevokeSession, Call, TypeOK
  <2>3. PICK e \in AuditEvents :
          /\ e = [NewEvent("session_revoke", None) EXCEPT !.ended = {s} \ {None}]
          /\ e.call = calls + 1 /\ e.ended = {s} \ {None}
          /\ e.type = "session_revoke"
    <3>1. PICK n \in AuditEvents :
            /\ n = NewEvent("session_revoke", None)
            /\ n.call = calls + 1 /\ n.type = "session_revoke"
      BY <2>1, NewEventHas DEF EventTypes
    <3>2. {s} \ {None} \in SUBSET SessionIds
      OBVIOUS
    <3>3. /\ [n EXCEPT !.ended = {s} \ {None}] \in AuditEvents
          /\ [n EXCEPT !.ended = {s} \ {None}].ended = {s} \ {None}
          /\ [n EXCEPT !.ended = {s} \ {None}].call = n.call
          /\ [n EXCEPT !.ended = {s} \ {None}].type = n.type
      BY <3>2 DEF AuditEvents
    <3>. QED BY <3>1, <3>3
  <2>4. event'[c] = e /\ pc'[c] = "recording"
    BY <1>10, <2>3 DEF RevokeSession, Call, TypeOK
  <2>5. /\ live' = live \ {s} /\ holder' = holder /\ issuing' = issuing
        /\ s # None => holder[s] # None /\ s \notin issuing
    BY <1>10 DEF RevokeSession
  <2>6. Sound(e)' /\ Happened(e)'
    BY <2>1, <2>3, <2>5 DEF Sound, Happened, Done
  <2>9. Fresh(c)
    BY <2>4, <2>6 DEF Fresh
  <2>. QED BY <2>2, <2>9 DEF EventsMove
<1>11. ASSUME NEW c \in Callers, NEW a \in roles \cup grants[c], RevokeRole(c, a)
      PROVE  EventsMove
  <2>1. calls \in 0..MaxCalls /\ calls < MaxCalls /\ calls' = calls + 1
    BY <1>11 DEF RevokeRole, Call, TypeOK
  <2>2. /\ trail' = trail /\ rows' = rows
        /\ \A d \in Callers \ {c} : pc'[d] = pc[d] /\ event'[d] = event[d]
    BY <1>11 DEF RevokeRole, Call, TypeOK
  <2>3. PICK e \in AuditEvents :
          /\ e = About("role_revoke", a, SessionsOf(a.user))
          /\ e.call = calls + 1 /\ e.ended = SessionsOf(e.user)
          /\ e.type = "role_revoke" /\ e.user \in Users
    <3>1. a \in Assignments /\ a.user \in Users
      BY DEF TypeOK, Assignments
    <3>2. SessionsOf(a.user) \in SUBSET SessionIds
      BY DEF SessionsOf
    <3>. QED BY <2>1, <3>1, <3>2, AboutHas DEF EventTypes
  <2>4. event'[c] = e /\ pc'[c] = "revoking"
    BY <1>11, <2>3 DEF RevokeRole, Call, TypeOK
  <2>5. holder' = holder /\ issuing' = issuing
    BY <1>11 DEF RevokeRole
  <2>6. Sound(e)'
    <3>1. \A s \in e.ended : holder[s] = e.user /\ e.user # None /\ s \notin issuing
      BY <2>3 DEF SessionsOf
    <3>2. e.call <= calls'
      BY <2>1, <2>3
    <3>. QED BY <2>3, <2>5, <3>1, <3>2 DEF Sound
  <2>7. Done(e)' /\ e.ended \subseteq SessionsOf(e.user)'
    BY <2>3, <2>5 DEF Done, SessionsOf
  <2>9. Fresh(c)
    BY <2>4, <2>6, <2>7 DEF Fresh
  <2>. QED BY <2>2, <2>9 DEF EventsMove
<1>12. ASSUME NEW c \in Callers, RevokeAllSessions(c)
      PROVE  EventsMove
  <2>1. /\ trail' = trail /\ rows' = rows /\ event' = event /\ holder' = holder
        /\ disabled' = disabled /\ password' = password /\ totp' = totp /\ calls' = calls
        /\ issuing' = issuing /\ live' = live \ SessionsOf(event[c].user) /\ Sweeping(c)
    BY <1>12 DEF RevokeAllSessions
  <2>2. pc'[c] = "recording" /\ \A d \in Callers \ {c} : pc'[d] = pc[d]
    BY <1>12 DEF RevokeAllSessions, TypeOK
  <2>3. /\ Sound(event[c]) /\ Done(event[c])
        /\ event[c].ended \subseteq SessionsOf(event[c].user)
    BY <2>1 DEF EventsHappened
  <2>4. Sound(event[c])' /\ Happened(event[c])'
    BY <2>1, <2>3 DEF Sound, Happened, Done
  <2>9. Fresh(c)
    BY <2>2, <2>4 DEF Fresh
  <2>. QED BY <2>1, <2>2, <2>9 DEF EventsMove
<1>13. ASSUME NEW c \in Callers, Record(c)
      PROVE  EventsMove
  <2>1. /\ trail' = trail /\ pc[c] = "recording" /\ pc'[c] = "open"
        /\ rows'[c] = rows[c] \cup {event[c]}
        /\ \A d \in Callers \ {c} :
              rows'[d] = rows[d] /\ pc'[d] = pc[d] /\ event'[d] = event[d]
    BY <1>13 DEF Record, TypeOK
  <2>. QED BY <2>1 DEF EventsMove, Fresh
<1>14. ASSUME NEW c \in Callers, RecordFails(c)
      PROVE  EventsMove
  <2>1. /\ trail' = trail /\ pc'[c] = "aborted" /\ rows' = rows
        /\ \A d \in Callers \ {c} : pc'[d] = pc[d] /\ event'[d] = event[d]
    BY <1>14 DEF RecordFails, TypeOK
  <2>. QED BY <2>1 DEF EventsMove, Fresh
<1>15. ASSUME NEW c \in Callers, Commit(c)
      PROVE  EventsMove
  <2>1. /\ trail' \subseteq trail \cup rows[c] /\ pc'[c] = "open" /\ rows'[c] = {}
        /\ \A d \in Callers \ {c} :
              rows'[d] = rows[d] /\ pc'[d] = pc[d] /\ event'[d] = event[d]
    BY <1>15 DEF Commit, Close, TypeOK
  <2>. QED BY <2>1 DEF EventsMove, Fresh
<1>16. ASSUME NEW c \in Callers, RollBack(c)
      PROVE  EventsMove
  <2>1. /\ trail' \subseteq trail \cup rows[c] /\ pc'[c] = "open" /\ rows'[c] = {}
        /\ \A d \in Callers \ {c} :
              rows'[d] = rows[d] /\ pc'[d] = pc[d] /\ event'[d] = event[d]
    BY <1>16 DEF RollBack, Close, TypeOK
  <2>. QED BY <2>1 DEF EventsMove, Fresh
<1>17. CASE UNCHANGED vars
  BY <1>17
     DEF EventsMove, TypeOK, vars
<1>18. ASSUME NEW c \in Callers, NEW u \in Users, UserCall(c, u)
      PROVE  EventsMove
  <2>1. CASE ChangePassword(c, u) \/ EnrolTotp(c, u) \/ DisableAccount(c, u)
    BY <2>1, <1>4, <1>5, <1>6
  <2>2. ASSUME NEW right \in BOOLEAN, Authenticate(c, u, right) \/ VerifyTotp(c, u, right)
        PROVE  EventsMove
    BY <2>2, <1>7, <1>8
  <2>3. ASSUME NEW archetype \in Archetypes, NEW r \in RolesTried,
               NEW k \in Customers \cup {None}, AssignRole(c, u, archetype, r, k)
        PROVE  EventsMove
    BY <2>3, <1>9
  <2>. QED BY <1>18, <2>1, <2>2, <2>3 DEF UserCall
<1>19. CASE \E u \in Users : Register(u) \/ \E s \in SessionIds : IssueSession(u, s)
  BY <1>19, <1>1, <1>2
<1>20. CASE \E s \in SessionIds : StoreSession(s) \/ Expire(s)
  BY <1>20, <1>2a, <1>3
<1>21. ASSUME NEW c \in Callers,
             \/ \E u \in Users : UserCall(c, u)
             \/ \E s \in SessionIds \cup {None} : RevokeSession(c, s)
             \/ \E a \in roles \cup grants[c] : RevokeRole(c, a)
             \/ StoreTotp(c) \/ RevokeAllSessions(c) \/ Record(c) \/ RecordFails(c)
             \/ Commit(c) \/ RollBack(c)
       PROVE  EventsMove
  BY <1>21, <1>18, <1>8a, <1>10, <1>11, <1>12, <1>13, <1>14, <1>15, <1>16
<1>. QED BY <1>17, <1>19, <1>20, <1>21 DEF Next

LEMMA NextEventsHappened ==
    TypeOK /\ EventsHappened /\ [Next]_vars => EventsHappened'
<1> SUFFICES ASSUME TypeOK, EventsHappened, [Next]_vars PROVE EventsHappened'
  OBVIOUS
<1>1. ProviderLasts /\ EventsMove
  BY NextProviderLasts, NextEventsMove
<1>2. \A e \in AuditEvents : Sound(e) /\ Happened(e) => Sound(e)' /\ Happened(e)'
  BY <1>1, EventsLast
<1>3. /\ trail \subseteq AuditEvents /\ \A c \in Callers : rows[c] \subseteq AuditEvents
      /\ \A c \in Callers : UnderWay(c) => event[c] \in AuditEvents
  BY DEF TypeOK
<1>4. \A c \in Callers : \A e \in rows[c] : Sound(e)' /\ Happened(e)'
  BY <1>2, <1>3 DEF EventsHappened
<1>5. \A e \in trail' : Sound(e)' /\ Happened(e)'
  BY <1>1, <1>2, <1>3, <1>4 DEF EventsMove, EventsHappened
<1>6. ASSUME NEW c \in Callers, NEW e \in rows'[c]
      PROVE  Sound(e)' /\ Happened(e)'
  <2>1. CASE e \in rows[c]
    BY <1>4, <2>1
  <2>2. CASE pc[c] = "recording" /\ e = event[c]
    <3>1. e \in AuditEvents
      BY <1>3, <2>2 DEF UnderWay, Steps
    <3>2. Sound(e) /\ Happened(e)
      BY <2>2 DEF EventsHappened
    <3>. QED BY <1>2, <3>1, <3>2
  <2>. QED BY <1>1, <2>1, <2>2 DEF EventsMove
<1>7. ASSUME NEW c \in Callers, pc'[c] = "recording"
      PROVE  Sound(event[c])' /\ Happened(event[c])'
  <2>1. CASE Fresh(c)
    BY <1>7, <2>1 DEF Fresh
  <2>2. CASE pc'[c] = pc[c] /\ event'[c] = event[c]
    <3>1. event[c] \in AuditEvents /\ Sound(event[c]) /\ Happened(event[c])
      BY <1>3, <1>7, <2>2 DEF EventsHappened, UnderWay, Steps
    <3>. QED BY <1>2, <2>2, <3>1 DEF Sound, Happened, Done
  <2>. QED BY <1>1, <2>1, <2>2 DEF EventsMove
<1>8. ASSUME NEW c \in Callers, pc'[c] \in {"disabling", "revoking"}
      PROVE  /\ Sound(event[c])' /\ Done(event[c])'
             /\ event'[c].ended \subseteq SessionsOf(event[c].user)'
  <2>1. CASE Fresh(c)
    BY <1>8, <2>1 DEF Fresh
  <2>2. CASE pc'[c] = pc[c] /\ event'[c] = event[c]
    <3>1. PICK e \in AuditEvents : e = event[c]
      BY <1>3, <1>8, <2>2 DEF UnderWay, Steps
    <3>2. /\ Sound(e) /\ Done(e) /\ e.ended \subseteq SessionsOf(e.user)
      BY <1>8, <2>2, <3>1 DEF EventsHappened, Sweeping
    <3>3. Sound(e)' /\ Done(e)' /\ e.ended \subseteq SessionsOf(e.user)'
      BY <1>1, <3>2, EventsLast
    <3>. QED BY <2>2, <3>1, <3>3 DEF Sound, Done, SessionsOf
  <2>. QED BY <1>1, <2>1, <2>2 DEF EventsMove
<1>9. ASSUME NEW c \in Callers, pc'[c] \in {"enrolling", "confirming"}
      PROVE  /\ Sound(event[c])' /\ event'[c].ended = {}
             /\ event'[c].type \in {"mfa_challenge_issued", "mfa_challenge_success"}
  <2>1. CASE Fresh(c)
    BY <1>9, <2>1 DEF Fresh
  <2>2. CASE pc'[c] = pc[c] /\ event'[c] = event[c]
    <3>1. PICK e \in AuditEvents : e = event[c]
      BY <1>3, <1>9, <2>2 DEF UnderWay, Steps
    <3>2. /\ Sound(e) /\ e.ended = {}
          /\ e.type \in {"mfa_challenge_issued", "mfa_challenge_success"}
      BY <1>9, <2>2, <3>1 DEF EventsHappened
    <3>3. Sound(e)'
      BY <1>1, <3>2, EventsLast
    <3>. QED BY <2>2, <3>1, <3>2, <3>3 DEF Sound
  <2>. QED BY <1>1, <2>1, <2>2 DEF EventsMove
<1>. QED BY <1>5, <1>6, <1>7, <1>8, <1>9 DEF EventsHappened, Sweeping

-----------------------------------------------------------------------------
(***************************************************************************)
(* What the steps do to assignments and to the audit rows about them.      *)
(***************************************************************************)
Changes == {"role_grant", "role_revoke"}

\* Nothing happens to the transaction of d.
Untouched(d) ==
    /\ grants'[d] = grants[d] /\ revokes'[d] = revokes[d]
    /\ Told(d)' = Told(d) /\ pc'[d] = pc[d]

\* A step that is not about roles; it may doom a transaction.
QuietStep ==
    /\ roles' = roles /\ trail' = trail /\ grants' = grants /\ revokes' = revokes
    /\ calls <= calls'
    /\ \A d \in Callers :
        /\ \A e \in Told(d)' : e \in Told(d) \/ e.type \notin Changes
        /\ pc'[d] # "aborted" => pc[d] # "aborted" /\ Told(d) \subseteq Told(d)'

GrantStep(c, a, e) ==
    /\ pc[c] = "open" /\ roles' = roles /\ trail' = trail
    /\ calls' = calls + 1 /\ a.granted_at = calls + 1 /\ ~a.revoked
    /\ Fits(a) /\ TellsGrant(e, a)
    /\ grants'[c] = grants[c] \cup {a} /\ revokes'[c] = revokes[c]
    /\ Told(c)' = Told(c) \cup {e}
    /\ \A d \in Callers \ {c} : Untouched(d)

RevokeStep(c, a, e) ==
    /\ pc[c] = "open" /\ roles' = roles /\ trail' = trail
    /\ calls' = calls + 1 /\ ~a.revoked
    /\ \A d \in Callers : a.granted_at \notin revokes[d]
    /\ TellsRevoke(e, a.granted_at) /\ Tells(e, a)
    /\ grants'[c] = grants[c] /\ revokes'[c] = revokes[c] \cup {a.granted_at}
    /\ Told(c)' = Told(c) \cup {e}
    /\ \A d \in Callers \ {c} : Untouched(d)

\* An assignment as it is when the revocations of gs are committed.
After(a, gs) == [a EXCEPT !.revoked = @ \/ a.granted_at \in gs]

EndStep(c) ==
    /\ calls' = calls /\ pc'[c] = "open"
    /\ grants'[c] = {} /\ revokes'[c] = {} /\ Told(c)' = {}
    /\ \A d \in Callers \ {c} : Untouched(d)
    /\ \/ roles' = roles /\ trail' = trail
       \/ /\ pc[c] = "open" /\ trail' = trail \cup Told(c)
          /\ roles' = {After(a, revokes[c]) : a \in roles \cup grants[c]}

LedgerStep ==
    \/ QuietStep
    \/ \E c \in Callers, a \in Assignments, e \in AuditEvents : GrantStep(c, a, e)
    \/ \E c \in Callers : \E a \in roles \cup grants[c], e \in AuditEvents : RevokeStep(c, a, e)
    \/ \E c \in Callers : EndStep(c)

\* A call that is not about roles is a quiet step.
LEMMA CallIsQuiet ==
    ASSUME TypeOK, NEW c \in Callers, NEW step \in Steps \cup {"aborted"},
           NEW e, Call(c, step, e), step # "aborted" => e.type \notin Changes,
           roles' = roles, trail' = trail, grants' = grants, revokes' = revokes, rows' = rows
    PROVE  QuietStep
<1>1. /\ pc[c] = "open" /\ pc'[c] = step /\ event'[c] = e /\ calls' = calls + 1
      /\ \A d \in Callers \ {c} : pc'[d] = pc[d] /\ event'[d] = event[d]
  BY DEF Call, Goto, TypeOK
<1>2. calls <= calls'
  BY <1>1, AuthAssumption DEF TypeOK
<1>3. ASSUME NEW d \in Callers \ {c} PROVE Told(d)' = Told(d)
  BY <1>1 DEF Told, UnderWay, Steps
<1>4. Told(c) = rows[c] /\ Told(c)' = rows[c] \cup (IF step # "aborted" THEN {e} ELSE {})
  BY <1>1 DEF Told, UnderWay, Steps
<1>. QED BY <1>1, <1>2, <1>3, <1>4 DEF QuietStep

LEMMA NextLedgerStep == TypeOK /\ [Next]_vars => LedgerStep
<1> SUFFICES ASSUME TypeOK, [Next]_vars PROVE LedgerStep
  OBVIOUS
<1> USE AuthAssumption DEF Goto, providerVars, sessionVars, openVars
<1>0. calls \in 0..MaxCalls /\ calls \in Nat
  BY DEF TypeOK
<1>1. ASSUME NEW u \in Users, Register(u)
      PROVE  LedgerStep
  <2>1. QuietStep
    BY <1>1, <1>0 DEF Register, QuietStep, Told, UnderWay, TypeOK
  <2>. QED BY <2>1 DEF LedgerStep
<1>2. ASSUME NEW u \in Users, NEW s \in SessionIds, IssueSession(u, s)
      PROVE  LedgerStep
  <2>1. QuietStep
    BY <1>2, <1>0 DEF IssueSession, QuietStep, Told, UnderWay, TypeOK
  <2>. QED BY <2>1 DEF LedgerStep
<1>2a. ASSUME NEW s \in SessionIds, StoreSession(s)
       PROVE  LedgerStep
  <2>1. PICK cut \in SUBSET {c \in Callers : Sweeping(c)} :
          /\ pc' = [c \in Callers |-> IF c \in cut THEN "aborted" ELSE pc[c]]
          /\ event' = [c \in Callers |-> IF c \in cut THEN None ELSE event[c]]
    BY <1>2a DEF StoreSession
  <2>2. rows' = rows
    BY <1>2a DEF StoreSession
  <2>3. ASSUME NEW d \in Callers
        PROVE  /\ Told(d)' \subseteq Told(d)
               /\ pc'[d] # "aborted" => pc[d] # "aborted" /\ Told(d)' = Told(d)
    <3>1. CASE d \in cut
      BY <2>1, <2>2, <3>1 DEF Told, UnderWay, Steps
    <3>2. CASE d \notin cut
      BY <2>1, <2>2, <3>2 DEF Told, UnderWay
    <3>. QED BY <3>1, <3>2
  <2>4. QuietStep
    BY <1>2a, <1>0, <2>3 DEF StoreSession, QuietStep
  <2>. QED BY <2>4 DEF LedgerStep
<1>3. ASSUME NEW s \in SessionIds, Expire(s)
      PROVE  LedgerStep
  <2>1. QuietStep
    BY <1>3, <1>0 DEF Expire, QuietStep, Told, UnderWay, TypeOK
  <2>. QED BY <2>1 DEF LedgerStep
<1>4. ASSUME NEW c \in Callers, NEW u \in Users, ChangePassword(c, u)
      PROVE  LedgerStep
  <2>1. Call(c, "revoking", Ending("password_change", u))
    BY <1>4 DEF ChangePassword
  <2>2. (Ending("password_change", u)).type \notin Changes
    BY <1>4, <1>0, EndingHas DEF ChangePassword, Call, EventTypes, Changes, TypeOK
  <2>3. QuietStep
    BY <1>4, <2>1, <2>2, CallIsQuiet DEF ChangePassword, Steps
  <2>. QED BY <2>3 DEF LedgerStep
<1>5. ASSUME NEW c \in Callers, NEW u \in Users, EnrolTotp(c, u)
      PROVE  LedgerStep
  <2>1. Call(c, "enrolling", NewEvent("mfa_challenge_issued", u))
    BY <1>5 DEF EnrolTotp
  <2>2. (NewEvent("mfa_challenge_issued", u)).type \notin Changes
    BY <1>5, <1>0, NewEventHas DEF EnrolTotp, Call, EventTypes, Changes, TypeOK
  <2>3. QuietStep
    BY <1>5, <2>1, <2>2, CallIsQuiet DEF EnrolTotp, Steps
  <2>. QED BY <2>3 DEF LedgerStep
<1>6. ASSUME NEW c \in Callers, NEW u \in Users, DisableAccount(c, u)
      PROVE  LedgerStep
  <2>1. Call(c, "disabling", Ending("account_disable", u))
    BY <1>6 DEF DisableAccount
  <2>2. (Ending("account_disable", u)).type \notin Changes
    BY <1>6, <1>0, EndingHas DEF DisableAccount, Call, EventTypes, Changes, TypeOK
  <2>3. QuietStep
    BY <1>6, <2>1, <2>2, CallIsQuiet DEF DisableAccount, Steps
  <2>. QED BY <2>3 DEF LedgerStep
<1>7. ASSUME NEW c \in Callers, NEW u \in Users, NEW right \in BOOLEAN, Authenticate(c, u, right)
      PROVE  LedgerStep
  <2>1. Call(c, "recording", IF right /\ u \in registered \ disabled
        THEN NewEvent("login_success", u) ELSE NewEvent("login_failure", None))
    BY <1>7 DEF Authenticate
  <2>2. (IF right /\ u \in registered \ disabled
        THEN NewEvent("login_success", u) ELSE NewEvent("login_failure", None)).type \notin Changes
    BY <1>7, <1>0, NewEventHas DEF Authenticate, Call, EventTypes, Changes, TypeOK
  <2>3. QuietStep
    BY <1>7, <2>1, <2>2, CallIsQuiet DEF Authenticate, Steps
  <2>. QED BY <2>3 DEF LedgerStep
<1>8. ASSUME NEW c \in Callers, NEW u \in Users, NEW right \in BOOLEAN, VerifyTotp(c, u, right)
      PROVE  LedgerStep
  <2>1. \/ Call(c, "confirming", NewEvent("mfa_challenge_success", u))
        \/ Call(c, "recording", NewEvent("mfa_challenge_failure", u))
    BY <1>8 DEF VerifyTotp
  <2>2. calls < MaxCalls
    BY <2>1 DEF Call
  <2>3. /\ (NewEvent("mfa_challenge_success", u)).type \notin Changes
        /\ (NewEvent("mfa_challenge_failure", u)).type \notin Changes
    BY <1>0, <2>2, NewEventHas DEF EventTypes, Changes
  <2>4. QuietStep
    BY <1>8, <2>1, <2>3, CallIsQuiet DEF VerifyTotp, Steps
  <2>. QED BY <2>4 DEF LedgerStep
<1>8a. ASSUME NEW c \in Callers, StoreTotp(c)
       PROVE  LedgerStep
  <2>1. /\ pc[c] \in Steps /\ pc'[c] = "recording" /\ rows' = rows /\ event' = event
        /\ \A d \in Callers \ {c} : pc'[d] = pc[d]
    BY <1>8a DEF StoreTotp, TypeOK, Steps
  <2>2. \A d \in Callers : Told(d)' = Told(d)
    BY <2>1 DEF Told, UnderWay, Steps
  <2>3. QuietStep
    BY <1>8a, <1>0, <2>1, <2>2 DEF StoreTotp, QuietStep, Steps
  <2>. QED BY <2>3 DEF LedgerStep
<1>9. ASSUME NEW c \in Callers, NEW u \in Users, NEW archetype \in Archetypes,
             NEW r \in RolesTried, NEW k \in Customers \cup {None}, AssignRole(c, u, archetype, r, k)
      PROVE  LedgerStep
  <2> DEFINE new == [user |-> u, archetype |-> archetype, role |-> r, customer |-> k,
                      granted_at |-> calls + 1, revoked |-> FALSE]
  <2>1. calls < MaxCalls
    BY <1>9 DEF AssignRole, Call
  <2>2. /\ new \in Assignments /\ new.granted_at = calls + 1 /\ ~new.revoked
        /\ new.archetype = archetype /\ new.role = r /\ new.user = u
    BY <1>0, <2>1 DEF Assignments
  <2>3. CASE u \in registered /\ archetype = ArchetypeOf[u]
    <3>1. /\ Call(c, "recording", About("role_grant", new, {}))
          /\ grants' = [grants EXCEPT ![c] = @ \cup {new}] /\ HasRole(archetype, r)
          /\ roles' = roles /\ trail' = trail /\ revokes' = revokes /\ rows' = rows
      BY <1>9, <2>3 DEF AssignRole
    <3>2. Fits(new)
      BY <2>2, <2>3, <3>1 DEF Fits
    <3>. HIDE DEF new
    <3>3. PICK e \in AuditEvents : e = About("role_grant", new, {}) /\ TellsGrant(e, new)
      BY <1>0, <2>1, <2>2, AboutHas DEF EventTypes, TellsGrant, Tells
    <3>4. /\ pc[c] = "open" /\ pc'[c] = "recording" /\ event'[c] = e /\ calls' = calls + 1
          /\ \A d \in Callers \ {c} : pc'[d] = pc[d] /\ event'[d] = event[d]
      BY <3>1, <3>3 DEF Call, TypeOK
    <3>5. /\ grants'[c] = grants[c] \cup {new}
          /\ \A d \in Callers \ {c} : grants'[d] = grants[d]
      BY <3>1 DEF TypeOK
    <3>6. /\ Told(c)' = Told(c) \cup {e}
          /\ \A d \in Callers \ {c} : Told(d)' = Told(d)
      BY <3>1, <3>4 DEF Told, UnderWay, Steps
    <3>7. GrantStep(c, new, e)
      BY <2>2, <3>1, <3>2, <3>3, <3>4, <3>5, <3>6 DEF GrantStep, Untouched
    <3>. QED BY <2>2, <3>7 DEF LedgerStep
  <2>4. CASE ~(u \in registered /\ archetype = ArchetypeOf[u])
    <3>1. Call(c, "aborted", None) /\ grants' = grants
      BY <1>9, <2>4 DEF AssignRole
    <3>2. QuietStep
      BY <1>9, <3>1, CallIsQuiet DEF AssignRole
    <3>. QED BY <3>2 DEF LedgerStep
  <2>. QED BY <2>3, <2>4
<1>10. ASSUME NEW c \in Callers, NEW s \in SessionIds \cup {None}, RevokeSession(c, s)
      PROVE  LedgerStep
  <2>1. Call(c, "recording", [NewEvent("session_revoke", None) EXCEPT !.ended = {s} \ {None}])
    BY <1>10 DEF RevokeSession
  <2>2. ([NewEvent("session_revoke", None) EXCEPT !.ended = {s} \ {None}]).type \notin Changes
    <3>1. calls < MaxCalls
      BY <1>10 DEF RevokeSession, Call
    <3>2. PICK n \in AuditEvents :
            n = NewEvent("session_revoke", None) /\ n.type = "session_revoke"
      BY <1>0, <3>1, NewEventHas DEF EventTypes
    <3>3. [n EXCEPT !.ended = {s} \ {None}].type = n.type
      BY DEF AuditEvents
    <3>. QED BY <3>2, <3>3 DEF Changes
  <2>3. QuietStep
    BY <1>10, <2>1, <2>2, CallIsQuiet DEF RevokeSession, Steps
  <2>. QED BY <2>3 DEF LedgerStep
<1>11. ASSUME NEW c \in Callers, NEW a \in roles \cup grants[c], RevokeRole(c, a)
      PROVE  LedgerStep
  <2>1. /\ Call(c, "revoking", About("role_revoke", a, SessionsOf(a.user))) /\ calls < MaxCalls
        /\ roles' = roles /\ trail' = trail /\ grants' = grants /\ rows' = rows
        /\ revokes' = [revokes EXCEPT ![c] = @ \cup {a.granted_at}]
        /\ ~a.revoked /\ \A d \in Callers : a.granted_at \notin revokes[d]
    BY <1>11 DEF RevokeRole, RowLocked, Call
  <2>2. a \in Assignments /\ SessionsOf(a.user) \in SUBSET SessionIds
    BY DEF TypeOK, SessionsOf
  <2>3. PICK e \in AuditEvents : /\ e = About("role_revoke", a, SessionsOf(a.user))
                                 /\ TellsRevoke(e, a.granted_at) /\ Tells(e, a)
    BY <1>0, <2>1, <2>2, AboutHas DEF EventTypes, TellsRevoke, Tells
  <2>4. /\ pc[c] = "open" /\ pc'[c] = "revoking" /\ event'[c] = e /\ calls' = calls + 1
        /\ \A d \in Callers \ {c} : pc'[d] = pc[d] /\ event'[d] = event[d]
    BY <2>1, <2>3 DEF Call, TypeOK
  <2>5. /\ revokes'[c] = revokes[c] \cup {a.granted_at}
        /\ \A d \in Callers \ {c} : revokes'[d] = revokes[d]
    BY <2>1 DEF TypeOK
  <2>6. /\ Told(c)' = Told(c) \cup {e}
        /\ \A d \in Callers \ {c} : Told(d)' = Told(d)
    BY <2>1, <2>4 DEF Told, UnderWay, Steps
  <2>7. RevokeStep(c, a, e)
    BY <2>1, <2>3, <2>4, <2>5, <2>6 DEF RevokeStep, Untouched
  <2>. QED BY <2>7 DEF LedgerStep
<1>12. ASSUME NEW c \in Callers, RevokeAllSessions(c)
      PROVE  LedgerStep
  <2>1. /\ pc[c] \in Steps /\ pc'[c] = "recording" /\ rows' = rows /\ event' = event
        /\ \A d \in Callers \ {c} : pc'[d] = pc[d]
    BY <1>12 DEF RevokeAllSessions, Sweeping, TypeOK, Steps
  <2>2. \A d \in Callers : Told(d)' = Told(d)
    BY <2>1 DEF Told, UnderWay, Steps
  <2>3. QuietStep
    BY <1>12, <1>0, <2>1, <2>2 DEF RevokeAllSessions, QuietStep, Steps
  <2>. QED BY <2>3 DEF LedgerStep
<1>13. ASSUME NEW c \in Callers, Record(c)
      PROVE  LedgerStep
  <2>1. /\ pc[c] = "recording" /\ pc'[c] = "open" /\ rows'[c] = rows[c] \cup {event[c]}
        /\ \A d \in Callers \ {c} :
              pc'[d] = pc[d] /\ rows'[d] = rows[d] /\ event'[d] = event[d]
    BY <1>13 DEF Record, TypeOK
  <2>2. \A d \in Callers : Told(d)' = Told(d)
    BY <2>1 DEF Told, UnderWay, Steps
  <2>3. QuietStep
    BY <1>13, <1>0, <2>1, <2>2 DEF Record, QuietStep
  <2>. QED BY <2>3 DEF LedgerStep
<1>14. ASSUME NEW c \in Callers, RecordFails(c)
      PROVE  LedgerStep
  <2>1. /\ pc'[c] = "aborted" /\ rows' = rows
        /\ \A d \in Callers \ {c} : pc'[d] = pc[d] /\ event'[d] = event[d]
    BY <1>14 DEF RecordFails, TypeOK
  <2>2. /\ Told(c)' \subseteq Told(c)
        /\ \A d \in Callers \ {c} : Told(d)' = Told(d)
    BY <2>1 DEF Told, UnderWay, Steps
  <2>3. QuietStep
    BY <1>14, <1>0, <2>1, <2>2 DEF RecordFails, QuietStep
  <2>. QED BY <2>3 DEF LedgerStep
<1>15. ASSUME NEW c \in Callers, Commit(c)
      PROVE  LedgerStep
  <2>1. /\ pc'[c] = "open" /\ grants'[c] = {} /\ revokes'[c] = {} /\ rows'[c] = {}
        /\ calls' = calls
        /\ \A d \in Callers \ {c} :
            /\ pc'[d] = pc[d] /\ event'[d] = event[d] /\ rows'[d] = rows[d]
            /\ grants'[d] = grants[d] /\ revokes'[d] = revokes[d]
    BY <1>15 DEF Commit, Close, TypeOK
  <2>2. Told(c)' = {} /\ \A d \in Callers \ {c} : Untouched(d)
    BY <2>1 DEF Told, UnderWay, Steps, Untouched
  <2>3. /\ pc[c] = "open" /\ Told(c) = rows[c] /\ trail' = trail \cup rows[c]
        /\ roles' = {After(a, revokes[c]) : a \in roles \cup grants[c]}
    BY <1>15 DEF Commit, Told, UnderWay, Steps, After
  <2>4. EndStep(c)
    BY <2>1, <2>2, <2>3 DEF EndStep
  <2>. QED BY <2>4 DEF LedgerStep
<1>16. ASSUME NEW c \in Callers, RollBack(c)
      PROVE  LedgerStep
  <2>1. /\ pc'[c] = "open" /\ grants'[c] = {} /\ revokes'[c] = {} /\ rows'[c] = {}
        /\ calls' = calls
        /\ \A d \in Callers \ {c} :
            /\ pc'[d] = pc[d] /\ event'[d] = event[d] /\ rows'[d] = rows[d]
            /\ grants'[d] = grants[d] /\ revokes'[d] = revokes[d]
    BY <1>16 DEF RollBack, Close, TypeOK
  <2>2. Told(c)' = {} /\ \A d \in Callers \ {c} : Untouched(d)
    BY <2>1 DEF Told, UnderWay, Steps, Untouched
  <2>3. roles' = roles /\ trail' = trail
    BY <1>16 DEF RollBack
  <2>4. EndStep(c)
    BY <2>1, <2>2, <2>3 DEF EndStep
  <2>. QED BY <2>4 DEF LedgerStep
<1>17. CASE UNCHANGED vars
  BY <1>17, <1>0
     DEF LedgerStep, QuietStep, Told, UnderWay, Steps, vars
<1>18. ASSUME NEW c \in Callers, NEW u \in Users, UserCall(c, u)
      PROVE  LedgerStep
  <2>1. CASE ChangePassword(c, u) \/ EnrolTotp(c, u) \/ DisableAccount(c, u)
    BY <2>1, <1>4, <1>5, <1>6
  <2>2. ASSUME NEW right \in BOOLEAN, Authenticate(c, u, right) \/ VerifyTotp(c, u, right)
        PROVE  LedgerStep
    BY <2>2, <1>7, <1>8
  <2>3. ASSUME NEW archetype \in Archetypes, NEW r \in RolesTried,
               NEW k \in Customers \cup {None}, AssignRole(c, u, archetype, r, k)
        PROVE  LedgerStep
    BY <2>3, <1>9
  <2>. QED BY <1>18, <2>1, <2>2, <2>3 DEF UserCall
<1>19. CASE \E u \in Users : Register(u) \/ \E s \in SessionIds : IssueSession(u, s)
  BY <1>19, <1>1, <1>2
<1>20. CASE \E s \in SessionIds : StoreSession(s) \/ Expire(s)
  BY <1>20, <1>2a, <1>3
<1>21. ASSUME NEW c \in Callers,
             \/ \E u \in Users : UserCall(c, u)
             \/ \E s \in SessionIds \cup {None} : RevokeSession(c, s)
             \/ \E a \in roles \cup grants[c] : RevokeRole(c, a)
             \/ StoreTotp(c) \/ RevokeAllSessions(c) \/ Record(c) \/ RecordFails(c)
             \/ Commit(c) \/ RollBack(c)
       PROVE  LedgerStep
  BY <1>21, <1>18, <1>8a, <1>10, <1>11, <1>12, <1>13, <1>14, <1>15, <1>16
<1>. QED BY <1>17, <1>19, <1>20, <1>21 DEF Next

LEMMA AfterHas ==
    ASSUME NEW a \in Assignments, NEW gs
    PROVE  /\ After(a, gs).user = a.user /\ After(a, gs).archetype = a.archetype
           /\ After(a, gs).role = a.role /\ After(a, gs).customer = a.customer
           /\ After(a, gs).granted_at = a.granted_at
           /\ After(a, gs).revoked <=> a.revoked \/ a.granted_at \in gs
<1>1. (a.revoked \/ a.granted_at \in gs) \in BOOLEAN
  OBVIOUS
<1>2. After(a, gs) = [a EXCEPT !.revoked = a.revoked \/ a.granted_at \in gs]
  BY DEF After
<1>. QED BY <1>1, <1>2, AssignmentRevoked

LEMMA NextRolesFit == TypeOK /\ RolesFit /\ [Next]_vars => RolesFit'
<1> SUFFICES ASSUME TypeOK, RolesFit, [Next]_vars PROVE RolesFit'
  OBVIOUS
<1>1. LedgerStep
  BY NextLedgerStep
<1>2. ASSUME QuietStep
      PROVE  RolesFit'
  BY <1>2 DEF QuietStep, RolesFit, Fits
<1>3. ASSUME NEW c \in Callers, NEW a \in Assignments, NEW e \in AuditEvents, GrantStep(c, a, e)
      PROVE  RolesFit'
  BY <1>3 DEF GrantStep, Untouched, RolesFit, Fits
<1>4. ASSUME NEW c \in Callers, NEW a \in roles \cup grants[c], NEW e \in AuditEvents,
             RevokeStep(c, a, e)
      PROVE  RolesFit'
  BY <1>4 DEF RevokeStep, Untouched, RolesFit, Fits
<1>5. ASSUME NEW c \in Callers, EndStep(c)
      PROVE  RolesFit'
  <2>1. roles \subseteq Assignments /\ grants[c] \subseteq Assignments
    BY DEF TypeOK
  <2>2. \A d \in Callers : \A a \in grants'[d] : Fits(a)
    BY <1>5 DEF EndStep, Untouched, RolesFit
  <2>3. \A a \in roles \cup grants[c] : Fits(After(a, revokes[c]))
    BY <2>1, AfterHas DEF Fits, RolesFit
  <2>4. \A a \in roles' : Fits(a)
    BY <1>5, <2>3 DEF EndStep, RolesFit
  <2>. QED BY <2>2, <2>4 DEF RolesFit, Fits
<1>. QED BY <1>1, <1>2, <1>3, <1>4, <1>5 DEF LedgerStep

LEMMA NextAssignmentsDiffer == TypeOK /\ AssignmentsDiffer /\ [Next]_vars => AssignmentsDiffer'
<1> SUFFICES ASSUME TypeOK, AssignmentsDiffer, [Next]_vars PROVE AssignmentsDiffer'
  OBVIOUS
<1>1. LedgerStep
  BY NextLedgerStep
<1>2. ASSUME QuietStep
      PROVE  AssignmentsDiffer'
  <2>0. /\ roles \subseteq Assignments /\ \A d \in Callers : grants[d] \subseteq Assignments
        /\ \A b \in Assignments : b.granted_at \in Nat
        /\ calls \in Nat /\ calls' \in Nat
    BY AuthAssumption, NextTypeOK DEF TypeOK, Assignments
  <2>1. \A b \in Assignments : b.granted_at <= calls => b.granted_at <= calls'
    BY <1>2, <2>0 DEF QuietStep
  <2>. QED BY <1>2, <2>0, <2>1 DEF QuietStep, AssignmentsDiffer
<1>3. ASSUME NEW c \in Callers, NEW a \in Assignments, NEW e \in AuditEvents, GrantStep(c, a, e)
      PROVE  AssignmentsDiffer'
  <2>0. /\ roles \subseteq Assignments /\ \A d \in Callers : grants[d] \subseteq Assignments
        /\ \A b \in Assignments : b.granted_at \in Nat
        /\ calls \in Nat /\ calls' \in Nat
    BY AuthAssumption, NextTypeOK DEF TypeOK, Assignments
  <2>1. /\ a.granted_at = calls' /\ ~a.revoked
        /\ \A b \in Assignments : b.granted_at <= calls =>
              b.granted_at <= calls' /\ b.granted_at # a.granted_at
        /\ calls' <= calls'
    BY <1>3, <2>0 DEF GrantStep
  <2>2. /\ roles' = roles /\ grants'[c] = grants[c] \cup {a}
        /\ \A d \in Callers \ {c} : grants'[d] = grants[d]
    BY <1>3 DEF GrantStep, Untouched
  <2>3. /\ \A b \in roles : b.granted_at <= calls' /\ b.granted_at # a.granted_at
        /\ \A d \in Callers : \A b \in grants[d] :
              b.granted_at <= calls' /\ b.granted_at # a.granted_at
    BY <2>0, <2>1 DEF AssignmentsDiffer
  <2>4. ASSUME NEW d \in Callers, NEW x \in grants'[d]
        PROVE  /\ x.granted_at <= calls' /\ ~x.revoked
               /\ \A b \in roles : b.granted_at # x.granted_at
               /\ \A f \in Callers : \A b \in grants'[f] :
                     b.granted_at = x.granted_at => b = x /\ d = f
    <3>1. CASE x = a /\ d = c
      BY <2>1, <2>2, <2>3, <3>1
    <3>2. CASE x \in grants[d]
      BY <2>1, <2>2, <2>3, <3>2 DEF AssignmentsDiffer
    <3>. QED BY <2>2, <3>1, <3>2
  <2>. QED BY <2>2, <2>3, <2>4 DEF AssignmentsDiffer
<1>4. ASSUME NEW c \in Callers, NEW a \in roles \cup grants[c], NEW e \in AuditEvents,
             RevokeStep(c, a, e)
      PROVE  AssignmentsDiffer'
  <2>0. /\ roles \subseteq Assignments /\ \A d \in Callers : grants[d] \subseteq Assignments
        /\ \A b \in Assignments : b.granted_at \in Nat
        /\ calls \in Nat /\ calls' \in Nat
    BY AuthAssumption, NextTypeOK DEF TypeOK, Assignments
  <2>1. \A b \in Assignments : b.granted_at <= calls => b.granted_at <= calls'
    BY <1>4, <2>0 DEF RevokeStep
  <2>2. roles' = roles /\ \A d \in Callers : grants'[d] = grants[d]
    BY <1>4 DEF RevokeStep, Untouched
  <2>. QED BY <2>0, <2>1, <2>2 DEF AssignmentsDiffer
<1>5. ASSUME NEW c \in Callers, EndStep(c)
      PROVE  AssignmentsDiffer'
  <2>0. /\ roles \subseteq Assignments /\ \A d \in Callers : grants[d] \subseteq Assignments
        /\ \A b \in Assignments : b.granted_at \in Nat
        /\ calls \in Nat /\ calls' \in Nat
    BY AuthAssumption, NextTypeOK DEF TypeOK, Assignments
  <2>1. /\ calls' = calls /\ grants'[c] = {}
        /\ \A d \in Callers \ {c} : grants'[d] = grants[d]
        /\ roles' = roles \/ roles' = {After(a, revokes[c]) : a \in roles \cup grants[c]}
    BY <1>5 DEF EndStep, Untouched
  <2>2. CASE roles' = roles
    BY <2>1, <2>2 DEF AssignmentsDiffer
  <2>3. CASE roles' = {After(a, revokes[c]) : a \in roles \cup grants[c]}
    <3>1. \A b \in roles' : \E a \in roles \cup grants[c] :
            b = After(a, revokes[c]) /\ b.granted_at = a.granted_at
      BY <2>0, <2>3, AfterHas
    <3>2. \A a, b \in roles \cup grants[c] : a.granted_at = b.granted_at => a = b
      BY DEF AssignmentsDiffer
    <3>3. \A a, b \in roles' : a.granted_at = b.granted_at => a = b
      BY <3>1, <3>2
    <3>4. \A a \in roles' : a.granted_at <= calls'
      BY <2>1, <3>1 DEF AssignmentsDiffer
    <3>5. ASSUME NEW d \in Callers, NEW x \in grants'[d]
          PROVE  /\ x.granted_at <= calls' /\ ~x.revoked
                 /\ \A b \in roles' : b.granted_at # x.granted_at
                 /\ \A f \in Callers : \A b \in grants'[f] :
                       b.granted_at = x.granted_at => b = x /\ d = f
      <4>1. d # c /\ x \in grants[d]
        BY <2>1, <3>5
      <4>2. \A b \in roles' : b.granted_at # x.granted_at
        BY <3>1, <4>1 DEF AssignmentsDiffer
      <4>. QED BY <2>1, <4>1, <4>2 DEF AssignmentsDiffer
    <3>. QED BY <3>3, <3>4, <3>5 DEF AssignmentsDiffer
  <2>. QED BY <2>1, <2>2, <2>3
<1>. QED BY <1>1, <1>2, <1>3, <1>4, <1>5 DEF LedgerStep

LEMMA NextRevokesAreExclusive == TypeOK /\ RevokesAreExclusive /\ [Next]_vars => RevokesAreExclusive'
<1> SUFFICES ASSUME TypeOK, RevokesAreExclusive, [Next]_vars PROVE RevokesAreExclusive'
  OBVIOUS
<1>1. LedgerStep
  BY NextLedgerStep
<1>2. ASSUME QuietStep
      PROVE  RevokesAreExclusive'
  BY <1>2 DEF QuietStep, RevokesAreExclusive
<1>3. ASSUME NEW c \in Callers, NEW a \in Assignments, NEW e \in AuditEvents, GrantStep(c, a, e)
      PROVE  RevokesAreExclusive'
  <2>1. /\ roles' = roles /\ \A d \in Callers : revokes'[d] = revokes[d]
        /\ \A d \in Callers : grants[d] \subseteq grants'[d]
    BY <1>3 DEF GrantStep, Untouched
  <2>. QED BY <2>1 DEF RevokesAreExclusive
<1>4. ASSUME NEW c \in Callers, NEW a \in roles \cup grants[c], NEW e \in AuditEvents,
             RevokeStep(c, a, e)
      PROVE  RevokesAreExclusive'
  <2>1. /\ roles' = roles /\ \A d \in Callers : grants'[d] = grants[d]
        /\ revokes'[c] = revokes[c] \cup {a.granted_at}
        /\ \A d \in Callers \ {c} : revokes'[d] = revokes[d]
        /\ ~a.revoked /\ \A d \in Callers : a.granted_at \notin revokes[d]
    BY <1>4 DEF RevokeStep, Untouched
  <2>2. ASSUME NEW d \in Callers
        PROVE  /\ \A g \in revokes'[d] : \E b \in roles \cup grants[d] :
                     b.granted_at = g /\ ~b.revoked
               /\ \A f \in Callers \ {d} : revokes'[d] \cap revokes'[f] = {}
    <3>1. CASE d = c
      BY <2>1, <3>1 DEF RevokesAreExclusive
    <3>2. CASE d # c
      BY <2>1, <3>2 DEF RevokesAreExclusive
    <3>. QED BY <3>1, <3>2
  <2>. QED BY <2>1, <2>2 DEF RevokesAreExclusive
<1>5. ASSUME NEW c \in Callers, EndStep(c)
      PROVE  RevokesAreExclusive'
  <2>0. /\ roles \subseteq Assignments /\ \A d \in Callers : grants[d] \subseteq Assignments
        /\ \A b \in Assignments : b.granted_at \in Nat
        /\ calls \in Nat /\ calls' \in Nat
    BY AuthAssumption, NextTypeOK DEF TypeOK, Assignments
  <2>1. /\ grants'[c] = {} /\ revokes'[c] = {} /\ Told(c)' = {} /\ pc'[c] = "open"
        /\ \A d \in Callers \ {c} : /\ grants'[d] = grants[d] /\ revokes'[d] = revokes[d]
                                    /\ Told(d)' = Told(d) /\ pc'[d] = pc[d]
    BY <1>5 DEF EndStep, Untouched
  <2>2. \/ roles' = roles /\ trail' = trail
        \/ /\ pc[c] = "open" /\ trail' = trail \cup Told(c)
           /\ roles' = {After(a, revokes[c]) : a \in roles \cup grants[c]}
    BY <1>5 DEF EndStep
  <2>3. ASSUME NEW d \in Callers, NEW g \in revokes'[d]
        PROVE  \E b \in roles' \cup grants'[d] : b.granted_at = g /\ ~b.revoked
    <3>1. d # c /\ g \in revokes[d] /\ g \notin revokes[c]
      BY <2>1, <2>3 DEF RevokesAreExclusive
    <3>2. PICK b \in roles \cup grants[d] : b.granted_at = g /\ ~b.revoked
      BY <3>1 DEF RevokesAreExclusive
    <3>3. CASE b \in grants[d] \/ roles' = roles
      BY <2>1, <3>1, <3>2, <3>3
    <3>4. CASE b \in roles /\ roles' = {After(a, revokes[c]) : a \in roles \cup grants[c]}
      <4>1. After(b, revokes[c]).granted_at = g /\ ~After(b, revokes[c]).revoked
        BY <2>0, <3>1, <3>2, <3>4, AfterHas
      <4>. QED BY <3>4, <4>1
    <3>. QED BY <2>2, <3>3, <3>4
  <2>4. \A d \in Callers : \A f \in Callers \ {d} : revokes'[d] \cap revokes'[f] = {}
    BY <2>1 DEF RevokesAreExclusive
  <2>. QED BY <2>3, <2>4 DEF RevokesAreExclusive
<1>. QED BY <1>1, <1>2, <1>3, <1>4, <1>5 DEF LedgerStep

LEMMA NextStories == TypeOK /\ AssignmentsDiffer /\ Stories /\ [Next]_vars => Stories'
<1> SUFFICES ASSUME TypeOK, AssignmentsDiffer, Stories, [Next]_vars PROVE Stories'
  OBVIOUS
<1>1. LedgerStep
  BY NextLedgerStep
<1>2. ASSUME QuietStep
      PROVE  Stories'
  <2> SUFFICES ASSUME NEW d \in Callers PROVE StoryOf(d)'
    BY DEF Stories
  <2>1. /\ StoryOf(d) /\ roles' = roles /\ grants'[d] = grants[d] /\ revokes'[d] = revokes[d]
        /\ \A e \in Told(d)' : e \in Told(d) \/ e.type \notin Changes
        /\ pc'[d] # "aborted" => pc[d] # "aborted" /\ Told(d) \subseteq Told(d)'
    BY <1>2 DEF QuietStep, Stories
  <2>2. Once(Told(d))'
    BY <2>1 DEF StoryOf, Once, Changes
  <2>3. ASSUME NEW e \in Told(d)'
        PROVE  /\ e.type = "role_grant" => \E a \in grants[d] : Tells(e, a)
               /\ e.type = "role_revoke" =>
                     e.grant \in revokes[d] /\ \E a \in roles \cup grants[d] : Tells(e, a)
    BY <2>1, <2>3 DEF StoryOf, Changes
  <2>4. pc'[d] # "aborted" =>
          /\ \A a \in grants[d] : \E e \in Told(d)' : TellsGrant(e, a)
          /\ \A g \in revokes[d] : \E e \in Told(d)' : TellsRevoke(e, g)
    BY <2>1 DEF StoryOf
  <2>. QED BY <2>1, <2>2, <2>3, <2>4 DEF StoryOf, Tells, TellsGrant, TellsRevoke
<1>3. ASSUME NEW c \in Callers, NEW a \in Assignments, NEW e \in AuditEvents, GrantStep(c, a, e)
      PROVE  Stories'
  <2>0. /\ roles \subseteq Assignments /\ \A d \in Callers : grants[d] \subseteq Assignments
        /\ \A b \in Assignments : b.granted_at \in Nat
        /\ calls \in Nat /\ calls' \in Nat
    BY AuthAssumption, NextTypeOK DEF TypeOK, Assignments
  <2>1. /\ pc[c] = "open" /\ roles' = roles /\ \A d \in Callers : revokes'[d] = revokes[d]
        /\ grants'[c] = grants[c] \cup {a} /\ Told(c)' = Told(c) \cup {e}
        /\ \A d \in Callers \ {c} :
              grants'[d] = grants[d] /\ Told(d)' = Told(d) /\ pc'[d] = pc[d]
        /\ a.granted_at = calls + 1 /\ TellsGrant(e, a)
    BY <1>3 DEF GrantStep, Untouched
  <2>2. ASSUME NEW f \in Told(c), f.type = "role_grant" PROVE f.grant # e.grant
    <3>1. PICK b \in grants[c] : Tells(f, b)
      BY <2>2 DEF Stories, StoryOf
    <3>2. b.granted_at \in Nat /\ b.granted_at <= calls
      BY <2>0 DEF AssignmentsDiffer
    <3>. QED BY <2>0, <2>1, <3>1, <3>2 DEF Tells, TellsGrant
  <2>3. StoryOf(c)'
    <3>1. Once(Told(c))'
      BY <2>1, <2>2 DEF Stories, StoryOf, Once, TellsGrant
    <3>2. ASSUME NEW f \in Told(c)'
          PROVE  /\ f.type = "role_grant" => \E b \in grants'[c] : Tells(f, b)
                 /\ f.type = "role_revoke" =>
                       f.grant \in revokes[c] /\ \E b \in roles \cup grants'[c] : Tells(f, b)
      <4>1. CASE f = e
        BY <2>1, <4>1 DEF TellsGrant
      <4>2. CASE f \in Told(c)
        BY <2>1, <4>2 DEF Stories, StoryOf
      <4>. QED BY <2>1, <3>2, <4>1, <4>2
    <3>3. /\ \A b \in grants'[c] : \E f \in Told(c)' : TellsGrant(f, b)
          /\ \A g \in revokes[c] : \E f \in Told(c)' : TellsRevoke(f, g)
      BY <2>1 DEF Stories, StoryOf
    <3>. QED BY <2>1, <3>1, <3>2, <3>3 DEF StoryOf, Tells, TellsGrant, TellsRevoke
  <2>4. ASSUME NEW d \in Callers \ {c} PROVE StoryOf(d)'
    BY <2>1 DEF Stories, StoryOf, Once, Tells, TellsGrant, TellsRevoke
  <2>. QED BY <2>3, <2>4 DEF Stories
<1>4. ASSUME NEW c \in Callers, NEW a \in roles \cup grants[c], NEW e \in AuditEvents,
             RevokeStep(c, a, e)
      PROVE  Stories'
  <2>1. /\ pc[c] = "open" /\ roles' = roles /\ \A d \in Callers : grants'[d] = grants[d]
        /\ revokes'[c] = revokes[c] \cup {a.granted_at} /\ Told(c)' = Told(c) \cup {e}
        /\ \A d \in Callers \ {c} :
              revokes'[d] = revokes[d] /\ Told(d)' = Told(d) /\ pc'[d] = pc[d]
        /\ a.granted_at \notin revokes[c] /\ TellsRevoke(e, a.granted_at) /\ Tells(e, a)
    BY <1>4 DEF RevokeStep, Untouched
  <2>2. ASSUME NEW f \in Told(c), f.type = "role_revoke" PROVE f.grant # e.grant
    BY <2>1, <2>2 DEF Stories, StoryOf, TellsRevoke
  <2>3. StoryOf(c)'
    <3>1. Once(Told(c))'
      BY <2>1, <2>2 DEF Stories, StoryOf, Once, TellsRevoke
    <3>2. ASSUME NEW f \in Told(c)'
          PROVE  /\ f.type = "role_grant" => \E b \in grants[c] : Tells(f, b)
                 /\ f.type = "role_revoke" =>
                       f.grant \in revokes'[c] /\ \E b \in roles \cup grants[c] : Tells(f, b)
      <4>1. CASE f = e
        BY <2>1, <4>1 DEF TellsRevoke
      <4>2. CASE f \in Told(c)
        BY <2>1, <4>2 DEF Stories, StoryOf
      <4>. QED BY <2>1, <3>2, <4>1, <4>2
    <3>3. /\ \A b \in grants[c] : \E f \in Told(c)' : TellsGrant(f, b)
          /\ \A g \in revokes'[c] : \E f \in Told(c)' : TellsRevoke(f, g)
      BY <2>1 DEF Stories, StoryOf
    <3>. QED BY <2>1, <3>1, <3>2, <3>3 DEF StoryOf, Tells, TellsGrant, TellsRevoke
  <2>4. ASSUME NEW d \in Callers \ {c} PROVE StoryOf(d)'
    BY <2>1 DEF Stories, StoryOf, Once, Tells, TellsGrant, TellsRevoke
  <2>. QED BY <2>3, <2>4 DEF Stories
<1>5. ASSUME NEW c \in Callers, EndStep(c)
      PROVE  Stories'
  <2>0. /\ roles \subseteq Assignments /\ \A d \in Callers : grants[d] \subseteq Assignments
        /\ \A b \in Assignments : b.granted_at \in Nat
        /\ calls \in Nat /\ calls' \in Nat
    BY AuthAssumption, NextTypeOK DEF TypeOK, Assignments
  <2>1. /\ grants'[c] = {} /\ revokes'[c] = {} /\ Told(c)' = {} /\ pc'[c] = "open"
        /\ \A d \in Callers \ {c} : /\ grants'[d] = grants[d] /\ revokes'[d] = revokes[d]
                                    /\ Told(d)' = Told(d) /\ pc'[d] = pc[d]
    BY <1>5 DEF EndStep, Untouched
  <2>2. \/ roles' = roles /\ trail' = trail
        \/ /\ pc[c] = "open" /\ trail' = trail \cup Told(c)
           /\ roles' = {After(a, revokes[c]) : a \in roles \cup grants[c]}
    BY <1>5 DEF EndStep
  <2>3. StoryOf(c)'
    BY <2>1 DEF StoryOf, Once
  <2>4. ASSUME NEW d \in Callers \ {c} PROVE StoryOf(d)'
    <3>1. /\ grants'[d] = grants[d] /\ revokes'[d] = revokes[d]
          /\ Told(d)' = Told(d) /\ pc'[d] = pc[d]
      BY <2>1
    <3>2. ASSUME NEW e, NEW b \in roles \cup grants[d], Tells(e, b)
          PROVE  \E x \in roles' \cup grants[d] : Tells(e, x)
      <4>1. CASE roles' = roles \/ b \in grants[d]
        BY <3>2, <4>1
      <4>2. CASE b \in roles /\ roles' = {After(a, revokes[c]) : a \in roles \cup grants[c]}
        <5>1. Tells(e, After(b, revokes[c]))
          BY <2>0, <3>2, <4>2, AfterHas DEF Tells
        <5>. QED BY <4>2, <5>1
      <4>. QED BY <2>2, <4>1, <4>2
    <3>3. \A e \in Told(d) :
            /\ e.type = "role_grant" => \E b \in grants[d] : Tells(e, b)
            /\ e.type = "role_revoke" =>
                  e.grant \in revokes[d] /\ \E b \in roles' \cup grants[d] : Tells(e, b)
      BY <3>2 DEF Stories, StoryOf
    <3>. QED BY <3>1, <3>3 DEF Stories, StoryOf, Once, Tells, TellsGrant, TellsRevoke
  <2>. QED BY <2>3, <2>4 DEF Stories
<1>. QED BY <1>1, <1>2, <1>3, <1>4, <1>5 DEF LedgerStep

LEMMA NextStoryOfAll == TypeOK /\ AssignmentsDiffer /\ RevokesAreExclusive /\ Stories /\ StoryOfAll /\ [Next]_vars => StoryOfAll'
<1> SUFFICES ASSUME TypeOK, AssignmentsDiffer, RevokesAreExclusive, Stories, StoryOfAll, [Next]_vars PROVE StoryOfAll'
  OBVIOUS
<1>1. LedgerStep
  BY NextLedgerStep
<1>2. ASSUME QuietStep
      PROVE  StoryOfAll'
  BY <1>2 DEF QuietStep, StoryOfAll, Once, Tells, TellsGrant, TellsRevoke
<1>3. ASSUME NEW c \in Callers, NEW a \in Assignments, NEW e \in AuditEvents, GrantStep(c, a, e)
      PROVE  StoryOfAll'
  BY <1>3 DEF GrantStep, StoryOfAll, Once, Tells, TellsGrant, TellsRevoke
<1>4. ASSUME NEW c \in Callers, NEW a \in roles \cup grants[c], NEW e \in AuditEvents,
             RevokeStep(c, a, e)
      PROVE  StoryOfAll'
  BY <1>4 DEF RevokeStep, StoryOfAll, Once, Tells, TellsGrant, TellsRevoke
<1>5. ASSUME NEW c \in Callers, EndStep(c)
      PROVE  StoryOfAll'
  <2>0. /\ roles \subseteq Assignments /\ \A d \in Callers : grants[d] \subseteq Assignments
        /\ \A b \in Assignments : b.granted_at \in Nat
        /\ calls \in Nat /\ calls' \in Nat
    BY AuthAssumption, NextTypeOK DEF TypeOK, Assignments
  <2>1. /\ grants'[c] = {} /\ revokes'[c] = {} /\ Told(c)' = {} /\ pc'[c] = "open"
        /\ \A d \in Callers \ {c} : /\ grants'[d] = grants[d] /\ revokes'[d] = revokes[d]
                                    /\ Told(d)' = Told(d) /\ pc'[d] = pc[d]
    BY <1>5 DEF EndStep, Untouched
  <2>2. \/ roles' = roles /\ trail' = trail
        \/ /\ pc[c] = "open" /\ trail' = trail \cup Told(c)
           /\ roles' = {After(a, revokes[c]) : a \in roles \cup grants[c]}
    BY <1>5 DEF EndStep
  <2>3. CASE roles' = roles /\ trail' = trail
    BY <2>3 DEF StoryOfAll, Once, Tells, TellsGrant, TellsRevoke
  <2>4. CASE /\ pc[c] = "open" /\ trail' = trail \cup Told(c)
             /\ roles' = {After(a, revokes[c]) : a \in roles \cup grants[c]}
    <3>1. \A e \in trail \cup Told(c) :
            /\ e.type = "role_grant" => \E a \in roles \cup grants[c] : Tells(e, a)
            /\ e.type = "role_revoke" =>
                  \E a \in roles \cup grants[c] :
                     Tells(e, a) /\ (a.revoked \/ a.granted_at \in revokes[c])
      <4>1. ASSUME NEW e \in trail
            PROVE  /\ e.type = "role_grant" => \E a \in roles \cup grants[c] : Tells(e, a)
                   /\ e.type = "role_revoke" =>
                         \E a \in roles \cup grants[c] :
                            Tells(e, a) /\ (a.revoked \/ a.granted_at \in revokes[c])
        BY DEF StoryOfAll
      <4>2. ASSUME NEW e \in Told(c)
            PROVE  /\ e.type = "role_grant" => \E a \in roles \cup grants[c] : Tells(e, a)
                   /\ e.type = "role_revoke" =>
                         \E a \in roles \cup grants[c] :
                            Tells(e, a) /\ (a.revoked \/ a.granted_at \in revokes[c])
        BY DEF Stories, StoryOf, Tells
      <4>. QED BY <4>1, <4>2
    <3>2. ASSUME NEW e \in trail, NEW f \in Told(c), e.type = f.type, e.type \in Changes
          PROVE  e.grant # f.grant
      <4>1. CASE e.type = "role_grant"
        <5>1. PICK a \in roles : e.grant = a.granted_at
          BY <4>1 DEF StoryOfAll, Tells
        <5>2. PICK b \in grants[c] : f.grant = b.granted_at
          BY <3>2, <4>1 DEF Stories, StoryOf, Tells
        <5>. QED BY <5>1, <5>2 DEF AssignmentsDiffer
      <4>2. CASE e.type = "role_revoke"
        <5>1. PICK a \in roles : e.grant = a.granted_at /\ a.revoked
          BY <4>2 DEF StoryOfAll, Tells
        <5>2. f.grant \in revokes[c]
          BY <3>2, <4>2 DEF Stories, StoryOf
        <5>3. PICK b \in roles \cup grants[c] : b.granted_at = f.grant /\ ~b.revoked
          BY <5>2 DEF RevokesAreExclusive
        <5>. QED BY <5>1, <5>3 DEF AssignmentsDiffer
      <4>. QED BY <3>2, <4>1, <4>2 DEF Changes
    <3>3. Once(trail) /\ Once(Told(c))
      BY DEF StoryOfAll, Stories, StoryOf
    <3>4. Once(trail')
      BY <2>4, <3>2, <3>3 DEF Once, Changes
    <3>5. \A e \in trail' :
            /\ e.type = "role_grant" => \E a \in roles' : Tells(e, a)
            /\ e.type = "role_revoke" => \E a \in roles' : Tells(e, a) /\ a.revoked
      <4> SUFFICES ASSUME NEW e \in trail'
                   PROVE  /\ e.type = "role_grant" => \E a \in roles' : Tells(e, a)
                          /\ e.type = "role_revoke" =>
                                \E a \in roles' : Tells(e, a) /\ a.revoked
        OBVIOUS
      <4>1. e \in trail \cup Told(c)
        BY <2>4
      <4>2. CASE e.type = "role_grant"
        <5>1. PICK a \in roles \cup grants[c] : Tells(e, a)
          BY <3>1, <4>1, <4>2
        <5>2. After(a, revokes[c]) \in roles'
          BY <2>4
        <5>3. Tells(e, After(a, revokes[c]))
          BY <2>0, <5>1, AfterHas DEF Tells
        <5>. QED BY <4>2, <5>2, <5>3
      <4>3. CASE e.type = "role_revoke"
        <5>1. PICK a \in roles \cup grants[c] :
                      Tells(e, a) /\ (a.revoked \/ a.granted_at \in revokes[c])
          BY <3>1, <4>1, <4>3
        <5>2. After(a, revokes[c]) \in roles'
          BY <2>4
        <5>3. Tells(e, After(a, revokes[c])) /\ After(a, revokes[c]).revoked
          BY <2>0, <5>1, AfterHas DEF Tells
        <5>. QED BY <4>3, <5>2, <5>3
      <4>. QED BY <4>2, <4>3
    <3>6. ASSUME NEW a \in roles \cup grants[c]
          PROVE  /\ \E e \in trail' : TellsGrant(e, a)
                 /\ a.revoked \/ a.granted_at \in revokes[c] =>
                       \E e \in trail' : TellsRevoke(e, a.granted_at)
      <4>1. CASE a \in roles
        BY <2>4, <4>1 DEF StoryOfAll, Stories, StoryOf
      <4>2. CASE a \in grants[c]
        <5>1. ~a.revoked
          BY <4>2 DEF AssignmentsDiffer
        <5>. QED BY <2>4, <4>2, <5>1 DEF Stories, StoryOf
      <4>. QED BY <4>1, <4>2
    <3>7. \A b \in roles' :
            /\ \E e \in trail' : TellsGrant(e, b)
            /\ b.revoked => \E e \in trail' : TellsRevoke(e, b.granted_at)
      <4> SUFFICES ASSUME NEW a \in roles \cup grants[c]
                   PROVE  /\ \E e \in trail' : TellsGrant(e, After(a, revokes[c]))
                          /\ After(a, revokes[c]).revoked =>
                                \E e \in trail' : TellsRevoke(e, After(a, revokes[c]).granted_at)
        BY <2>4
      <4>1. /\ \A e : TellsGrant(e, a) => TellsGrant(e, After(a, revokes[c]))
            /\ After(a, revokes[c]).granted_at = a.granted_at
            /\ After(a, revokes[c]).revoked => a.revoked \/ a.granted_at \in revokes[c]
        BY <2>0, AfterHas DEF TellsGrant, Tells
      <4>. QED BY <3>6, <4>1
    <3>. QED BY <3>4, <3>5, <3>7 DEF StoryOfAll, Once, Tells, TellsGrant, TellsRevoke
  <2>. QED BY <2>2, <2>3, <2>4
<1>. QED BY <1>1, <1>2, <1>3, <1>4, <1>5 DEF LedgerStep

-----------------------------------------------------------------------------
(***************************************************************************)
(* The inductive invariant.                                                *)
(***************************************************************************)
LEMMA InitAuthInv == Init => AuthInv
<1> SUFFICES ASSUME Init PROVE AuthInv
  OBVIOUS
<1>1. TypeOK /\ calls \in Nat
  BY InitTypeOK DEF Init
<1>2. /\ trail = {} /\ roles = {} /\ live = {} /\ issuing = {}
      /\ \A c \in Callers : pc[c] = "open" /\ rows[c] = {} /\ grants[c] = {} /\ revokes[c] = {}
  BY DEF Init
<1>3. \A c \in Callers : Told(c) = {}
  BY <1>2 DEF Told, UnderWay, Steps
<1>4. SessionsAnswered /\ EventsHappened /\ RolesFit
  BY <1>2 DEF SessionsAnswered, EventsHappened, RolesFit, Sweeping
<1>5. AssignmentsDiffer /\ RevokesAreExclusive /\ StoryOfAll
  BY <1>2 DEF AssignmentsDiffer, RevokesAreExclusive, StoryOfAll, Once
<1>6. Stories
  BY <1>2, <1>3 DEF Stories, StoryOf, Once
<1>. QED BY <1>1, <1>4, <1>5, <1>6 DEF AuthInv

LEMMA AlwaysAuthInv == Spec => []AuthInv
<1>1. AuthInv /\ [Next]_vars => AuthInv'
  BY NextTypeOK, NextSessionsAnswered, NextEventsHappened, NextRolesFit,
     NextAssignmentsDiffer, NextRevokesAreExclusive, NextStories, NextStoryOfAll
     DEF AuthInv
<1>. QED BY <1>1, InitAuthInv, PTL DEF Spec

-----------------------------------------------------------------------------
(***************************************************************************)
(* The theorems.                                                           *)
(***************************************************************************)
\* The state of provider, role store, trail and callers keeps its shape: a live
\* session has a holder, a call under way has its event (service.py, all calls).
THEOREM TypeCorrect == Spec => []TypeOK
BY AlwaysAuthInv, PTL DEF AuthInv

\* A disabled account whose disabling is done has no live session, but for one
\* whose issue overtook the disabling and what a sweep left that was cut short
\* (provider.py 191-200, 254-259; fake_provider.py 223-235, 294-296).
THEOREM DisabledStaysOut == Spec => []DisabledHasNoSession
<1>1. AuthInv => DisabledHasNoSession
  BY DEF AuthInv, SessionsAnswered, DisabledHasNoSession
<1>. QED BY <1>1, AlwaysAuthInv, PTL

\* What a persisted audit row says of account, password, second factor and
\* sessions was done and still stands (service.py 36-40); of a session_revoke, that
\* no session it names is live.
THEOREM AuditRowsAreTrue == Spec => []AuditRowsReflectActions
<1>1. AuthInv => AuditRowsReflectActions
  BY DEF AuthInv, EventsHappened, AuditRowsReflectActions
<1>. QED BY <1>1, AlwaysAuthInv, PTL

\* Grants and revocations are recorded once each, in the transaction that makes
\* them, and nothing else is recorded as one (service.py 348-395).
THEOREM TrailAndRolesAgree == Spec => []TrailMatchesRoles
<1>1. ASSUME AuthInv PROVE TrailMatchesRoles
  <2>1. StoryOfAll /\ AssignmentsDiffer
    BY <1>1 DEF AuthInv
  <2>2. ASSUME NEW a \in roles
        PROVE  /\ \E e \in trail : Events("role_grant", a.granted_at) = {e}
               /\ IF a.revoked
                  THEN \E e \in trail : Events("role_revoke", a.granted_at) = {e}
                  ELSE Events("role_revoke", a.granted_at) = {}
    <3>1. \E e \in trail : Events("role_grant", a.granted_at) = {e}
      <4>1. PICK e \in trail : e.type = "role_grant" /\ e.grant = a.granted_at
        BY <2>1 DEF StoryOfAll, TellsGrant, Tells
      <4>2. Events("role_grant", a.granted_at) = {e}
        BY <2>1, <4>1 DEF StoryOfAll, Once, Events
      <4>. QED BY <4>2
    <3>2. CASE a.revoked
      <4>1. PICK e \in trail : e.type = "role_revoke" /\ e.grant = a.granted_at
        BY <2>1, <3>2 DEF StoryOfAll, TellsRevoke
      <4>2. Events("role_revoke", a.granted_at) = {e}
        BY <2>1, <4>1 DEF StoryOfAll, Once, Events
      <4>. QED BY <3>1, <3>2, <4>2
    <3>3. CASE ~a.revoked
      <4>1. ASSUME NEW e \in trail, e.type = "role_revoke", e.grant = a.granted_at
            PROVE  FALSE
        <5>1. PICK b \in roles : Tells(e, b) /\ b.revoked
          BY <2>1, <4>1 DEF StoryOfAll
        <5>. QED BY <2>1, <3>3, <4>1, <5>1 DEF AssignmentsDiffer, Tells
      <4>. QED BY <3>1, <3>3, <4>1 DEF Events
    <3>. QED BY <3>2, <3>3
  <2>3. ASSUME NEW e \in trail, e.type \in {"role_grant", "role_revoke"}
        PROVE  \E a \in roles : a.granted_at = e.grant /\ a.user = e.user /\ a.role = e.role
    BY <2>1, <2>3 DEF StoryOfAll, Tells
  <2>. QED BY <2>2, <2>3 DEF TrailMatchesRoles
<1>. QED BY <1>1, AlwaysAuthInv, PTL

\* A permission, asked for any archetype, rests on a recorded grant that no
\* recorded revocation has ended, for a customer on one for that customer; and the
\* account's own catalogue knows all its roles (role_store.py 174-230, service.py
\* 414-445).
THEOREM PermissionsRestOnGrants == Spec => []PermissionsAreGranted
<1>1. ASSUME AuthInv PROVE PermissionsAreGranted
  <2> SUFFICES ASSUME NEW u \in Users, NEW k \in Customers \cup {None}
               PROVE  /\ KnowsAll(ArchetypeOf[u], LiveRoles(u, k))
                      /\ \A archetype \in Archetypes :
                         \A p \in ResolvePermissions(archetype, LiveRoles(u, k)) :
                            \E e \in trail :
                               /\ e.type = "role_grant" /\ e.user = u
                               /\ k # None => e.customer = k
                               /\ HasRole(archetype, e.role)
                               /\ p \in CatalogueFor(archetype)[e.role]
                               /\ Events("role_revoke", e.grant) = {}
    BY DEF PermissionsAreGranted
  <2>1. ASSUME NEW r \in LiveRoles(u, k)
        PROVE  \E a \in roles : /\ a.user = u /\ ~a.revoked /\ a.role = r
                                /\ k # None => a.customer = k
    BY DEF LiveRoles
  <2>2. KnowsAll(ArchetypeOf[u], LiveRoles(u, k))
    BY <1>1, <2>1 DEF AuthInv, RolesFit, Fits, KnowsAll
  <2>3. ASSUME NEW archetype \in Archetypes,
               NEW p \in ResolvePermissions(archetype, LiveRoles(u, k))
        PROVE  \E e \in trail : /\ e.type = "role_grant" /\ e.user = u
                                /\ k # None => e.customer = k
                                /\ HasRole(archetype, e.role)
                                /\ p \in CatalogueFor(archetype)[e.role]
                                /\ Events("role_revoke", e.grant) = {}
    <3>1. PICK r \in LiveRoles(u, k) :
               HasRole(archetype, r) /\ p \in CatalogueFor(archetype)[r]
      BY DEF ResolvePermissions, KnowsAll
    <3>2. PICK a \in roles : /\ a.user = u /\ ~a.revoked /\ a.role = r
                             /\ k # None => a.customer = k
      BY <2>1
    <3>3. PICK e \in trail : TellsGrant(e, a)
      BY <1>1 DEF AuthInv, StoryOfAll
    <3>4. Events("role_revoke", e.grant) = {}
      <4>1. e.grant = a.granted_at
        BY <3>3 DEF TellsGrant, Tells
      <4>2. ASSUME NEW f \in trail, f.type = "role_revoke", f.grant = a.granted_at
            PROVE  FALSE
        <5>1. PICK b \in roles : b.granted_at = a.granted_at /\ b.revoked
          BY <1>1, <4>2 DEF AuthInv, StoryOfAll, Tells
        <5>. QED BY <1>1, <3>2, <5>1 DEF AuthInv, AssignmentsDiffer
      <4>. QED BY <4>1, <4>2 DEF Events
    <3>. QED BY <3>1, <3>2, <3>3, <3>4 DEF TellsGrant, Tells
  <2>. QED BY <2>2, <2>3
<1>. QED BY <1>1, AlwaysAuthInv, PTL

\* No role that confers a governance permission is active.
LEMMA ActiveRolesDoNotGovern ==
    ASSUME NEW archetype \in Archetypes, NEW r, HasRole(archetype, r),
           r \notin FeatureFlaggedOff
    PROVE  CatalogueFor(archetype)[r] \cap GovernancePermissions = {}
<1>1. CASE archetype = "operator"
  <2>1. CatalogueFor(archetype) = OperatorCatalogue
    BY <1>1 DEF CatalogueFor
  <2>2. r \in {"owner", "admin", "operator", "read_only"}
    BY <2>1 DEF HasRole, OperatorCatalogue
  <2>. QED BY <2>1, <2>2 DEF OperatorCatalogue, GovernancePermissions
<1>2. CASE archetype = "brand_customer"
  <2>1. CatalogueFor(archetype) = BrandCustomerCatalogue
    BY <1>2 DEF CatalogueFor
  <2>2. r \in {"owner", "admin", "operator", "analyst", "read_only"}
    BY <2>1 DEF HasRole, BrandCustomerCatalogue
  <2>. QED BY <2>1, <2>2 DEF BrandCustomerCatalogue, GovernancePermissions
<1>3. CASE archetype = "foundation_internal"
  <2>1. CatalogueFor(archetype) = FoundationInternalCatalogue
    BY <1>3 DEF CatalogueFor
  <2>2. r \in {"maintainer", "ops_staff"}
    BY <2>1 DEF HasRole, FoundationInternalCatalogue, FeatureFlaggedOff
  <2>. QED BY <2>1, <2>2 DEF FoundationInternalCatalogue, GovernancePermissions
<1>. QED BY <1>1, <1>2, <1>3 DEF Archetypes

\* Nobody has a governance permission before the Trust Council is seated, whatever
\* roles are granted (rbac.py 114-117, 355-360).
THEOREM NobodyEverGoverns == Spec => []NobodyGoverns
<1>1. NobodyGoverns
  <2> SUFFICES ASSUME NEW u \in Users, NEW k \in Customers \cup {None},
                      NEW archetype \in Archetypes,
                      NEW p \in GovernancePermissions,
                      p \in ResolvePermissions(archetype, LiveRoles(u, k))
               PROVE  FALSE
    BY DEF NobodyGoverns
  <2>1. PICK r \in LiveRoles(u, k) \ FeatureFlaggedOff :
             HasRole(archetype, r) /\ p \in CatalogueFor(archetype)[r]
    BY DEF ResolvePermissions, KnowsAll
  <2>. QED BY <2>1, ActiveRolesDoNotGovern
<1>. QED BY <1>1, PTL

==============================================================================
