--------------------------- MODULE MCAuthService ---------------------------
\* A brand customer and a member of the Foundation, for TLC.
EXTENDS AuthService, TLC

CONSTANTS brand, staff

MCArchetypeOf == brand :> "brand_customer" @@ staff :> "foundation_internal"

\* Bound: the calls that are counted begin when all accounts are registered.
AccountsFirst == calls > 0 => registered = Users

\* Bound: the archetype of an account tells only in its roles, so that the member
\* of the Foundation signs in, is given roles and loses them with its sessions, and
\* does not change otherwise.
StaffKeepsAccount ==
    staff \notin disabled /\ password[staff] = 0 /\ totp[staff] = "none"

MCSymmetry == Permutations(Callers) \cup Permutations(SessionIds)
              \cup Permutations(Customers)
=============================================================================
