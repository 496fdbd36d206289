SPECIFICATION Spec
CONSTANTS
  brand = brand
  staff = staff
  Callers = {c1, c2}
  Users = {brand, staff}
  ArchetypeOf <- MCArchetypeOf
  SessionIds = {s1}
  Customers = {k1, k2}
  RolesTried = {"owner", "trust_council_voting"}
  None = None
  MaxCalls = 3
SYMMETRY MCSymmetry
CONSTRAINTS AccountsFirst StaffKeepsAccount
INVARIANTS
  TypeOK
  AuditRowsReflectActions
  DisabledHasNoSession
  TrailMatchesRoles
  PermissionsAreGranted
  NobodyGoverns
CHECK_DEADLOCK FALSE
