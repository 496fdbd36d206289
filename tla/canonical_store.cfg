SPECIFICATION Spec
CONSTANTS
  Domains = {d1}
  Pools = {p1}
  Accounts = {a1}
  Customers = {cust1}
  Roles = {owner}
  Ids = {1, 2}
  Urls = {u1, u2}
  Times = {1, 2}
  None = None
  MaxRows = 5
INVARIANTS
  TypeOK
  RoleScopeFollowsAccount
PROPERTIES
  RecordsStay
  ViewNeverRegresses
CHECK_DEADLOCK FALSE
