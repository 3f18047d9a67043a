SPECIFICATION RolesSpec
CONSTANTS
  None = None
  RoleRows = {r1, r2}
  Names = {n1, n2}
  Permissions = {p1}
  Members = {m1}
  Handlers = {h1, h2}
  MaxRows = 2
  MaxLate = 1
SYMMETRY MCSymmetry
INVARIANTS
  RolesTypeOK
  OneRolePerName
  PermissionsFollowRoles
