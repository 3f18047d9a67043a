SPECIFICATION AccountsSpec
CONSTANTS
  None = None
  Users = {u1, u2}
  Emails = {e1, e2}
  Handlers = {h1, h2}
  Types <- MCTypes
  MaxRows = 2
  MaxWallets = 2
  MaxLinks = 2
  MaxConflicts = 1
SYMMETRY MCSymmetry
INVARIANTS
  AccountsTypeOK
  OneUserPerEmail
  PendingCanBeVerified
  MembershipsFollowUser
  OnboardedOnce
  DirectoryMatchesMembers
PROPERTIES
  LifecycleIsOneWay
  BothAccountsAreForGood
