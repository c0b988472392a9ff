\* Two browsers, a login each, and the changes their users make.
SPECIFICATION Spec
CONSTANTS
  t1 = t1
  t2 = t2
  b1 = b1
  b2 = b2
  root = root
  user = user
  Nobody = Nobody
  ErrorObject = ErrorObject
  CodeNeeded = CodeNeeded
  Undefined = Undefined
  NewAccount = NewAccount
  Tabs <- MCTabs
  Browsers <- MCBrowsers
  Placements <- MCPlacements
  UserPages <- MCUserPages
  AdminPages <- MCAdminPages
  Users <- MCUsers
  FirstAdmins <- MCAdmins
  TwoFactor <- MCNone
  Changes <- MCNone
  MayFail = FALSE
  MaxLogins = 2
  MaxChanges = 3
INVARIANTS TypeOK ListTrue
PROPERTIES LastAdminStays
SYMMETRY MCSymmetry
