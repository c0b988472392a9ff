\* Two tabs of one browser log in twice between them.
SPECIFICATION SessionSpec
CONSTANTS
  t1 = t1
  t2 = t2
  b1 = b1
  root = root
  user = user
  Nobody = Nobody
  ErrorObject = ErrorObject
  CodeNeeded = CodeNeeded
  Undefined = Undefined
  Tabs <- MCTabs
  Browsers <- MCBrowsers
  Placements <- MCPlacements
  UserPages <- MCUserPages
  AdminPages <- MCAdminPages
  Users <- MCUsers
  FirstAdmins <- MCAdmins
  TwoFactor <- MCTwoFactor
  Changes <- MCChanges
  MayFail = TRUE
  MaxLogins = 2
INVARIANTS SessionTypeOK
PROPERTIES NoticesAwaited MixedOnlyByLateAnswer 
