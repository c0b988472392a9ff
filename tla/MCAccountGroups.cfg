\* One request at a time; a new group may mirror g1, or the default group, and an
\* update may ask to mirror g2.
SPECIFICATION Spec
CONSTANTS
  t1 = t1
  t2 = t2
  users = users
  g1 = g1
  g2 = g2
  root = root
  u1 = u1
  None = None
  Default = users
  Caller = root
  Threads <- MCOneThread
  Groups <- MCTwoGroups
  Accounts <- MCAccounts
  NewMirrors <- MCNewMirrors
  AddMirrors <- MCOneMirror
  MaxList = 1
INVARIANTS TypeOK NoCircularMembership MirrorSourcesExist GroupsHaveAliases
