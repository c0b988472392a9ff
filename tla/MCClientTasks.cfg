\* One document asks for three tasks of a server that stops once.
SPECIFICATION Spec
CONSTANTS
  d1 = d1
  a = a
  v = v
  Nothing = Nothing
  Docs <- MCDocs
  Apps <- MCApps
  Bundles <- MCBundles
  AppOf <- MCAppOf
  MaxTasks = 3
  MaxRestarts = 1
INVARIANTS TypeOK DialogHasWayOut
PROPERTIES WatchingEnds
