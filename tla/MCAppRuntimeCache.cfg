\* Two readers of both kinds against one thread that changes and resets.
\* The threads can deadlock, in the one way StuckOnlyByLockOrder allows, so
\* deadlock is not an error of this run.
SPECIFICATION Spec
CONSTANTS
  base = base
  child = child
  t1 = t1
  t2 = t2
  t3 = t3
  NoApp = NoApp
  NoThread = NoThread
  Null = Null
  Failed = Failed
  Apps <- MCApps
  Threads <- MCThreads
  DetailsCallers <- MCReaders
  RuntimesCallers <- MCReaders
  Resetters <- MCResetter
  Parent <- MCChildOfBase
  MaxRev = 1
INVARIANTS TypeOK NoStaleResult NestedRuntimesPresent CachesAgree StuckOnlyByLockOrder
PROPERTIES NullOnlyByReset
CHECK_DEADLOCK FALSE
