\* Two tasks at once, with timeouts; rooty may never answer.
SPECIFICATION FairSpec
CONSTANTS
  t1 = t1
  t2 = t2
  s1 = s1
  Latest = Latest
  NoVersion = NoVersion
  Nobody = Nobody
  Tasks <- MCTwoTasks
  Versions <- MCOneVersion
  Published <- MCOneVersion
  NeedsConfig <- MCNone
  Settings <- MCNone
  Files <- MCTwoFiles
  Requestable <- MCOneVersion
  MayTimeOut = TRUE
  MaxCrashes = 0
  MaxQueue = 2
  Flags <- MCFlags
INVARIANT ActiveWasInstalled
PROPERTY TasksEnd
