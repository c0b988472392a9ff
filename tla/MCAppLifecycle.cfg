\* One task at a time: timeouts, a crash, chef runs that fail.
SPECIFICATION Spec
CONSTANTS
  t1 = t1
  t2 = t2
  s1 = s1
  Latest = Latest
  NoVersion = NoVersion
  Nobody = Nobody
  Tasks <- MCOneTask
  Versions <- MCVersions
  Published <- MCSecond
  NeedsConfig <- MCSecond
  Settings <- MCSettings
  Files <- MCAllFiles
  Requestable <- MCAnyRequest
  MayTimeOut = TRUE
  MaxCrashes = 1
  MaxQueue = 2
  Flags <- MCFlags
INVARIANTS TypeOK AgreesWithChef ActiveWasInstalled InstalledIsConfigured
PROPERTY OnlyCompleteInstalled
