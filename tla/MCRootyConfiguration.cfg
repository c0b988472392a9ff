\* Three requests of two clients, with failures and a crash.
SPECIFICATION Spec
CONSTANTS
  c1 = c1
  c2 = c2
  domain = domain
  cert = cert
  key = key
  s1 = s1
  v1 = v1
  v2 = v2
  None = None
  Nobody = Nobody
  Clients <- MCClients
  Domains <- MCDomains
  Certs <- MCCerts
  Keys <- MCKeys
  Settings <- MCSettings
  Values <- MCValues
  MayFail = TRUE
  MaxRequests = 3
  MaxCrashes = 1
INVARIANTS TypeOK KeptInStep
PROPERTIES SuccessIsReal
SYMMETRY MCSymmetry
CHECK_DEADLOCK FALSE
