\* Boot, sessions, keys and rate limits together, on a clock of a few ticks.
SPECIFICATION Spec
CONSTANTS
  d1 = d1
  d2 = d2
  t1 = t1
  k1 = k1
  k2 = k2
  k3 = k3
  p0 = p0
  p1 = p1
  p2 = p2
  r1 = r1
  r2 = r2
  ip1 = ip1
  ip2 = ip2
  NoKey = NoKey
  Devices <- MCDevices
  Terminals <- MCTerminals
  Keys <- MCKeys
  Passwords <- MCPasswords
  Weak = {p2}
  SeedPassword = p0
  Replicas = {r1, r2}
  Here = r1
  Routes <- MCRoutes
  GrantedScopes <- MCGrantedScopes
  Chain <- MCChain
  Hops = 0
  Buckets <- MCBuckets
  Limit <- MCLimit
  Window <- MCWindow
  DefaultWindow = 2
  SweepInterval = 3
  MaxTime = 3
  WaitTimeout = 1
  Budgets <- MCBudgets
SYMMETRY Interchangeable
INVARIANTS
  LiveSessionsKnowThePassword
  KeysAreAccountable
  

  
CHECK_DEADLOCK FALSE
