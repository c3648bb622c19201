SPECIFICATION TokensSpec
CONSTANTS
  api1 = api1
  api2 = api2
  browser = browser
  admin = admin
  ApiClients = {api1, api2}
  Browsers = {browser}
  Admins = {admin}
  MaxTime = 4
  MaxDeaths = 1
  TicksPerSecond = 2
  Lifetime = 3
  NoToken = NoToken
  NoTime = NoTime
  Idle = Idle
  k1 = k1
  k2 = k2
  k3 = k3
  Threads = {api1, api2}
  Keys = {k1, k2, k3}
  Rotations <- MCRotations
  NoLookup = NoLookup
SYMMETRY TokensSymmetry
CONSTRAINT StillClaimed
INVARIANTS PasswordFlagAgrees SignedOutRefused LiveSessionAccepted KnownKeyFoundAlone
