SPECIFICATION MCFairSpec
CONSTANTS
  t1 = t1
  u1 = u1
  u2 = u2
  Tabs = {t1}
  Users = {u1, u2}
  Sessions = {1, 2}
  Calls = {c1, c2}
  Elsewhere = Elsewhere
  NoUser = NoUser
  NoSession = NoSession
  NoAsk = NoAsk
  NoCall = NoCall
PROPERTIES IdentityConverges DeadSessionEnds
