SPECIFICATION MCSpec
CONSTANTS
  a1 = a1
  a2 = a2
  d1 = d1
  club1 = club1
  row1 = row1
  row2 = row2
  Admins = {a1, a2}
  Devices = {d1}
  Clubs = {club1}
  RowIds = {row1, row2}
  MaxSubs = 2
  MaxFaults = 0
  Callers <- MCSuperAdmin
  Named = {"club_admin"}
  NoClub = NoClub
  NoAccount = NoAccount
  NoUser = NoUser
  NoToken = NoToken
  NoEntry = NoEntry
  Idle = Idle
SYMMETRY Symmetry
INVARIANTS OneRowPerRole AccountHasUser
PROPERTY TwoStepDeletion
CONSTRAINT StillClaimed
