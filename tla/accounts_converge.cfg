SPECIFICATION MCFairSpec
CONSTANTS
  a1 = a1
  a2 = a2
  d1 = d1
  club1 = club1
  row1 = row1
  row2 = row2
  Admins = {a1}
  Devices = {d1}
  Clubs = {club1}
  RowIds = {row1, row2}
  MaxSubs = 1
  MaxFaults = 1
  Callers <- MCCallers
  Named = {"player", "club_admin", "league_admin"}
  NoClub = NoClub
  NoAccount = NoAccount
  NoUser = NoUser
  NoToken = NoToken
  NoEntry = NoEntry
  Idle = Idle
INVARIANT AccountFollowsRows
PROPERTY RoleConverges
