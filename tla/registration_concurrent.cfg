CONSTANTS
  t1 = t1  t2 = t2  c1 = c1  c2 = c2  p1 = p1  p2 = p2
  r1 = r1  r2 = r2  r3 = r3  g1 = g1  g2 = g2  g3 = g3
  NoDate = NoDate  NoRow = NoRow  Gone = Gone  Idle = Idle
  Threads = {t1, t2}
  Clubs = {c1, c2}
  Players = {p1, p2}
  Seasons = {2026}
  RequestIds = {r1, r2, r3}
  RegistrationIds = {g1, g2, g3}
  SeasonCreates <- MCCreates
  SeasonPatches <- MCPatches
  MaxTime = 3
SYMMETRY MCSymmetry
SPECIFICATION MCSpec
INVARIANTS AcceptedIffRegistered OneClubPerSeason OutboxMatchesRequests RowsBelongToSeasons
PROPERTY SquadCapUnlessRaced
CHECK_DEADLOCK FALSE
