SPECIFICATION PagesSpec
CONSTANTS
  w1 = w1
  w2 = w2
  Writes = {w1, w2}
  Entries <- MCEntries
  NoData = NoData
  NoFetch = NoFetch
  NoWrite = NoWrite
  Targets = {t1, t2}
  Own = t1
  Fields = {f1}
  Values = {0, 1}
  Empty = 0
  Calls = {w1, w2}
  NoTarget = NoTarget
  NoCall = NoCall
  NoValue = NoValue
  ClubPages = {w1, w2}
  LeaguePages = {q1}
  MaxRounds = 2
  NoRow = NoRow
  Unloaded = Unloaded
  NoAction = NoAction
  Players = {me, other}
  Clubs = {c1, c2}
  Me = me
  ListLimit = 1
  NoClub = NoClub
  Absent = Absent
SYMMETRY PageSymmetry
CONSTRAINT FewRows
INVARIANTS ReadYourWrites OwnPageShowsWrites
           OwnSavesStand NotSubmittedAgain TypedForTarget DecisionsOffered BadgeCountsDecisions
PROPERTY ApprovesWhatWasShown
