SPECIFICATION ClientSpec
CONSTANTS
  Writes = {w1, w2}
  Entries <- MCEntries
  NoData = NoData
  NoFetch = NoFetch
  NoWrite = NoWrite
  ClubPages = {p1}
  LeaguePages = {q1}
  MaxRounds = 3
  NoRow = NoRow
  Unloaded = Unloaded
  NoAction = NoAction
  Pages = {p1, p2}
  Files = {f1}
  Keys = {k1, k2, k3}
  NoFile = NoFile
  NoKey = NoKey
  NoRequest = NoRequest
INVARIANTS RowsNameObjects
PROPERTIES NoticesShown SquadGetsSubmitted SubmissionsAreDecided
