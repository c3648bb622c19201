SPECIFICATION MCSpec
CONSTANTS
  t1 = t1
  t2 = t2
  c1 = c1
  c2 = c2
  p1 = p1
  p2 = p2
  i1 = i1
  i2 = i2
  i3 = i3
  r1 = r1
  Threads = {t1, t2}
  Players = {p1}
  Clubs = {c1, c2}
  InviteIds = {i1, i2}
  ReleaseIds = {r1}
  Origins <- FreeOrigin
  NoClub = NoClub
  NoRow = NoRow
  NoTxn = NoTxn
SYMMETRY Symmetry
CONSTRAINT NobodyAssigns
PROPERTY MovesThroughRelease
CHECK_DEADLOCK FALSE
