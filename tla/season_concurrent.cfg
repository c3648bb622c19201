SPECIFICATION MCSpec
CONSTANTS
  t1 = t1
  t2 = t2
  u1 = u1
  u2 = u2
  u3 = u3
  u4 = u4
  c1 = c1
  c2 = c2
  c3 = c3
  k1 = k1
  k2 = k2
  s1 = s1
  s2 = s2
  Threads = {t1, t2}
  Users = {u1, u2, u3}
  LeagueAdmins = {u2, u3}
  Clubs = {c1, c2, c3}
  RequestIds = {k1, k2}
  StaffIds = {s1, s2}
  ClubOf <- MCClubOfThree
  MinApprovals = 2
  MaxStaff = 1
  NoClub = NoClub
  NoRow = NoRow
  NoTxn = NoTxn
SYMMETRY Symmetry
CONSTRAINTS StaffApart OwnSubmission OneRace
INVARIANTS ApprovedByQuorum PromisesUnlessRaced
PROPERTIES ProfileApproval LifecycleUnlessRaced
CHECK_DEADLOCK FALSE
