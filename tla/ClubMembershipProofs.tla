------------------------ MODULE ClubMembershipProofs ------------------------
(***************************************************************************)
(* An answer to an invite is one transaction, for any number of players,   *)
(* clubs, invites and requests in progress.  The guards of a handler hold  *)
(* when it begins and not when it commits; what does last until then is    *)
(* that the invites it has loaded are rows of the table, and of one player.*)
(* The rest of what its guards saw lasts unless another request about the  *)
(* same player raced with it, which is the invariant behind the remaining  *)
(* promises.                                                               *)
(***************************************************************************)
EXTENDS MCClubMembership, TLAPS

Decides(t) == txn[t] # NoTxn /\ txn[t].op \in {"accept", "reject", "cancel"}

\* The invites that an answer also withdraws.
Others(t) == IF txn[t].op \in {"accept", "reject"} THEN txn[t].others ELSE {}

\* Rows of invites are never deleted, and stay those of their player.
LoadedInvitesExist ==
  \A t \in Threads : Decides(t) =>
    /\ invite[txn[t].invite] # NoRow
    /\ \A j \in Others(t) : /\ j \in InviteIds \ {txn[t].invite} /\ invite[j] # NoRow
                           /\ invite[j].player = invite[txn[t].invite].player
                           /\ txn[t].op = "accept" /\ txn[t].free

\* A row of an invite keeps its player and its club.
RowsStand == \A i \in InviteIds : invite[i] # NoRow =>
               /\ invite'[i] # NoRow
               /\ invite'[i].player = invite[i].player /\ invite'[i].club = invite[i].club

IInv == TypeOK /\ LoadedInvitesExist

-----------------------------------------------------------------------------
(* What the transactions are made of *)

LEMMA HighestRole ==
  ASSUME NEW g, g.league \in BOOLEAN
  PROVE  Highest(g) \in {"player", "club_admin", "league_admin"}
  BY DEF Highest

LEMMA AccountTyped == ASSUME NEW o \in OriginType PROVE Account(o) \in AccountType
  BY HighestRole DEF Account, AccountType, OriginType

LEMMA RevokedTyped ==
  ASSUME TypeOK, NEW p \in Players, NEW c \in Clubs
  PROVE  Revoked(p, c) \in [manages : Clubs \cup {NoClub}, league : BOOLEAN]
  BY DEF Revoked, TypeOK

\* The fields of a transaction by its operation.
LEMMA TxnFields ==
  ASSUME TypeOK, NEW t \in Threads, txn[t] # NoTxn
  PROVE  /\ txn[t].op = "me" => txn[t].player \in Players /\ txn[t].club \in Clubs \cup {NoClub}
         /\ txn[t].op \in {"invite", "release_player", "create_release", "assign"} =>
              txn[t].player \in Players /\ txn[t].club \in Clubs
         /\ txn[t].op = "assign" => txn[t].free \in BOOLEAN
         /\ txn[t].op \in {"accept", "reject", "cancel"} => txn[t].invite \in InviteIds
  BY DEF TypeOK, TxnType

LEMMA AnsweredTyped ==
  ASSUME TypeOK, NEW i \in InviteIds, invite[i] # NoRow, NEW s \in Status
  PROVE  /\ Answered(i, s) \in [InviteIds -> Invite \cup {NoRow}]
         /\ Answered(i, s)[i] = [invite[i] EXCEPT !.status = s]
         /\ \A j \in InviteIds : j # i => Answered(i, s)[j] = invite[j]
         /\ invite' = Answered(i, s) => RowsStand
<1>1. /\ Answered(i, s)[i] = [invite[i] EXCEPT !.status = s]
      /\ \A j \in InviteIds : j # i => Answered(i, s)[j] = invite[j]
      /\ Answered(i, s) \in [InviteIds -> Invite \cup {NoRow}]
  BY DEF TypeOK, Answered, Invite
<1>2. /\ [invite[i] EXCEPT !.status = s] \in Invite
      /\ [invite[i] EXCEPT !.status = s].player = invite[i].player
      /\ [invite[i] EXCEPT !.status = s].club = invite[i].club
  BY DEF TypeOK, Invite
<1> QED
  BY <1>1, <1>2, NullAssumption DEF RowsStand

-----------------------------------------------------------------------------
(* The invariant *)

LEMMA InitEstablishes == Init => IInv
<1> SUFFICES ASSUME Init PROVE IInv
  OBVIOUS
<1>1. PICK o \in [Players -> Origins] :
        /\ playerClub = [p \in Players |-> o[p].club]
        /\ user = [p \in Players |-> Account(o[p])]
        /\ governance = [p \in Players |-> [manages |-> o[p].manages, league |-> o[p].league]]
        /\ claims = [p \in Players |-> Account(o[p])]
  BY DEF Init
<1>2. \A p \in Players : o[p] \in OriginType
  BY MembershipAssumption
<1>3. user \in [Players -> AccountType] /\ claims \in [Players -> AccountType]
  BY <1>1, <1>2, AccountTyped
<1>4. /\ playerClub \in [Players -> Clubs \cup {NoClub}]
      /\ governance \in [Players -> [manages : Clubs \cup {NoClub}, league : BOOLEAN]]
  BY <1>1, <1>2 DEF OriginType
<1> QED
  BY <1>3, <1>4 DEF Init, IInv, TypeOK, LoadedInvitesExist, Decides

\* A request that loads a row which exists.
LEMMA LoadKeeps ==
  ASSUME IInv, NEW t \in Threads, NEW row \in TxnType, Load(t, row), UNCHANGED invite,
         row.op \in {"accept", "reject", "cancel"} => invite[row.invite] # NoRow,
         row.op \in {"accept", "reject"} =>
           \A j \in row.others : /\ j \in InviteIds \ {row.invite} /\ invite[j] # NoRow
                                 /\ invite[j].player = invite[row.invite].player
                                 /\ row.op = "accept" /\ row.free
  PROVE  txn' \in [Threads -> TxnType \cup {NoTxn}] /\ LoadedInvitesExist'
  BY DEF IInv, TypeOK, LoadedInvitesExist, Decides, Others, Load

\* A request that ends, where the rows of invites stay.
LEMMA EndKeeps ==
  ASSUME IInv, NEW t \in Threads, End(t), RowsStand
  PROVE  txn' \in [Threads -> TxnType \cup {NoTxn}] /\ LoadedInvitesExist'
<1>1. txn' \in [Threads -> TxnType \cup {NoTxn}]
  BY DEF IInv, TypeOK, End
<1>2. ASSUME NEW u \in Threads, Decides(u)' PROVE Decides(u) /\ txn'[u] = txn[u]
  BY <1>2 DEF IInv, TypeOK, Decides, End
<1>3. \A u \in Threads : Decides(u) => txn[u].invite \in InviteIds
  BY TxnFields DEF IInv, Decides
<1>4. \A u \in Threads : txn'[u] = txn[u] => Others(u)' = Others(u)
  BY DEF Others
<1> QED
  BY <1>1, <1>2, <1>3, <1>4 DEF IInv, LoadedInvitesExist, RowsStand

\* Where invites are not touched, their rows stand.
LEMMA SameRows == ASSUME UNCHANGED invite PROVE RowsStand
  BY DEF RowsStand

LEMMA SyncTyped == ASSUME TypeOK, NEW p \in Players, SyncUser(p)
                   PROVE  user' \in [Players -> AccountType]
  BY DEF TypeOK, SyncUser

LEMMA ClubTyped ==
  ASSUME TypeOK, NEW p \in Players, NEW c \in Clubs \cup {NoClub}
  PROVE  [user EXCEPT ![p].club = c] \in [Players -> AccountType]
<1>1. user[p] \in AccountType
  BY DEF TypeOK
<1>2. [user[p] EXCEPT !.club = c] \in AccountType
  BY <1>1 DEF AccountType
<1> QED
  BY <1>2 DEF TypeOK

LEMMA UserStepKeeps == IInv /\ UserStep => IInv'
<1> SUFFICES ASSUME IInv, NEW p \in Players, AnyRequest(p) \/ \E t \in Threads : BeginMe(t, p)
             PROVE  IInv'
  BY DEF UserStep
<1>1. CASE AnyRequest(p)
  BY <1>1, SyncTyped DEF AnyRequest, IInv, TypeOK, LoadedInvitesExist, Decides, Others
<1>2. ASSUME NEW t \in Threads, BeginMe(t, p) PROVE IInv'
  <2> DEFINE row == [op |-> "me", player |-> p, club |-> playerClub[p]]
  <2>1. row \in TxnType /\ row.op = "me"
    BY DEF IInv, TypeOK, TxnType
  <2>2. txn' \in [Threads -> TxnType \cup {NoTxn}] /\ LoadedInvitesExist'
    BY <1>2, <2>1, LoadKeeps DEF BeginMe
  <2> QED
    BY <1>2, <2>2, SyncTyped DEF BeginMe, IInv, TypeOK
<1> QED
  BY <1>1, <1>2

LEMMA InviteStepKeeps == ASSUME IInv, NEW t \in Threads, InviteStep(t) PROVE IInv'
<1>1. ASSUME NEW c \in Clubs, NEW p \in Players, BeginInvite(t, c, p) PROVE IInv'
  <2> DEFINE row == [op |-> "invite", player |-> p, club |-> c]
  <2>1. row \in TxnType /\ row.op = "invite"
    BY DEF TxnType
  <2>2. txn' \in [Threads -> TxnType \cup {NoTxn}] /\ LoadedInvitesExist'
    BY <1>1, <2>1, LoadKeeps DEF BeginInvite
  <2> QED
    BY <1>1, <2>2 DEF BeginInvite, IInv, TypeOK
<1>2. ASSUME NEW i \in InviteIds, CommitInvite(t, i) PROVE IInv'
  <2>1. txn[t].player \in Players /\ txn[t].club \in Clubs
    BY <1>2, TxnFields DEF CommitInvite, Running, IInv
  <2>2. invite' \in [InviteIds -> Invite \cup {NoRow}]
    BY <1>2, <2>1 DEF CommitInvite, IInv, TypeOK, Invite, Status
  <2>3. RowsStand
    BY <1>2 DEF CommitInvite, IInv, TypeOK, RowsStand
  <2>4. txn' \in [Threads -> TxnType \cup {NoTxn}] /\ LoadedInvitesExist'
    BY <1>2, <2>3, EndKeeps DEF CommitInvite
  <2> QED
    BY <1>2, <2>2, <2>4 DEF CommitInvite, IInv, TypeOK, Audit
<1>3. ASSUME NEW i \in InviteIds, BeginCancel(t, i) PROVE IInv'
  <2> DEFINE row == [op |-> "cancel", invite |-> i]
  <2>1. row \in TxnType /\ row.op = "cancel" /\ invite[row.invite] # NoRow
    BY <1>3 DEF TxnType, BeginCancel, IsPending
  <2>2. txn' \in [Threads -> TxnType \cup {NoTxn}] /\ LoadedInvitesExist'
    BY <1>3, <2>1, LoadKeeps DEF BeginCancel
  <2> QED
    BY <1>3, <2>2 DEF BeginCancel, IInv, TypeOK
<1>4. CASE CommitCancel(t)
  <2>1. txn[t].invite \in InviteIds /\ invite[txn[t].invite] # NoRow
    BY <1>4, TxnFields DEF CommitCancel, Running, IInv, LoadedInvitesExist, Decides
  <2>2. invite' \in [InviteIds -> Invite \cup {NoRow}] /\ RowsStand
    BY <1>4, <2>1, AnsweredTyped DEF CommitCancel, Status, IInv
  <2>3. txn' \in [Threads -> TxnType \cup {NoTxn}] /\ LoadedInvitesExist'
    BY <1>4, <2>2, EndKeeps DEF CommitCancel
  <2> QED
    BY <1>4, <2>2, <2>3 DEF CommitCancel, IInv, TypeOK
<1> QED
  BY <1>1, <1>2, <1>3, <1>4 DEF InviteStep

\* The invites after an acceptance: the one that is accepted, and the others that were pending.
LEMMA AcceptedTyped ==
  ASSUME IInv, NEW t \in Threads, CommitAccept(t)
  PROVE  /\ txn[t].invite \in InviteIds /\ invite[txn[t].invite] \in Invite
         /\ invite[txn[t].invite] # NoRow
         /\ invite'[txn[t].invite] = [invite[txn[t].invite] EXCEPT !.status = "accepted"]
         /\ \A j \in txn[t].others :
              /\ j \in InviteIds \ {txn[t].invite} /\ invite[j] \in Invite
              /\ invite[j].player = invite[txn[t].invite].player
         /\ \A j \in InviteIds \ {txn[t].invite} :
              invite'[j] = IF j \in txn[t].others
                           THEN [invite[j] EXCEPT !.status = "cancelled"] ELSE invite[j]
         /\ invite' \in [InviteIds -> Invite \cup {NoRow}] /\ RowsStand
<1> DEFINE i == txn[t].invite
           others == txn[t].others
<1>1. /\ i \in InviteIds /\ invite[i] # NoRow
      /\ \A j \in others : /\ j \in InviteIds \ {i} /\ invite[j] # NoRow
                           /\ invite[j].player = invite[i].player
  BY TxnFields DEF CommitAccept, Running, IInv, LoadedInvitesExist, Decides, Others
<1>2. /\ Answered(i, "accepted") \in [InviteIds -> Invite \cup {NoRow}]
      /\ Answered(i, "accepted")[i] = [invite[i] EXCEPT !.status = "accepted"]
      /\ \A j \in InviteIds : j # i => Answered(i, "accepted")[j] = invite[j]
  BY <1>1, AnsweredTyped DEF IInv, Status
<1>3. invite' = [j \in InviteIds |-> IF j \in others THEN [invite[j] EXCEPT !.status = "cancelled"]
                                                   ELSE Answered(i, "accepted")[j]]
  BY DEF CommitAccept
<1>4. invite[i] \in Invite /\ \A j \in others : invite[j] \in Invite
  BY <1>1 DEF IInv, TypeOK
<1>5. \A j \in InviteIds, r \in Status : invite[j] \in Invite =>
        /\ [invite[j] EXCEPT !.status = r] \in Invite
        /\ [invite[j] EXCEPT !.status = r].player = invite[j].player
        /\ [invite[j] EXCEPT !.status = r].club = invite[j].club
  BY DEF Invite
<1>6. \A j \in InviteIds \ {i} :
        invite'[j] = IF j \in others THEN [invite[j] EXCEPT !.status = "cancelled"] ELSE invite[j]
  BY <1>2, <1>3
<1>7. invite'[i] = [invite[i] EXCEPT !.status = "accepted"]
  BY <1>1, <1>2, <1>3
<1>8. "accepted" \in Status /\ "cancelled" \in Status
  BY DEF Status
<1>9. invite' \in [InviteIds -> Invite \cup {NoRow}]
  BY <1>1, <1>2, <1>3, <1>4, <1>5, <1>8
<1>10. RowsStand
  <2>1. ASSUME NEW j \in InviteIds, invite[j] # NoRow
        PROVE  \/ invite'[j] = invite[j]
               \/ \E r \in Status : invite'[j] = [invite[j] EXCEPT !.status = r]
    BY <1>6, <1>7, <1>8
  <2>2. ASSUME NEW j \in InviteIds, invite[j] # NoRow
        PROVE  /\ invite'[j] # NoRow
               /\ invite'[j].player = invite[j].player /\ invite'[j].club = invite[j].club
    <3>1. invite[j] \in Invite
      BY <2>2 DEF IInv, TypeOK
    <3>2. CASE invite'[j] = invite[j]
      BY <2>2, <3>2
    <3>3. ASSUME NEW r \in Status, invite'[j] = [invite[j] EXCEPT !.status = r]
          PROVE  /\ invite'[j] \in Invite /\ invite'[j].player = invite[j].player
                 /\ invite'[j].club = invite[j].club
      BY <3>1, <3>3 DEF Invite
    <3> QED
      BY <2>1, <2>2, <3>2, <3>3, NullAssumption
  <2> QED
    BY <2>2 DEF RowsStand
<1> QED
  BY <1>1, <1>4, <1>6, <1>7, <1>9, <1>10

LEMMA DecideStepKeeps == ASSUME IInv, NEW t \in Threads, DecideStep(t) PROVE IInv'
<1>1. ASSUME NEW i \in InviteIds, NEW d \in {"accept", "reject"}, BeginDecide(t, i, d) PROVE IInv'
  <2> DEFINE others == IF d = "accept" /\ Free(invite[i].player)
                       THEN OtherPending(invite[i].player, i) ELSE {}
             row == [op |-> d, invite |-> i, free |-> Free(invite[i].player), others |-> others]
  <2>1. invite[i] # NoRow /\ invite[i].player \in Players
    BY <1>1 DEF BeginDecide, IsPending, IInv, TypeOK, Invite
  <2>2. Free(invite[i].player) \in BOOLEAN
    BY DEF Free
  <2>3. \A j \in others : /\ j \in InviteIds \ {i} /\ invite[j] # NoRow
                          /\ invite[j].player = invite[i].player
                          /\ d = "accept" /\ Free(invite[i].player)
    BY DEF OtherPending, IsPending
  <2>6. row \in TxnType /\ invite[row.invite] # NoRow /\ row.invite = i /\ row.others = others
        /\ row.op = d /\ row.free = Free(invite[i].player)
    BY <2>1, <2>2, <2>3 DEF TxnType
  <2>4. txn' \in [Threads -> TxnType \cup {NoTxn}] /\ LoadedInvitesExist'
    <3> HIDE DEF others
    <3>1. Load(t, row) /\ UNCHANGED invite
      BY <1>1 DEF BeginDecide, others
    <3> QED
      BY <2>3, <2>6, <3>1, LoadKeeps
  <2>5. user' \in [Players -> AccountType]
    BY <1>1, <2>1, SyncTyped DEF BeginDecide, IInv
  <2> QED
    BY <1>1, <2>4, <2>5 DEF BeginDecide, IInv, TypeOK
<1>2. CASE CommitAccept(t)
  <2> DEFINE i == txn[t].invite
  <2>1. /\ i \in InviteIds /\ invite[i].player \in Players /\ invite[i].club \in Clubs
        /\ invite' \in [InviteIds -> Invite \cup {NoRow}] /\ RowsStand
    BY <1>2, AcceptedTyped DEF Invite
  <2>2. txn' \in [Threads -> TxnType \cup {NoTxn}] /\ LoadedInvitesExist'
    BY <1>2, <2>1, EndKeeps DEF CommitAccept
  <2>3. user' \in [Players -> AccountType]
    BY <1>2, <2>1, ClubTyped DEF CommitAccept, IInv, TypeOK
  <2>4. playerClub' \in [Players -> Clubs \cup {NoClub}]
    BY <1>2, <2>1 DEF CommitAccept, IInv, TypeOK
  <2>5. audit' = audit \cup {<<"accepted", i>>}
    BY <1>2 DEF CommitAccept, Audit
  <2>6. audit' \subseteq ({"invite", "accepted", "rejected"} \X InviteIds)
                            \cup ({"release"} \X ReleaseIds)
    BY <2>1, <2>5 DEF IInv, TypeOK
  <2>7. UNCHANGED <<governance, claims, release, seasonLocked>>
    BY <1>2 DEF CommitAccept
  <2> HIDE DEF i
  <2> QED
    BY <2>1, <2>2, <2>3, <2>4, <2>6, <2>7 DEF IInv, TypeOK
<1>3. CASE CommitAcceptTooLate(t) \/ CommitReject(t)
  <2>1. txn[t].invite \in InviteIds /\ invite[txn[t].invite] # NoRow
    BY <1>3, TxnFields DEF CommitAcceptTooLate, CommitReject, Running, IInv, LoadedInvitesExist,
       Decides
  <2>2. invite' \in [InviteIds -> Invite \cup {NoRow}] /\ RowsStand
    <3>1. PICK s \in Status : invite' = Answered(txn[t].invite, s)
      BY <1>3 DEF CommitAcceptTooLate, CommitReject, Status
    <3>2. ASSUME NEW i \in InviteIds, invite[i] # NoRow, invite' = Answered(i, s)
          PROVE  Answered(i, s) \in [InviteIds -> Invite \cup {NoRow}] /\ RowsStand
      BY <3>2, AnsweredTyped, ZenonT(60) DEF IInv
    <3> QED
      BY <2>1, <3>1, <3>2
  <2>3. txn' \in [Threads -> TxnType \cup {NoTxn}] /\ LoadedInvitesExist'
    BY <1>3, <2>2, EndKeeps DEF CommitAcceptTooLate, CommitReject
  <2> QED
    BY <1>3, <2>1, <2>2, <2>3 DEF CommitAcceptTooLate, CommitReject, IInv, TypeOK, Audit
<1> QED
  BY <1>1, <1>2, <1>3 DEF DecideStep

LEMMA ReleaseStepKeeps == ASSUME IInv, NEW t \in Threads, ReleaseStep(t) PROVE IInv'
<1>1. ASSUME NEW op \in {"release_player", "create_release"}, NEW c \in Clubs, NEW p \in Players,
             BeginRelease(t, op, c, p)
      PROVE  IInv'
  <2> DEFINE row == [op |-> op, player |-> p, club |-> c]
  <2>1. row \in TxnType /\ row.op \in {"release_player", "create_release"}
    BY DEF TxnType
  <2>2. txn' \in [Threads -> TxnType \cup {NoTxn}] /\ LoadedInvitesExist'
    BY <1>1, <2>1, LoadKeeps DEF BeginRelease
  <2> QED
    BY <1>1, <2>2 DEF BeginRelease, IInv, TypeOK
<1>2. CASE CommitReleasePlayer(t)
  <2>1. txn[t].player \in Players
    BY <1>2, TxnFields DEF CommitReleasePlayer, Running, IInv
  <2>2. txn' \in [Threads -> TxnType \cup {NoTxn}] /\ LoadedInvitesExist'
    BY <1>2, EndKeeps, SameRows DEF CommitReleasePlayer
  <2> QED
    BY <1>2, <2>1, <2>2, SMTT(30) DEF CommitReleasePlayer, IInv, TypeOK, AccountType
<1>3. ASSUME NEW r \in ReleaseIds, CommitCreateRelease(t, r) PROVE IInv'
  <2> DEFINE p == txn[t].player
             c == txn[t].club
  <2>1. p \in Players /\ c \in Clubs
    BY <1>3, TxnFields DEF CommitCreateRelease, Running, IInv
  <2>2. Revoked(p, c) \in [manages : Clubs \cup {NoClub}, league : BOOLEAN]
    BY <2>1, RevokedTyped DEF IInv
  <2>3. Highest(Revoked(p, c)) \in {"player", "club_admin", "league_admin"}
    BY <2>2, HighestRole
  <2>4. user' \in [Players -> AccountType]
    BY <1>3, <2>1, <2>3 DEF CommitCreateRelease, IInv, TypeOK, AccountType
  <2>5. /\ governance' \in [Players -> [manages : Clubs \cup {NoClub}, league : BOOLEAN]]
        /\ playerClub' \in [Players -> Clubs \cup {NoClub}]
        /\ release' \in [ReleaseIds -> Release \cup {NoRow}]
    BY <1>3, <2>1, <2>2 DEF CommitCreateRelease, IInv, TypeOK, Release
  <2>6. txn' \in [Threads -> TxnType \cup {NoTxn}] /\ LoadedInvitesExist'
    BY <1>3, EndKeeps, SameRows DEF CommitCreateRelease
  <2> QED
    BY <1>3, <2>4, <2>5, <2>6 DEF CommitCreateRelease, IInv, TypeOK, Audit
<1> QED
  BY <1>1, <1>2, <1>3 DEF ReleaseStep

LEMMA AssignStepKeeps == ASSUME IInv, NEW t \in Threads, AssignStep(t) PROVE IInv'
<1>1. ASSUME NEW c \in Clubs, NEW p \in Players, BeginAssign(t, c, p) PROVE IInv'
  <2> DEFINE row == [op |-> "assign", player |-> p, club |-> c, free |-> Free(p), told |-> FALSE]
  <2>1. row \in TxnType /\ row.op = "assign"
    BY DEF TxnType, Free
  <2>2. txn' \in [Threads -> TxnType \cup {NoTxn}] /\ LoadedInvitesExist'
    BY <1>1, <2>1, LoadKeeps DEF BeginAssign
  <2> QED
    BY <1>1, <2>2 DEF BeginAssign, IInv, TypeOK
<1> DEFINE p == txn[t].player
           c == txn[t].club
<1>2. ASSUME Running(t, "assign")
      PROVE  /\ p \in Players /\ c \in Clubs /\ AdminAccount(p, c) \in AccountType
             /\ Granted(p, c) \in [manages : Clubs \cup {NoClub}, league : BOOLEAN]
  <2>1. p \in Players /\ c \in Clubs
    BY <1>2, TxnFields DEF Running, IInv
  <2>2. Granted(p, c) \in [manages : Clubs \cup {NoClub}, league : BOOLEAN]
    BY <2>1 DEF Granted, IInv, TypeOK
  <2>3. Highest(Granted(p, c)) \in {"player", "club_admin", "league_admin"}
    BY <2>2, HighestRole
  <2> QED
    BY <2>1, <2>2, <2>3 DEF AdminAccount, AccountType
<1>3. CASE TellCognito(t)
  <2>1. txn[t] \in TxnType /\ txn[t].op = "assign"
    BY <1>3 DEF TellCognito, Running, IInv, TypeOK
  <2>2. [txn[t] EXCEPT !.told = TRUE] \in TxnType /\ [txn[t] EXCEPT !.told = TRUE].op = "assign"
    BY <2>1 DEF TxnType
  <2>3. txn' \in [Threads -> TxnType \cup {NoTxn}] /\ txn'[t].op = "assign"
    BY <1>3, <2>2 DEF TellCognito, IInv, TypeOK
  <2>4. \A u \in Threads : u # t => txn'[u] = txn[u]
    BY <1>3 DEF TellCognito, IInv, TypeOK
  <2>5. LoadedInvitesExist'
    BY <1>3, <2>3, <2>4 DEF TellCognito, IInv, LoadedInvitesExist, Decides, Others
  <2>6. claims' \in [Players -> AccountType]
    BY <1>2, <1>3 DEF TellCognito, IInv, TypeOK
  <2> QED
    BY <1>3, <2>3, <2>5, <2>6 DEF TellCognito, IInv, TypeOK
<1>4. CASE CommitAssign(t)
  <2>1. txn' \in [Threads -> TxnType \cup {NoTxn}] /\ LoadedInvitesExist'
    BY <1>4, EndKeeps, SameRows DEF CommitAssign
  <2>2. /\ playerClub' \in [Players -> Clubs \cup {NoClub}]
        /\ governance' \in [Players -> [manages : Clubs \cup {NoClub}, league : BOOLEAN]]
        /\ user' \in [Players -> AccountType]
    BY <1>2, <1>4 DEF CommitAssign, IInv, TypeOK
  <2> QED
    BY <1>4, <2>1, <2>2 DEF CommitAssign, IInv, TypeOK
<1> QED
  BY <1>1, <1>3, <1>4 DEF AssignStep

LEMMA CommitMeKeeps == ASSUME IInv, NEW t \in Threads, CommitMe(t) PROVE IInv'
<1>1. txn[t].player \in Players /\ txn[t].club \in Clubs \cup {NoClub}
  BY TxnFields DEF CommitMe, Running, IInv
<1>2. user' \in [Players -> AccountType]
  BY <1>1, ClubTyped DEF CommitMe, IInv, TypeOK
<1>3. txn' \in [Threads -> TxnType \cup {NoTxn}] /\ LoadedInvitesExist'
  BY EndKeeps, SameRows DEF CommitMe
<1> QED
  BY <1>2, <1>3 DEF CommitMe, IInv, TypeOK

LEMMA RollbackKeeps == ASSUME IInv, NEW t \in Threads, Rollback(t) PROVE IInv'
<1>1. txn' \in [Threads -> TxnType \cup {NoTxn}] /\ LoadedInvitesExist'
  BY EndKeeps, SameRows DEF Rollback
<1> QED
  BY <1>1 DEF Rollback, IInv, TypeOK

LEMMA StepKeeps == IInv /\ [Next]_vars => IInv'
<1> SUFFICES ASSUME IInv, [Next]_vars PROVE IInv'
  OBVIOUS
<1>1. CASE UserStep
  BY <1>1, UserStepKeeps
<1>2. CASE SeasonLockChanges
  BY <1>2 DEF SeasonLockChanges, IInv, TypeOK, LoadedInvitesExist, Decides, Others
<1>3. ASSUME NEW t \in Threads,
             \/ InviteStep(t) \/ DecideStep(t) \/ ReleaseStep(t) \/ AssignStep(t)
             \/ CommitMe(t) \/ Rollback(t)
      PROVE  IInv'
  BY <1>3, InviteStepKeeps, DecideStepKeeps, ReleaseStepKeeps, AssignStepKeeps, CommitMeKeeps,
     RollbackKeeps
<1>4. CASE UNCHANGED vars
  BY <1>4 DEF vars, IInv, TypeOK, LoadedInvitesExist, Decides, Others
<1> QED
  BY <1>1, <1>2, <1>3, <1>4 DEF Next

LEMMA Invariance == Spec => []IInv
  BY InitEstablishes, StepKeeps, PTL DEF Spec

\* The types of the rows of the tables and of what the requests in progress hold.
THEOREM MembershipTypeOK == Spec => []TypeOK
<1>1. IInv => TypeOK
  BY DEF IInv
<1> QED
  BY <1>1, Invariance, PTL

-----------------------------------------------------------------------------
(* Answers *)

\* An acceptance brings its player into a club, and no other invite to "accepted".
LEMMA AcceptDecides ==
  ASSUME IInv, NEW t \in Threads, CommitAccept(t)
  PROVE  DecisionStep
<1> DEFINE i == txn[t].invite
<1>1. /\ i \in InviteIds /\ invite[i] \in Invite /\ invite[i] # NoRow
      /\ invite'[i] = [invite[i] EXCEPT !.status = "accepted"]
      /\ playerClub' = [playerClub EXCEPT ![invite[i].player] = invite[i].club]
      /\ <<"accepted", i>> \in audit'
  BY AcceptedTyped DEF CommitAccept, Audit
<1>2. invite'[i].status = "accepted" /\ invite[i].player \in Players
  BY <1>1 DEF Invite
<1>3. ASSUME NEW j \in InviteIds, j # i, invite'[j] # invite[j]
      PROVE  invite'[j].status = "cancelled"
  <2>1. invite[j] \in Invite /\ invite'[j] = [invite[j] EXCEPT !.status = "cancelled"]
    BY <1>3, AcceptedTyped
  <2> QED
    BY <2>1 DEF Invite
<1>4. ASSUME NEW p \in Players, playerClub'[p] \notin {playerClub[p], NoClub}
      PROVE  invite[i].player = p /\ invite[i].club = playerClub'[p]
  BY <1>1, <1>2, <1>4 DEF IInv, TypeOK
<1>5. ASSUME NEW j \in InviteIds, Accepts(j) PROVE j = i
  BY <1>3, <1>5 DEF Accepts
<1>6. playerClub'[invite[i].player] = invite[i].club
  BY <1>1, <1>2 DEF IInv, TypeOK
<1>7. \A j \in InviteIds :
        invite'[j] # invite[j] /\ invite'[j].status \in {"accepted", "rejected"} => j = i
  BY <1>3
<1> QED
  BY <1>1, <1>2, <1>4, <1>5, <1>6, <1>7 DEF DecisionStep

\* An admin of a club is in it, if the request had found the player free.
LEMMA AssignDecides ==
  ASSUME IInv, NEW t \in Threads, CommitAssign(t)
  PROVE  DecisionStep
<1> DEFINE p == txn[t].player
           c == txn[t].club
<1>1. p \in Players /\ c \in Clubs
  BY TxnFields DEF CommitAssign, Running, IInv
<1>2. /\ UNCHANGED invite /\ governance'[p].manages = c
      /\ \A q \in Players : playerClub'[q] # playerClub[q] => q = p /\ playerClub'[q] = c
  BY <1>1 DEF CommitAssign, Granted, IInv, TypeOK
<1> QED
  BY <1>2 DEF DecisionStep, Accepts

\* A transaction that sets the status of one invite, and that is no acceptance.
LEMMA AnswerDecides ==
  ASSUME IInv, NEW i \in InviteIds, invite[i] # NoRow, NEW s \in {"rejected", "cancelled"},
         invite' = Answered(i, s), UNCHANGED playerClub,
         s = "rejected" => <<"rejected", i>> \in audit'
  PROVE  DecisionStep
<1>1. s \in Status
  BY DEF Status
<1>2. /\ invite'[i] = [invite[i] EXCEPT !.status = s]
      /\ \A j \in InviteIds : j # i => invite'[j] = invite[j]
  BY <1>1, AnsweredTyped DEF IInv
<1>3. invite'[i].status = s
  BY <1>2 DEF IInv, TypeOK, Invite
<1> QED
  BY <1>2, <1>3 DEF DecisionStep, Accepts

\* A step that neither touches invites nor brings a player into a club.
LEMMA OthersDecideNothing ==
  ASSUME UNCHANGED invite, \A p \in Players : playerClub'[p] \in {playerClub[p], NoClub}
  PROVE  DecisionStep
  BY DEF DecisionStep, Accepts

LEMMA StepDecides == IInv /\ [Next]_vars => DecisionStep
<1> SUFFICES ASSUME IInv, [Next]_vars PROVE DecisionStep
  OBVIOUS
<1>1. CASE UserStep \/ SeasonLockChanges \/ UNCHANGED vars
  BY <1>1, OthersDecideNothing DEF UserStep, AnyRequest, BeginMe, SeasonLockChanges, vars
<1>2. ASSUME NEW t \in Threads, InviteStep(t) PROVE DecisionStep
  <2>1. ASSUME NEW i \in InviteIds, CommitInvite(t, i) PROVE DecisionStep
    <3>1. /\ invite'[i].status = "pending" /\ UNCHANGED playerClub
          /\ \A j \in InviteIds : j # i => invite'[j] = invite[j]
      BY <2>1 DEF CommitInvite, IInv, TypeOK
    <3> QED
      BY <3>1 DEF DecisionStep, Accepts
  <2>2. CASE CommitCancel(t)
    <3>1. txn[t].invite \in InviteIds /\ invite[txn[t].invite] # NoRow
      BY <2>2, TxnFields DEF CommitCancel, Running, IInv, LoadedInvitesExist, Decides
    <3> QED
      BY <2>2, <3>1, AnswerDecides DEF CommitCancel
  <2>3. CASE \/ \E c \in Clubs, p \in Players : BeginInvite(t, c, p)
             \/ \E i \in InviteIds : BeginCancel(t, i)
    BY <2>3, OthersDecideNothing DEF BeginInvite, BeginCancel
  <2> QED
    BY <1>2, <2>1, <2>2, <2>3 DEF InviteStep
<1>3. ASSUME NEW t \in Threads, DecideStep(t) PROVE DecisionStep
  <2>1. CASE \E i \in InviteIds, d \in {"accept", "reject"} : BeginDecide(t, i, d)
    BY <2>1, OthersDecideNothing DEF BeginDecide
  <2>2. CASE CommitAcceptTooLate(t) \/ CommitReject(t)
    <3>1. txn[t].invite \in InviteIds /\ invite[txn[t].invite] # NoRow
      BY <2>2, TxnFields DEF CommitAcceptTooLate, CommitReject, Running, IInv,
         LoadedInvitesExist, Decides
    <3> QED
      BY <2>2, <3>1, AnswerDecides DEF CommitAcceptTooLate, CommitReject, Audit
  <2> QED
    BY <1>3, <2>1, <2>2, AcceptDecides DEF DecideStep
<1>4. ASSUME NEW t \in Threads, ReleaseStep(t) \/ CommitMe(t) \/ Rollback(t) PROVE DecisionStep
  <2>1. UNCHANGED invite
    BY <1>4 DEF ReleaseStep, BeginRelease, CommitReleasePlayer, CommitCreateRelease, CommitMe,
       Rollback
  <2>2. \A p \in Players : playerClub'[p] \in {playerClub[p], NoClub}
    BY <1>4 DEF ReleaseStep, BeginRelease, CommitReleasePlayer, CommitCreateRelease, CommitMe,
       Rollback, IInv, TypeOK
  <2> QED
    BY <2>1, <2>2, OthersDecideNothing
<1>5. ASSUME NEW t \in Threads, AssignStep(t) PROVE DecisionStep
  <2>1. CASE TellCognito(t) \/ \E c \in Clubs, p \in Players : BeginAssign(t, c, p)
    BY <2>1, OthersDecideNothing DEF TellCognito, BeginAssign
  <2> QED
    BY <1>5, <2>1, AssignDecides DEF AssignStep
<1> QED
  BY <1>1, <1>2, <1>3, <1>4, <1>5 DEF Next

\* Whatever other requests read or overwrite meanwhile, and wherever they are rolled back, a
\* player joins a club in the step that accepts an invite of that club and writes the audit row of
\* the answer (decide_invite), or in the one that makes the player its admin (assign_role), and in
\* no other.
THEOREM AnswersAreWhole == Spec => DecisionsAreWhole
<1>1. IInv /\ [Next]_vars => [DecisionStep]_vars
  BY StepDecides
<1> QED
  BY <1>1, Invariance, PTL DEF Spec, DecisionsAreWhole

-----------------------------------------------------------------------------
(* Requests about the same player *)

\* The player has no pending invites but the one that is answered and those it withdraws.
FindsAll(t) == \A j \in InviteIds : IsPending(j) /\ invite[j].player = PlayerOf(t)
                                      => j = txn[t].invite \/ j \in txn[t].others

\* What a handler found when it began is still true, unless the player was raced about.
FoundStillHolds(t) ==
  /\ Works(t, {"invite"}) =>
       /\ Unraced("invited twice", PlayerOf(t)) => ~HasPendingInvite(PlayerOf(t), ClubBehind(t))
       /\ Unraced("invited while joining", PlayerOf(t)) => Free(PlayerOf(t))
  /\ Answers(t) /\ Unraced("answered twice", PlayerOf(t)) =>
       /\ IsPending(txn[t].invite)
       /\ \A j \in Others(t) : IsPending(j)
  /\ Works(t, {"accept"}) /\ Joins(t) /\ Unraced("invited while joining", PlayerOf(t))
     => FindsAll(t)
  /\ \/ Joins(t) /\ Unraced("joins twice", PlayerOf(t))
     \/ Releases(t) /\ Unraced("released while joining", PlayerOf(t))
     => playerClub[PlayerOf(t)] \in {NoClub, ClubBehind(t)}

\* Invites that are stranded stay on record.
Stranding == \A i \in InviteIds : StaysStranded(i) => i \in stranded'

RaceInv == /\ Racing \subseteq races
           /\ InvitesUnlessRaced
           /\ \A t \in Threads : FoundStillHolds(t)

\* What a step may do to memberships and answers, unless requests about the player raced.
Moves == \A p \in Players : /\ Unraced("joins twice", p) => MoveStep(p)
                            /\ Unraced("released while joining", p) => ReleaseByOwnClubStep(p)
                            /\ Unraced("answered twice", p) => AnswerStandsStep(p)

LEMMA RaceInvInit == MCInit => RaceInv
<1> SUFFICES ASSUME MCInit PROVE RaceInv
  OBVIOUS
<1>1. \A t \in Threads : txn[t] = NoTxn
  BY DEF MCInit, Init
<1>2. Racing = {}
  BY <1>1 DEF Racing
<1>3. InvitesUnlessRaced
  BY DEF MCInit, Init, InvitesUnlessRaced, OnePendingInvite, PendingOnlyIfFree, IsPending
<1> QED
  BY <1>1, <1>2, <1>3 DEF RaceInv, FoundStillHolds, Works, Answers, Releases, Joins

\* The player and the club of a request in progress.
LEMMA AboutTyped ==
  ASSUME IInv, NEW t \in Threads, txn[t] # NoTxn
  PROVE  PlayerOf(t) \in Players /\ ClubBehind(t) \in Clubs \cup {NoClub}
<1>1. CASE Answers(t)
  <2>1. txn[t].invite \in InviteIds /\ invite[txn[t].invite] # NoRow
    BY <1>1, TxnFields DEF Answers, Works, IInv, LoadedInvitesExist, Decides
  <2> QED
    BY <1>1, <2>1 DEF PlayerOf, ClubBehind, Invitation, IInv, TypeOK, Invite
<1>2. CASE ~Answers(t)
  BY <1>2, TxnFields DEF PlayerOf, ClubBehind, Answers, Works, IInv, TypeOK, TxnType
<1> QED
  BY <1>1, <1>2

\* Requests in progress about a player of whom a race is not recorded are not in that race.
LEMMA NoRace ==
  ASSUME IInv, RaceInv, NEW t \in Threads, NEW u \in Threads, t # u,
         txn[t] # NoTxn, txn[u] # NoTxn, PlayerOf(t) = PlayerOf(u)
  PROVE  /\ Unraced("invited twice", PlayerOf(t)) => ~InvitedTwice(t, u)
         /\ Unraced("invited while joining", PlayerOf(t)) => ~InvitedWhileJoining(t, u)
         /\ Unraced("joins twice", PlayerOf(t)) => ~JoinsTwice(t, u)
         /\ Unraced("released while joining", PlayerOf(t)) => ~ReleasedWhileJoining(t, u)
         /\ Unraced("answered twice", PlayerOf(t)) => ~AnsweredTwice(t, u)
<1>1. PlayerOf(t) \in Players
  BY AboutTyped
<1>2. ASSUME NEW kind \in Kinds, Race(kind, t, u) PROVE ~Unraced(kind, PlayerOf(t))
  <2>1. <<kind, PlayerOf(t)>> \in Racing
    BY <1>1, <1>2 DEF Racing
  <2> QED
    BY <2>1 DEF RaceInv, Unraced
<1>3. /\ Race("invited twice", t, u) <=> InvitedTwice(t, u)
      /\ Race("invited while joining", t, u) <=> InvitedWhileJoining(t, u)
      /\ Race("joins twice", t, u) <=> JoinsTwice(t, u)
      /\ Race("released while joining", t, u) <=> ReleasedWhileJoining(t, u)
      /\ Race("answered twice", t, u) <=> AnsweredTwice(t, u)
  BY DEF Race
<1>4. /\ "invited twice" \in Kinds /\ "invited while joining" \in Kinds
      /\ "joins twice" \in Kinds /\ "released while joining" \in Kinds
      /\ "answered twice" \in Kinds
  BY DEF Kinds
<1> QED
  BY <1>2, <1>3, <1>4

\* A request that goes on finds what it found, if the step that another one takes lets it.
LEMMA GoesOn ==
  ASSUME IInv, NEW u \in Threads, FoundStillHolds(u), RowsStand, races \subseteq races',
         txn'[u] = txn[u], txn[u] # NoTxn,
         Works(u, {"invite"}) =>
           /\ /\ Unraced("invited twice", PlayerOf(u))
              /\ HasPendingInvite(PlayerOf(u), ClubBehind(u))'
              => HasPendingInvite(PlayerOf(u), ClubBehind(u))
           /\ Unraced("invited while joining", PlayerOf(u)) /\ Free(PlayerOf(u))
              => playerClub'[PlayerOf(u)] = NoClub,
         Answers(u) /\ Unraced("answered twice", PlayerOf(u)) =>
           \A j \in {txn[u].invite} \cup Others(u) : IsPending(j) => invite'[j] = invite[j],
         Works(u, {"accept"}) /\ Joins(u) /\ Unraced("invited while joining", PlayerOf(u)) =>
           \A j \in InviteIds : IsPending(j)' /\ invite'[j].player = PlayerOf(u)
                                 => IsPending(j) /\ invite[j].player = PlayerOf(u),
         \/ Joins(u) /\ Unraced("joins twice", PlayerOf(u))
         \/ Releases(u) /\ Unraced("released while joining", PlayerOf(u))
         => playerClub'[PlayerOf(u)] \in {playerClub[PlayerOf(u)], NoClub, ClubBehind(u)}
  PROVE  FoundStillHolds(u)'
<1>1. /\ Works(u, {"invite"})' <=> Works(u, {"invite"})
      /\ Works(u, {"accept"})' <=> Works(u, {"accept"})
      /\ Answers(u)' <=> Answers(u)
      /\ Releases(u)' <=> Releases(u)
      /\ Joins(u)' <=> Joins(u)
      /\ Others(u)' = Others(u)
  BY DEF Works, Answers, Releases, Joins, Others
<1>2. PlayerOf(u)' = PlayerOf(u) /\ ClubBehind(u)' = ClubBehind(u)
  <2>1. Answers(u) => txn[u].invite \in InviteIds /\ invite[txn[u].invite] # NoRow
    BY TxnFields DEF Answers, Works, IInv, LoadedInvitesExist, Decides
  <2> QED
    BY <1>1, <2>1 DEF PlayerOf, ClubBehind, Invitation, RowsStand
<1>3. \A kind \in Kinds : Unraced(kind, PlayerOf(u))' => Unraced(kind, PlayerOf(u))
  BY <1>2 DEF Unraced
<1>4. /\ "invited twice" \in Kinds /\ "invited while joining" \in Kinds
      /\ "joins twice" \in Kinds /\ "released while joining" \in Kinds
      /\ "answered twice" \in Kinds
  BY DEF Kinds
<1>5. Works(u, {"invite"})' =>
        /\ Unraced("invited twice", PlayerOf(u))'
             => ~HasPendingInvite(PlayerOf(u), ClubBehind(u))'
        /\ Unraced("invited while joining", PlayerOf(u))' => Free(PlayerOf(u))'
  BY <1>1, <1>2, <1>3, <1>4 DEF FoundStillHolds, Free
<1>6. Answers(u)' /\ Unraced("answered twice", PlayerOf(u))' =>
        IsPending(txn[u].invite)' /\ \A j \in Others(u)' : IsPending(j)'
  BY <1>1, <1>3, <1>4 DEF FoundStillHolds, IsPending
<1>7. Works(u, {"accept"})' /\ Joins(u)' /\ Unraced("invited while joining", PlayerOf(u))'
      => FindsAll(u)'
  <2> SUFFICES ASSUME Works(u, {"accept"}), Joins(u), Unraced("invited while joining", PlayerOf(u))
               PROVE  FindsAll(u)'
    BY <1>1, <1>3, <1>4
  <2> SUFFICES ASSUME NEW j \in InviteIds, IsPending(j)', invite'[j].player = PlayerOf(u)
               PROVE  j = txn[u].invite \/ j \in txn[u].others
    BY <1>2 DEF FindsAll, IsPending, PlayerOf, Invitation, Answers, Works
  <2> QED
    BY DEF FoundStillHolds, FindsAll
<1>8. \/ Joins(u)' /\ Unraced("joins twice", PlayerOf(u))'
      \/ Releases(u)' /\ Unraced("released while joining", PlayerOf(u))'
      => playerClub'[PlayerOf(u)'] \in {NoClub, ClubBehind(u)'}
  BY <1>1, <1>2, <1>3, <1>4 DEF FoundStillHolds
<1> QED
  BY <1>5, <1>6, <1>7, <1>8 DEF FoundStillHolds

\* The request in thread t ends: the others go on, and t is in no step but its own.
LEMMA AfterEnd ==
  ASSUME IInv, NEW t \in Threads, txn[t] # NoTxn, End(t),
         \A u \in Threads \ {t} : txn[u] # NoTxn => FoundStillHolds(u)'
  PROVE  /\ \A u \in Threads : FoundStillHolds(u)'
         /\ \A u \in Threads : txn[u] # NoTxn /\ txn'[u] = NoTxn => u = t
<1>1. txn'[t] = NoTxn /\ \A u \in Threads \ {t} : txn'[u] = txn[u]
  BY DEF End, IInv, TypeOK
<1>2. \A u \in Threads : txn'[u] = NoTxn => FoundStillHolds(u)'
  BY DEF FoundStillHolds, Works, Answers, Releases, Joins
<1> QED
  BY <1>1, <1>2

\* An invite that stays pending while its player stays where he is: whether it has to be to a free
\* player does not change.
LEMMA StrandedStays ==
  ASSUME Stranding, NEW p \in Players, PendingOnlyIfFree(p, InviteIds \ stranded),
         NEW i \in InviteIds \ stranded', IsPending(i)', invite'[i].player = p,
         IsPending(i), invite[i].player = p, playerClub'[p] = playerClub[p]
  PROVE  playerClub'[p] = NoClub
  BY DEF Stranding, StaysStranded, PendingOnlyIfFree, IsPending

\* Nobody moves and no invite changes; a request may begin, if its guards hold, or end.
LEMMA QuietKeeps ==
  ASSUME IInv, RaceInv, races \subseteq races', Stranding, UNCHANGED <<playerClub, invite>>,
         \A u \in Threads : txn'[u] = txn[u] \/ txn'[u] = NoTxn \/ FoundStillHolds(u)'
  PROVE  InvitesUnlessRaced' /\ (\A u \in Threads : FoundStillHolds(u)') /\ Moves
<1>1. ASSUME NEW u \in Threads PROVE FoundStillHolds(u)'
  <2>1. CASE txn'[u] = NoTxn
    BY <2>1 DEF FoundStillHolds, Works, Answers, Releases, Joins
  <2>2. CASE txn'[u] = txn[u] /\ txn[u] # NoTxn
    <3>1. RowsStand
      BY DEF RowsStand
    <3>2. HasPendingInvite(PlayerOf(u), ClubBehind(u))' => HasPendingInvite(PlayerOf(u), ClubBehind(u))
      BY <2>2 DEF HasPendingInvite, IsPending, PlayerOf, ClubBehind, Invitation, Answers, Works
    <3>3. FoundStillHolds(u)
      BY DEF RaceInv
    <3>4. \A j \in InviteIds : IsPending(j)' => IsPending(j)
      BY DEF IsPending
    <3> QED
      BY <2>2, <3>1, <3>2, <3>3, <3>4, GoesOn DEF Free
  <2> QED
    BY <1>1, <2>1, <2>2
<1>2. InvitesUnlessRaced'
  <2>1. ASSUME NEW p \in Players, Unraced("invited twice", p)' PROVE OnePendingInvite(p)'
    BY <2>1 DEF RaceInv, InvitesUnlessRaced, OnePendingInvite, IsPending, Unraced
  <2>2. ASSUME NEW p \in Players, Unraced("invited while joining", p)'
        PROVE  PendingOnlyIfFree(p, InviteIds \ stranded)'
    <3>1. PendingOnlyIfFree(p, InviteIds \ stranded)
      BY <2>2 DEF RaceInv, InvitesUnlessRaced, Unraced
    <3>2. \A j \in InviteIds : IsPending(j)' => IsPending(j) /\ invite'[j].player = invite[j].player
      BY DEF IsPending
    <3>3. playerClub'[p] = playerClub[p]
      OBVIOUS
    <3> QED
      BY <3>1, <3>2, <3>3, StrandedStays DEF PendingOnlyIfFree
  <2> QED
    BY <2>1, <2>2 DEF InvitesUnlessRaced
<1>3. Moves
  BY DEF Moves, MoveStep, ReleaseByOwnClubStep, AnswerStandsStep
<1> QED
  BY <1>1, <1>2, <1>3

\* A request begins in the state in which its guards hold.
LEMMA BeginFinds ==
  ASSUME IInv, NEW t \in Threads,
         \/ \E p \in Players : BeginMe(t, p)
         \/ \E c \in Clubs, p \in Players : BeginInvite(t, c, p)
         \/ \E i \in InviteIds : BeginCancel(t, i)
         \/ \E i \in InviteIds, d \in {"accept", "reject"} : BeginDecide(t, i, d)
         \/ \E op \in {"release_player", "create_release"}, c \in Clubs, p \in Players :
              BeginRelease(t, op, c, p)
         \/ \E c \in Clubs, p \in Players : BeginAssign(t, c, p)
  PROVE  /\ UNCHANGED <<playerClub, invite>>
         /\ FoundStillHolds(t)' /\ \A u \in Threads \ {t} : txn'[u] = txn[u]
<1> USE DEF IInv, TypeOK, FoundStillHolds, Works, Answers, Releases, PlayerOf, ClubBehind,
            Invitation, Load, Joins, Others
<1>1. ASSUME NEW p \in Players, BeginMe(t, p)
      PROVE  /\ UNCHANGED <<playerClub, invite>>
             /\ FoundStillHolds(t)' /\ \A u \in Threads \ {t} : txn'[u] = txn[u]
  BY <1>1 DEF BeginMe
<1>2. ASSUME NEW c \in Clubs, NEW p \in Players, BeginInvite(t, c, p)
      PROVE  /\ UNCHANGED <<playerClub, invite>>
             /\ FoundStillHolds(t)' /\ \A u \in Threads \ {t} : txn'[u] = txn[u]
  BY <1>2 DEF BeginInvite, Free, HasPendingInvite, IsPending
<1>3. ASSUME NEW i \in InviteIds, BeginCancel(t, i)
      PROVE  /\ UNCHANGED <<playerClub, invite>>
             /\ FoundStillHolds(t)' /\ \A u \in Threads \ {t} : txn'[u] = txn[u]
  BY <1>3 DEF BeginCancel, IsPending
<1>4. ASSUME NEW i \in InviteIds, NEW d \in {"accept", "reject"}, BeginDecide(t, i, d)
      PROVE  /\ UNCHANGED <<playerClub, invite>>
             /\ FoundStillHolds(t)' /\ \A u \in Threads \ {t} : txn'[u] = txn[u]
  BY <1>4 DEF BeginDecide, IsPending, Free, OtherPending, FindsAll
<1>5. ASSUME NEW op \in {"release_player", "create_release"}, NEW c \in Clubs, NEW p \in Players,
             BeginRelease(t, op, c, p)
      PROVE  /\ UNCHANGED <<playerClub, invite>>
             /\ FoundStillHolds(t)' /\ \A u \in Threads \ {t} : txn'[u] = txn[u]
  BY <1>5 DEF BeginRelease, BelongsTo
<1>6. ASSUME NEW c \in Clubs, NEW p \in Players, BeginAssign(t, c, p)
      PROVE  /\ UNCHANGED <<playerClub, invite>>
             /\ FoundStillHolds(t)' /\ \A u \in Threads \ {t} : txn'[u] = txn[u]
  BY <1>6 DEF BeginAssign, Free
<1> QED
  BY <1>1, <1>2, <1>3, <1>4, <1>5, <1>6

\* A request that has told Cognito relies on what it relied on before.
LEMMA TellFinds ==
  ASSUME IInv, RaceInv, races \subseteq races', NEW t \in Threads, TellCognito(t)
  PROVE  /\ UNCHANGED <<playerClub, invite>>
         /\ FoundStillHolds(t)' /\ \A u \in Threads \ {t} : txn'[u] = txn[u]
<1>1. /\ txn[t].op = "assign" /\ txn[t] # NoTxn
      /\ UNCHANGED <<playerClub, invite>> /\ \A u \in Threads \ {t} : txn'[u] = txn[u]
  BY DEF TellCognito, Running, IInv, TypeOK
<1>2. txn[t] \in [op : {"assign"}, player : Players, club : Clubs, free : BOOLEAN, told : BOOLEAN]
  BY <1>1 DEF IInv, TypeOK, TxnType
<1>3. txn'[t] = [txn[t] EXCEPT !.told = TRUE]
  BY DEF TellCognito, IInv, TypeOK
<1>4. /\ txn'[t].op = "assign" /\ txn'[t].player = txn[t].player
      /\ txn'[t].club = txn[t].club /\ txn'[t].free = txn[t].free
  BY <1>2, <1>3
<1>5. FoundStillHolds(t)
  BY DEF RaceInv
<1> QED
  BY <1>1, <1>4, <1>5 DEF FoundStillHolds, Works, Answers, Releases, Joins, PlayerOf, ClubBehind,
     Unraced

\* An invite that is new, of a free player whom the club has not invited.
LEMMA InviteKeeps ==
  ASSUME IInv, RaceInv, races \subseteq races', Stranding,
         NEW t \in Threads, NEW i \in InviteIds, CommitInvite(t, i)
  PROVE  InvitesUnlessRaced' /\ (\A u \in Threads : FoundStillHolds(u)') /\ Moves
<1> DEFINE p == txn[t].player
           c == txn[t].club
<1>1. /\ Works(t, {"invite"}) /\ ~Answers(t) /\ txn[t] # NoTxn /\ End(t) /\ UNCHANGED playerClub
      /\ PlayerOf(t) = p /\ ClubBehind(t) = c /\ p \in Players /\ c \in Clubs
  BY TxnFields DEF CommitInvite, Running, Works, Answers, PlayerOf, ClubBehind, IInv
<1>2. /\ invite[i] = NoRow /\ invite'[i] = [player |-> p, club |-> c, status |-> "pending"]
      /\ \A j \in InviteIds : j # i => invite'[j] = invite[j]
  BY DEF CommitInvite, IInv, TypeOK
<1>3. FoundStillHolds(t)
  BY DEF RaceInv
<1>4. ASSUME NEW u \in Threads, u # t, txn[u] # NoTxn PROVE FoundStillHolds(u)'
  <2>1. RowsStand /\ txn'[u] = txn[u] /\ FoundStillHolds(u)
    BY <1>1, <1>2, <1>4 DEF RowsStand, End, RaceInv, IInv, TypeOK
  <2>2. ASSUME Works(u, {"invite"}), Unraced("invited twice", PlayerOf(u)),
               HasPendingInvite(PlayerOf(u), ClubBehind(u))'
        PROVE  HasPendingInvite(PlayerOf(u), ClubBehind(u))
    <3>1. ~(PlayerOf(u) = p /\ ClubBehind(u) = c)
      BY <1>1, <1>4, <2>2, NoRace DEF InvitedTwice
    <3>2. PlayerOf(u)' = PlayerOf(u) /\ ClubBehind(u)' = ClubBehind(u)
      BY <2>1, <2>2 DEF PlayerOf, ClubBehind, Answers, Works
    <3>3. PICK j \in InviteIds : /\ IsPending(j)'
                                 /\ invite'[j].player = PlayerOf(u) /\ invite'[j].club = ClubBehind(u)
      BY <2>2, <3>2 DEF HasPendingInvite
    <3>4. j # i
      BY <1>2, <3>1, <3>3
    <3> QED
      BY <1>2, <3>3, <3>4 DEF HasPendingInvite, IsPending
  <2>3. Answers(u) => \A j \in {txn[u].invite} \cup Others(u) : invite'[j] = invite[j]
    BY <1>2, TxnFields DEF Answers, Works, IInv, LoadedInvitesExist, Decides
  <2>4. ASSUME Joins(u), Unraced("invited while joining", PlayerOf(u)),
               NEW j \in InviteIds, IsPending(j)', invite'[j].player = PlayerOf(u)
        PROVE  IsPending(j) /\ invite[j].player = PlayerOf(u)
    <3>1. PlayerOf(u) # p
      BY <1>1, <1>4, <2>4, NoRace DEF InvitedWhileJoining
    <3>2. j # i
      <4>1. invite'[i].player = p
        BY <1>2
      <4> QED
        BY <2>4, <3>1, <4>1
    <3> QED
      BY <1>2, <2>4, <3>2 DEF IsPending
  <2> QED
    BY <1>1, <1>4, <2>1, <2>2, <2>3, <2>4, GoesOn DEF Free
<1>5. ASSUME NEW q \in Players, Unraced("invited twice", q)' PROVE OnePendingInvite(q)'
  <2>1. OnePendingInvite(q) /\ (q = p => ~HasPendingInvite(p, c))
    BY <1>1, <1>3, <1>5 DEF RaceInv, InvitesUnlessRaced, FoundStillHolds, Unraced
  <2> QED
    BY <1>2, <2>1 DEF OnePendingInvite, HasPendingInvite, IsPending
<1>6. ASSUME NEW q \in Players, Unraced("invited while joining", q)'
      PROVE  PendingOnlyIfFree(q, InviteIds \ stranded)'
  <2>1. PendingOnlyIfFree(q, InviteIds \ stranded) /\ (q = p => Free(p))
    BY <1>1, <1>3, <1>6 DEF RaceInv, InvitesUnlessRaced, FoundStillHolds, Unraced
  <2>2. ASSUME NEW j \in InviteIds \ stranded', IsPending(j)', invite'[j].player = q
        PROVE  playerClub'[q] = NoClub
    <3>1. CASE j = i
      BY <1>1, <1>2, <2>1, <2>2, <3>1 DEF Free
    <3>2. CASE j # i
      <4>1. IsPending(j) /\ invite[j].player = q
        BY <1>2, <2>2, <3>2 DEF IsPending
      <4> QED
        BY <1>1, <2>1, <2>2, <4>1, StrandedStays
    <3> QED
      BY <3>1, <3>2
  <2> QED
    BY <2>2 DEF PendingOnlyIfFree
<1>7. Moves
  BY <1>1, <1>2 DEF Moves, MoveStep, ReleaseByOwnClubStep, AnswerStandsStep
<1> QED
  BY <1>1, <1>4, <1>5, <1>6, <1>7, AfterEnd DEF InvitesUnlessRaced

\* An invite that is answered by a request which leaves the player where he is.
LEMMA AnswerKeeps ==
  ASSUME IInv, RaceInv, races \subseteq races', Stranding, NEW t \in Threads, Answers(t),
         NEW s \in {"rejected", "cancelled"}, invite' = Answered(txn[t].invite, s), End(t),
         UNCHANGED playerClub
  PROVE  InvitesUnlessRaced' /\ (\A u \in Threads : FoundStillHolds(u)') /\ Moves
<1> DEFINE i == txn[t].invite
<1>1. i \in InviteIds /\ invite[i] \in Invite /\ invite[i] # NoRow /\ txn[t] # NoTxn
  BY TxnFields DEF Answers, Works, IInv, TypeOK, LoadedInvitesExist, Decides
<1>2. /\ invite'[i] = [invite[i] EXCEPT !.status = s]
      /\ \A j \in InviteIds : j # i => invite'[j] = invite[j]
  <2>1. s \in Status
    BY DEF Status
  <2> QED
    BY <1>1, <2>1, AnsweredTyped DEF IInv
<1>3. invite'[i] \in Invite /\ invite'[i].status = s /\ s # "pending"
  BY <1>1, <1>2 DEF Invite, Status
<1>4. RowsStand
  BY <1>1, <1>2, <1>3, NullAssumption DEF RowsStand, Invite
<1>5. \A j \in InviteIds : IsPending(j)' => IsPending(j) /\ invite'[j] = invite[j]
  BY <1>2, <1>3 DEF IsPending
<1>6. ASSUME NEW u \in Threads, u # t, txn[u] # NoTxn PROVE FoundStillHolds(u)'
  <2>1. txn'[u] = txn[u] /\ FoundStillHolds(u)
    BY <1>6 DEF End, RaceInv, IInv, TypeOK
  <2>2. Works(u, {"invite"}) => PlayerOf(u)' = PlayerOf(u) /\ ClubBehind(u)' = ClubBehind(u)
    BY <2>1 DEF PlayerOf, ClubBehind, Answers, Works
  <2>3. Works(u, {"invite"}) /\ HasPendingInvite(PlayerOf(u), ClubBehind(u))'
          => HasPendingInvite(PlayerOf(u), ClubBehind(u))
    BY <1>5, <2>2 DEF HasPendingInvite
  <2>4. ASSUME Answers(u), Unraced("answered twice", PlayerOf(u))
        PROVE  \A j \in {txn[u].invite} \cup Others(u) : invite'[j] = invite[j]
    <3>1. txn[u].invite \in InviteIds
      BY <2>4, TxnFields DEF Answers, Works, IInv
    <3>2. txn[u].invite # i
      BY <1>1, <1>6, <2>4, NoRace DEF AnsweredTwice, PlayerOf, Invitation
    <3>3. ASSUME NEW j \in Others(u) PROVE j \in InviteIds /\ j # i
      <4>1. /\ j \in InviteIds /\ invite[j].player = PlayerOf(u) /\ Joins(u)
        BY <2>4, <3>3 DEF IInv, LoadedInvitesExist, Decides, Answers, Works, Others, Joins,
           PlayerOf, Invitation
      <4>2. j # i
        BY <1>1, <1>6, <2>4, <4>1, NoRace DEF AnsweredTwice, PlayerOf, Invitation
      <4> QED
        BY <4>1, <4>2
    <3> QED
      BY <1>2, <3>1, <3>2, <3>3
  <2> QED
    BY <1>4, <1>5, <1>6, <2>1, <2>3, <2>4, GoesOn DEF Free
<1>7. InvitesUnlessRaced'
  <2>1. ASSUME NEW p \in Players, Unraced("invited twice", p) PROVE OnePendingInvite(p)'
    <3>1. OnePendingInvite(p)
      BY <2>1 DEF RaceInv, InvitesUnlessRaced
    <3> QED
      BY <1>5, <3>1 DEF OnePendingInvite
  <2>2. ASSUME NEW p \in Players, Unraced("invited while joining", p)
        PROVE  PendingOnlyIfFree(p, InviteIds \ stranded)'
    <3>1. PendingOnlyIfFree(p, InviteIds \ stranded)
      BY <2>2 DEF RaceInv, InvitesUnlessRaced
    <3> QED
      BY <1>5, <3>1, StrandedStays DEF PendingOnlyIfFree
  <2> QED
    BY <2>1, <2>2 DEF InvitesUnlessRaced, Unraced
<1>8. ASSUME NEW q \in Players, Unraced("answered twice", q) PROVE AnswerStandsStep(q)
  <2>1. invite[i].player = q => IsPending(i)
    BY <1>8 DEF RaceInv, FoundStillHolds, PlayerOf, Invitation
  <2> QED
    BY <1>2, <2>1 DEF AnswerStandsStep, IsPending
<1>9. Moves
  BY <1>8 DEF Moves, MoveStep, ReleaseByOwnClubStep
<1> QED
  BY <1>1, <1>6, <1>7, <1>9, AfterEnd

\* A free player accepts: of the player's invites, those that the request had found are withdrawn.
LEMMA AcceptKeeps ==
  ASSUME IInv, RaceInv, races \subseteq races', Stranding, NEW t \in Threads, CommitAccept(t)
  PROVE  InvitesUnlessRaced' /\ (\A u \in Threads : FoundStillHolds(u)') /\ Moves
<1> DEFINE i == txn[t].invite
           others == txn[t].others
           p == invite[i].player
           c == invite[i].club
<1>1. /\ txn[t] # NoTxn /\ Works(t, {"accept"}) /\ Joins(t) /\ Answers(t) /\ End(t)
      /\ PlayerOf(t) = p /\ ClubBehind(t) = c /\ Others(t) = others
  BY DEF CommitAccept, Running, Works, Joins, Answers, Others, PlayerOf, ClubBehind, Invitation
<1>2. /\ i \in InviteIds /\ invite[i] \in Invite /\ invite[i] # NoRow
      /\ invite'[i] = [invite[i] EXCEPT !.status = "accepted"]
      /\ \A j \in InviteIds \ {i} :
           invite'[j] = IF j \in others
                        THEN [invite[j] EXCEPT !.status = "cancelled"] ELSE invite[j]
      /\ playerClub' = [playerClub EXCEPT ![p] = c]
  BY AcceptedTyped, NullAssumption DEF CommitAccept
<1>3. p \in Players /\ c \in Clubs /\ invite'[i] \in Invite /\ invite'[i].status = "accepted"
  BY <1>2 DEF Invite, Status
<1>4. playerClub'[p] = c /\ \A q \in Players \ {p} : playerClub'[q] = playerClub[q]
  BY <1>2, <1>3 DEF IInv, TypeOK
<1>5. ASSUME NEW j \in others
      PROVE  /\ j \in InviteIds /\ j # i /\ invite[j].player = p
             /\ invite'[j].status = "cancelled"
  <2>1. j \in InviteIds /\ j # i /\ invite[j] \in Invite /\ invite[j].player = p
    BY AcceptedTyped
  <2>2. invite'[j] = [invite[j] EXCEPT !.status = "cancelled"]
    BY <1>2, <2>1
  <2> QED
    BY <2>1, <2>2 DEF Invite, Status
<1>6. RowsStand
  BY AcceptedTyped
<1>7. ASSUME NEW j \in InviteIds, IsPending(j)'
      PROVE  IsPending(j) /\ invite'[j] = invite[j] /\ j # i /\ j \notin others
  <2>1. j # i /\ j \notin others
    BY <1>3, <1>5, <1>7 DEF IsPending
  <2>2. invite'[j] = invite[j]
    BY <1>2, <2>1
  <2> QED
    BY <1>7, <2>1, <2>2 DEF IsPending
<1>8. ASSUME NEW u \in Threads, u # t, txn[u] # NoTxn PROVE FoundStillHolds(u)'
  <2>1. txn'[u] = txn[u] /\ FoundStillHolds(u) /\ PlayerOf(u) \in Players
    BY <1>1, <1>8, AboutTyped DEF End, RaceInv, IInv, TypeOK
  <2>2. Works(u, {"invite"}) => PlayerOf(u)' = PlayerOf(u) /\ ClubBehind(u)' = ClubBehind(u)
    BY <2>1 DEF PlayerOf, ClubBehind, Answers, Works
  <2>3. Works(u, {"invite"}) /\ HasPendingInvite(PlayerOf(u), ClubBehind(u))'
          => HasPendingInvite(PlayerOf(u), ClubBehind(u))
    BY <1>7, <2>2 DEF HasPendingInvite
  <2>4. ASSUME Works(u, {"invite"}), Unraced("invited while joining", PlayerOf(u))
        PROVE  playerClub'[PlayerOf(u)] = playerClub[PlayerOf(u)]
    <3>1. PlayerOf(u) # p
      BY <1>1, <1>8, <2>4, NoRace DEF InvitedWhileJoining
    <3> QED
      BY <1>4, <2>1, <3>1
  <2>5. ASSUME Answers(u), Unraced("answered twice", PlayerOf(u))
        PROVE  \A j \in {txn[u].invite} \cup Others(u) : invite'[j] = invite[j]
    <3>1. \A j \in {txn[u].invite} \cup Others(u) :
            j \in InviteIds /\ invite[j].player = PlayerOf(u)
      BY <2>5, TxnFields DEF Answers, Works, PlayerOf, Invitation, IInv, LoadedInvitesExist, Decides
    <3>2. PlayerOf(u) # p
      BY <1>1, <1>8, <2>5, NoRace DEF AnsweredTwice
    <3>3. \A j \in {txn[u].invite} \cup Others(u) : j # i /\ j \notin others
      BY <1>5, <3>1, <3>2
    <3> QED
      BY <1>2, <3>1, <3>3
  <2>6. ASSUME \/ Joins(u) /\ Unraced("joins twice", PlayerOf(u))
               \/ Releases(u) /\ Unraced("released while joining", PlayerOf(u))
        PROVE  playerClub'[PlayerOf(u)] \in {playerClub[PlayerOf(u)], ClubBehind(u)}
    <3>1. CASE PlayerOf(u) = p
      <4>1. ClubBehind(u) = c
        BY <1>1, <1>8, <2>6, <3>1, NoRace DEF JoinsTwice, ReleasedWhileJoining
      <4> QED
        BY <1>4, <3>1, <4>1
    <3>2. CASE PlayerOf(u) # p
      BY <1>4, <2>1, <3>2
    <3> QED
      BY <3>1, <3>2
  <2> QED
    BY <1>6, <1>7, <1>8, <2>1, <2>3, <2>4, <2>5, <2>6, GoesOn DEF Free
<1>9. InvitesUnlessRaced'
  <2>1. ASSUME NEW q \in Players, Unraced("invited twice", q)' PROVE OnePendingInvite(q)'
    <3>1. OnePendingInvite(q)
      BY <2>1 DEF RaceInv, InvitesUnlessRaced, Unraced
    <3> QED
      BY <1>7, <3>1 DEF OnePendingInvite
  <2>2. ASSUME NEW q \in Players, Unraced("invited while joining", q)'
        PROVE  PendingOnlyIfFree(q, InviteIds \ stranded)'
    <3>1. PendingOnlyIfFree(q, InviteIds \ stranded) /\ Unraced("invited while joining", q)
      BY <2>2 DEF RaceInv, InvitesUnlessRaced, Unraced
    <3>2. q = p => \A j \in InviteIds : IsPending(j) /\ invite[j].player = p
                                          => j = i \/ j \in others
      BY <1>1, <3>1 DEF RaceInv, FoundStillHolds, FindsAll
    <3>3. ASSUME NEW j \in InviteIds \ stranded', IsPending(j)', invite'[j].player = q
          PROVE  playerClub'[q] = NoClub
      <4>1. IsPending(j) /\ invite[j].player = q /\ q # p
        BY <1>7, <3>2, <3>3
      <4> QED
        BY <1>4, <3>1, <3>3, <4>1, StrandedStays
    <3> QED
      BY <3>3 DEF PendingOnlyIfFree
  <2> QED
    BY <2>1, <2>2 DEF InvitesUnlessRaced
<1>10. ASSUME NEW q \in Players, Unraced("joins twice", q) PROVE MoveStep(q)
  <2>1. q = p => playerClub[p] \in {NoClub, c}
    BY <1>1, <1>10 DEF RaceInv, FoundStillHolds
  <2> QED
    BY <1>4, <2>1 DEF MoveStep
<1>11. ASSUME NEW q \in Players PROVE ReleaseByOwnClubStep(q)
  <2>1. \A u \in Threads : Releases(u) /\ txn'[u] = NoTxn => u = t
    BY <1>1 DEF Releases, Works, End, IInv, TypeOK
  <2>2. ~Releases(t)
    BY <1>1 DEF Releases, Works
  <2> QED
    BY <2>1, <2>2 DEF ReleaseByOwnClubStep, Releases, Works
<1>12. ASSUME NEW q \in Players, Unraced("answered twice", q) PROVE AnswerStandsStep(q)
  <2>1. p = q => IsPending(i) /\ \A j \in others : IsPending(j)
    BY <1>1, <1>12 DEF RaceInv, FoundStillHolds
  <2>2. ASSUME NEW j \in InviteIds, invite[j] # NoRow, invite[j].status # "pending",
               invite[j].player = q
        PROVE  invite'[j] = invite[j]
    <3>1. j # i /\ j \notin others
      BY <1>5, <2>1, <2>2 DEF IsPending
    <3> QED
      BY <1>2, <3>1
  <2> QED
    BY <2>2 DEF AnswerStandsStep
<1> QED
  BY <1>1, <1>8, <1>9, <1>10, <1>11, <1>12, AfterEnd DEF Moves

\* A member leaves the club that asked for it.
LEMMA ReleaseKeeps ==
  ASSUME IInv, RaceInv, races \subseteq races', Stranding, NEW t \in Threads,
         CommitReleasePlayer(t) \/ \E r \in ReleaseIds : CommitCreateRelease(t, r)
  PROVE  InvitesUnlessRaced' /\ (\A u \in Threads : FoundStillHolds(u)') /\ Moves
<1> DEFINE p == txn[t].player
           c == txn[t].club
<1>1. /\ Works(t, {"release_player", "create_release"}) /\ txn[t] # NoTxn /\ End(t)
      /\ UNCHANGED invite /\ playerClub' = [playerClub EXCEPT ![p] = NoClub]
  BY DEF Works, CommitReleasePlayer, CommitCreateRelease, Running
<1>2. p \in Players /\ c \in Clubs /\ Releases(t) /\ PlayerOf(t) = p /\ ClubBehind(t) = c
  BY <1>1, TxnFields DEF Releases, Answers, Works, PlayerOf, ClubBehind, IInv
<1>3. playerClub'[p] = NoClub /\ \A q \in Players : playerClub'[q] \in {playerClub[q], NoClub}
  BY <1>1, <1>2 DEF IInv, TypeOK
<1>4. ASSUME NEW u \in Threads, u # t, txn[u] # NoTxn PROVE FoundStillHolds(u)'
  <2>1. /\ txn'[u] = txn[u] /\ FoundStillHolds(u) /\ PlayerOf(u) \in Players /\ RowsStand
    BY <1>1, <1>4, AboutTyped DEF End, RaceInv, IInv, TypeOK, RowsStand
  <2>2. PlayerOf(u)' = PlayerOf(u) /\ ClubBehind(u)' = ClubBehind(u)
    BY <1>1, <2>1 DEF PlayerOf, ClubBehind, Answers, Works, Invitation
  <2>3. HasPendingInvite(PlayerOf(u), ClubBehind(u))'
          => HasPendingInvite(PlayerOf(u), ClubBehind(u))
    BY <1>1, <2>2 DEF HasPendingInvite, IsPending
  <2>4. playerClub'[PlayerOf(u)] \in {playerClub[PlayerOf(u)], NoClub}
    BY <1>3, <2>1
  <2>5. \A j \in InviteIds : IsPending(j)' => IsPending(j)
    BY <1>1 DEF IsPending
  <2> QED
    BY <1>1, <1>4, <2>1, <2>3, <2>4, <2>5, GoesOn DEF Free
<1>5. InvitesUnlessRaced'
  <2>1. ASSUME NEW q \in Players, Unraced("invited twice", q)' PROVE OnePendingInvite(q)'
    BY <1>1, <2>1 DEF RaceInv, InvitesUnlessRaced, OnePendingInvite, IsPending, Unraced
  <2>2. ASSUME NEW q \in Players, Unraced("invited while joining", q)'
        PROVE  PendingOnlyIfFree(q, InviteIds \ stranded)'
    <3>1. PendingOnlyIfFree(q, InviteIds \ stranded)
      BY <2>2 DEF RaceInv, InvitesUnlessRaced, Unraced
    <3>2. \A j \in InviteIds : IsPending(j)' => IsPending(j) /\ invite'[j] = invite[j]
      BY <1>1 DEF IsPending
    <3> QED
      BY <1>3, <3>1, <3>2, StrandedStays DEF PendingOnlyIfFree
  <2> QED
    BY <2>1, <2>2 DEF InvitesUnlessRaced
<1>6. ASSUME NEW q \in Players, Unraced("released while joining", q) PROVE ReleaseByOwnClubStep(q)
  <2>1. \A u \in Threads : txn[u] # NoTxn /\ txn'[u] = NoTxn => u = t
    BY <1>1 DEF End, IInv, TypeOK
  <2>2. q = p => playerClub[p] \in {NoClub, c}
    BY <1>2, <1>6 DEF RaceInv, FoundStillHolds
  <2> QED
    BY <1>3, <2>1, <2>2 DEF ReleaseByOwnClubStep
<1>7. Moves
  BY <1>1, <1>3, <1>6 DEF Moves, MoveStep, AnswerStandsStep
<1> QED
  BY <1>1, <1>4, <1>5, <1>7, AfterEnd

\* An admin of a club who was free gets into it, and strands the player's pending invites.
LEMMA AssignKeeps ==
  ASSUME IInv, RaceInv, races \subseteq races', Stranding, NEW t \in Threads, CommitAssign(t)
  PROVE  InvitesUnlessRaced' /\ (\A u \in Threads : FoundStillHolds(u)') /\ Moves
<1> DEFINE p == txn[t].player
           c == txn[t].club
<1>1. /\ Works(t, {"assign"}) /\ txn[t] # NoTxn /\ End(t) /\ UNCHANGED invite
      /\ playerClub' = IF txn[t].free THEN [playerClub EXCEPT ![p] = c] ELSE playerClub
      /\ PlayerOf(t) = p /\ ClubBehind(t) = c /\ (Joins(t) <=> txn[t].free)
      /\ ~Releases(t) /\ p \in Players /\ c \in Clubs
  BY TxnFields DEF CommitAssign, Running, Works, Joins, Releases, Answers, PlayerOf, ClubBehind, IInv
<1>2. /\ \A q \in Players \ {p} : playerClub'[q] = playerClub[q]
      /\ Joins(t) => playerClub'[p] = c
      /\ ~Joins(t) => playerClub'[p] = playerClub[p]
  BY <1>1 DEF IInv, TypeOK
<1>3. txn'[t] = NoTxn /\ \A u \in Threads \ {t} : txn'[u] = txn[u]
  BY <1>1 DEF End, IInv, TypeOK
<1>4. \A j \in InviteIds : IsPending(j)' => IsPending(j) /\ invite'[j] = invite[j]
  BY <1>1 DEF IsPending
<1>5. ASSUME NEW u \in Threads, u # t, txn[u] # NoTxn PROVE FoundStillHolds(u)'
  <2>1. /\ txn'[u] = txn[u] /\ FoundStillHolds(u) /\ PlayerOf(u) \in Players /\ RowsStand
    BY <1>1, <1>3, <1>5, AboutTyped, SameRows DEF RaceInv
  <2>2. PlayerOf(u)' = PlayerOf(u) /\ ClubBehind(u)' = ClubBehind(u)
    BY <1>1, <2>1 DEF PlayerOf, ClubBehind, Answers, Works, Invitation
  <2>3. HasPendingInvite(PlayerOf(u), ClubBehind(u))'
          => HasPendingInvite(PlayerOf(u), ClubBehind(u))
    BY <1>1, <2>2 DEF HasPendingInvite, IsPending
  <2>4. ASSUME Works(u, {"invite"}), Unraced("invited while joining", PlayerOf(u))
        PROVE  playerClub'[PlayerOf(u)] = playerClub[PlayerOf(u)]
    <3>1. ~(PlayerOf(u) = p /\ Joins(t))
      BY <1>1, <1>5, <2>4, NoRace DEF InvitedWhileJoining
    <3> QED
      BY <1>2, <2>1, <3>1
  <2>5. ASSUME \/ Joins(u) /\ Unraced("joins twice", PlayerOf(u))
               \/ Releases(u) /\ Unraced("released while joining", PlayerOf(u))
        PROVE  playerClub'[PlayerOf(u)] \in {playerClub[PlayerOf(u)], ClubBehind(u)}
    <3>1. CASE PlayerOf(u) = p /\ Joins(t)
      <4>1. ClubBehind(u) = c
        BY <1>1, <1>5, <2>5, <3>1, NoRace DEF JoinsTwice, ReleasedWhileJoining
      <4> QED
        BY <1>2, <3>1, <4>1
    <3>2. CASE ~(PlayerOf(u) = p /\ Joins(t))
      BY <1>2, <2>1, <3>2
    <3> QED
      BY <3>1, <3>2
  <2> QED
    BY <1>1, <1>4, <1>5, <2>1, <2>3, <2>4, <2>5, GoesOn DEF Free
<1>6. InvitesUnlessRaced'
  <2>1. ASSUME NEW q \in Players, Unraced("invited twice", q)' PROVE OnePendingInvite(q)'
    BY <1>1, <2>1 DEF RaceInv, InvitesUnlessRaced, OnePendingInvite, IsPending, Unraced
  <2>2. ASSUME NEW q \in Players, Unraced("invited while joining", q)',
               NEW j \in InviteIds \ stranded', IsPending(j)', invite'[j].player = q
        PROVE  playerClub'[q] = NoClub
    <3>1. PendingOnlyIfFree(q, InviteIds \ stranded)
      BY <2>2 DEF RaceInv, InvitesUnlessRaced, Unraced
    <3>2. IsPending(j) /\ invite[j].player = q /\ invite[j] # NoRow
      BY <1>4, <2>2 DEF IsPending
    <3>3. playerClub'[q] = playerClub[q]
      <4>1. SUFFICES ASSUME playerClub'[q] # playerClub[q] PROVE FALSE
        OBVIOUS
      <4>2. AssignedNow(q)
        BY <1>1, <1>2, <1>3, <4>1 DEF AssignedNow
      <4> QED
        BY <2>2, <3>2, <4>2 DEF Stranding, StaysStranded
    <3> QED
      BY <2>2, <3>1, <3>2, <3>3, StrandedStays
  <2> QED
    BY <2>1, <2>2 DEF InvitesUnlessRaced, PendingOnlyIfFree
<1>7. ASSUME NEW q \in Players, Unraced("joins twice", q) PROVE MoveStep(q)
  <2>1. Joins(t) /\ q = p => playerClub[p] \in {NoClub, c}
    BY <1>1, <1>7 DEF RaceInv, FoundStillHolds
  <2> QED
    BY <1>2, <2>1 DEF MoveStep
<1>8. ASSUME NEW q \in Players PROVE ReleaseByOwnClubStep(q)
  BY <1>1, <1>3 DEF ReleaseByOwnClubStep, Releases, Works
<1>9. Moves
  BY <1>1, <1>7, <1>8 DEF Moves, AnswerStandsStep
<1> QED
  BY <1>1, <1>5, <1>6, <1>9, AfterEnd

\* A step, in which races that have been stay recorded.
LEMMA RaceStep ==
  ASSUME IInv, RaceInv, races \subseteq races', Stranding, Next
  PROVE  InvitesUnlessRaced' /\ (\A u \in Threads : FoundStillHolds(u)') /\ Moves
<1> DEFINE Kept == InvitesUnlessRaced' /\ (\A u \in Threads : FoundStillHolds(u)') /\ Moves
<1>1. CASE (\E p \in Players : AnyRequest(p)) \/ SeasonLockChanges
  BY <1>1, QuietKeeps DEF AnyRequest, SeasonLockChanges
<1>2. ASSUME NEW t \in Threads,
             \/ \E p \in Players : BeginMe(t, p)
             \/ \E c \in Clubs, p \in Players : BeginInvite(t, c, p)
             \/ \E i \in InviteIds : BeginCancel(t, i)
             \/ \E i \in InviteIds, d \in {"accept", "reject"} : BeginDecide(t, i, d)
             \/ \E op \in {"release_player", "create_release"}, c \in Clubs, p \in Players :
                  BeginRelease(t, op, c, p)
             \/ \E c \in Clubs, p \in Players : BeginAssign(t, c, p)
             \/ TellCognito(t)
      PROVE  Kept
  BY <1>2, BeginFinds, TellFinds, QuietKeeps
<1>3. ASSUME NEW t \in Threads, CommitMe(t) \/ Rollback(t) PROVE Kept
  <2>1. txn[t] # NoTxn /\ End(t) /\ UNCHANGED <<playerClub, invite>>
    BY <1>3 DEF CommitMe, Rollback, Running
  <2>2. \A u \in Threads : txn'[u] = txn[u] \/ txn'[u] = NoTxn
    BY <2>1 DEF End, IInv, TypeOK
  <2> QED
    BY <2>1, <2>2, QuietKeeps
<1>4. ASSUME NEW t \in Threads, CommitAcceptTooLate(t) \/ CommitReject(t) \/ CommitCancel(t)
      PROVE  Kept
  <2>1. Answers(t) /\ End(t) /\ UNCHANGED playerClub
    BY <1>4 DEF Answers, Works, CommitAcceptTooLate, CommitReject, CommitCancel, Running
  <2>2. \E s \in {"rejected", "cancelled"} : invite' = Answered(txn[t].invite, s)
    BY <1>4 DEF CommitAcceptTooLate, CommitReject, CommitCancel
  <2> QED
    BY <2>1, <2>2, AnswerKeeps
<1>5. ASSUME NEW t \in Threads,
             \/ CommitAccept(t) \/ CommitReleasePlayer(t) \/ CommitAssign(t)
             \/ \E i \in InviteIds : CommitInvite(t, i)
             \/ \E r \in ReleaseIds : CommitCreateRelease(t, r)
      PROVE  Kept
  BY <1>5, AcceptKeeps, ReleaseKeeps, InviteKeeps, AssignKeeps
<1> QED
  BY <1>1, <1>2, <1>3, <1>4, <1>5 DEF Next, UserStep, InviteStep, DecideStep, ReleaseStep,
     AssignStep

LEMMA RaceInvKeeps == IInv /\ RaceInv /\ [MCNext]_<<vars, history>> => RaceInv'
<1> SUFFICES ASSUME IInv, RaceInv, [MCNext]_<<vars, history>> PROVE RaceInv'
  OBVIOUS
<1>1. CASE MCNext
  BY <1>1, RaceStep DEF MCNext, RaceInv, Stranding
<1>2. CASE UNCHANGED <<vars, history>>
  <2>1. /\ UNCHANGED <<playerClub, invite, txn, races, stranded>>
        /\ \A u \in Threads : txn'[u] = txn[u]
    BY <1>2 DEF vars, history
  <2>3. Stranding
    BY <2>1 DEF Stranding, StaysStranded, AssignedNow, Works
  <2>2. Racing' = Racing
    BY <2>1 DEF Racing, Race, InvitedTwice, InvitedWhileJoining, JoinsTwice, ReleasedWhileJoining,
       AnsweredTwice, PlayerOf, ClubBehind, Invitation, Answers, Releases, Works, Joins
  <2> QED
    BY <2>1, <2>2, <2>3, QuietKeeps DEF RaceInv
<1> QED
  BY <1>1, <1>2

LEMMA MCInvariance == MCSpec => [](IInv /\ RaceInv)
<1>1. [MCNext]_<<vars, history>> => [Next]_vars
  BY DEF MCNext, vars
<1> QED
  BY <1>1, InitEstablishes, StepKeeps, RaceInvInit, RaceInvKeeps, PTL DEF MCSpec, MCInit

\* A club has at most one pending invite for a player unless it was sending two at once, and
\* players with pending invites are free unless one was being sent while the player joined a club,
\* or assign_role, which withdraws none, put the player into one (create_invite, decide_invite): no
\* other requests, however they interleave, take from the later ones what they rely on.
THEOREM InvitesProtected == MCSpec => []InvitesUnlessRaced
<1>1. RaceInv => InvitesUnlessRaced
  BY DEF RaceInv
<1> QED
  BY <1>1, MCInvariance, PTL

\* A player moves through a release unless two requests at once were bringing the player into
\* different clubs, is released by the club it is taken from unless it was joining another
\* meanwhile, and an answered or withdrawn invite stays as it is unless it was answered twice at
\* once (decide_invite, assign_role, create_release): against every other interleaving the guards
\* at the beginning suffice.
THEOREM MovesProtected == MCSpec => MovesUnlessRaced
<1>1. IInv /\ RaceInv /\ [MCNext]_<<vars, history>>
      => [\A p \in Players :
            /\ Unraced("joins twice", p) => MoveStep(p)
            /\ Unraced("released while joining", p) => ReleaseByOwnClubStep(p)
            /\ Unraced("answered twice", p) => AnswerStandsStep(p)]_vars
  BY RaceStep DEF MCNext, Moves, Stranding
<1> QED
  BY <1>1, MCInvariance, PTL DEF MCSpec, MovesUnlessRaced
=============================================================================
