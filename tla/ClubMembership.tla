--------------------------- MODULE ClubMembership ---------------------------
(***************************************************************************)
(* Permanent membership of players in clubs: invites, decisions, releases  *)
(* (app/services/club_membership_service.py, release_service.py), the role *)
(* that makes a player the admin of a club and, if free, a member of it    *)
(* (assign_role in user_service.py), and the users row that mirrors it     *)
(* (user_sync.py, GET /users/me/).                                         *)
(*                                                                         *)
(* A request runs in a thread with a session of its own, READ COMMITTED:   *)
(* its Begin action loads the rows and evaluates the guards, its Commit    *)
(* action writes the columns that the handler changed.  Others may commit  *)
(* in between; no row is locked and no version is checked.  Each request of*)
(* a player first copies the claims of the token into the users row.       *)
(***************************************************************************)
EXTENDS FiniteSets

CONSTANTS Threads, Players, Clubs, InviteIds, ReleaseIds,
          Origins,       \* how players were created: see OriginType
          NoClub, NoRow, NoTxn

OriginType == [club : Clubs \cup {NoClub},      \* the player's club
               manages : Clubs \cup {NoClub},   \* a club_admin role for this club
               league : BOOLEAN]                \* a league_admin role

ASSUME MembershipAssumption == Origins \subseteq OriginType /\ NoClub \notin Clubs

Status == {"pending", "accepted", "rejected", "cancelled"}
Invite == [player : Players, club : Clubs, status : Status]
Release == [player : Players, club : Clubs]

ASSUME NullAssumption == NoRow \notin Invite \cup Release

VARIABLES playerClub,   \* players.club_id
          user,         \* role and club_id of the users row that is linked to a player
          governance,   \* user_governance_roles of that user
          claims,       \* the user's attributes in Cognito, which its tokens carry
          invite, release, audit, seasonLocked, txn

vars == <<playerClub, user, governance, claims, invite, release, audit, seasonLocked, txn>>

\* highest_role; member_type is "player" for every player.
Highest(g) == CASE g.league -> "league_admin"
                [] ~g.league /\ g.manages # NoClub -> "club_admin"
                [] OTHER -> "player"

\* create_user and assign_role write the same role and club to PostgreSQL and Cognito.
Account(o) == [role |-> Highest(o), club |-> IF o.manages # NoClub THEN o.manages ELSE o.club]

Init == /\ \E o \in [Players -> Origins] :
             /\ playerClub = [p \in Players |-> o[p].club]
             /\ user = [p \in Players |-> Account(o[p])]
             /\ governance = [p \in Players |-> [manages |-> o[p].manages,
                                                 league |-> o[p].league]]
             /\ claims = [p \in Players |-> Account(o[p])]
        /\ invite = [i \in InviteIds |-> NoRow]
        /\ release = [r \in ReleaseIds |-> NoRow]
        /\ audit = {}
        /\ seasonLocked = FALSE
        /\ txn = [t \in Threads |-> NoTxn]

-----------------------------------------------------------------------------
(* Sessions and the users row *)

Load(t, row) == txn[t] = NoTxn /\ txn' = [txn EXCEPT ![t] = row]
Running(t, op) == txn[t] # NoTxn /\ txn[t].op = op
End(t) == txn' = [txn EXCEPT ![t] = NoTxn]

\* The request fails, its process dies, or its connection is lost.
Rollback(t) == /\ txn[t] # NoTxn /\ End(t)
               /\ UNCHANGED <<playerClub, user, governance, claims, invite, release, audit,
                              seasonLocked>>

\* get_or_create_user: PostgreSQL takes what the token says, and commits.
SyncUser(p) == user' = [user EXCEPT ![p] = claims[p]]

\* Any request of the user that changes nothing else.
AnyRequest(p) == /\ SyncUser(p)
                 /\ UNCHANGED <<playerClub, governance, claims, invite, release, audit,
                                seasonLocked, txn>>

\* GET /users/me/ repairs the club of a user whose role is player.
BeginMe(t, p) ==
  /\ SyncUser(p)
  /\ Load(t, [op |-> "me", player |-> p, club |-> playerClub[p]])
  /\ UNCHANGED <<playerClub, governance, claims, invite, release, audit, seasonLocked>>

CommitMe(t) ==
  /\ Running(t, "me")
  /\ LET p == txn[t].player IN
       user' = IF claims[p].role = "player" /\ claims[p].club # txn[t].club
               THEN [user EXCEPT ![p].club = txn[t].club] ELSE user
  /\ End(t)
  /\ UNCHANGED <<playerClub, governance, claims, invite, release, audit, seasonLocked>>

\* A season that is not archived locks, or the last one that did unlocks.
SeasonLockChanges ==
  /\ seasonLocked' = ~seasonLocked
  /\ UNCHANGED <<playerClub, user, governance, claims, invite, release, audit, txn>>

-----------------------------------------------------------------------------
(* Invites *)

Free(p) == playerClub[p] = NoClub

IsPending(i) == invite[i] # NoRow /\ invite[i].status = "pending"

HasPendingInvite(p, c) ==
  \E i \in InviteIds : IsPending(i) /\ invite[i].player = p /\ invite[i].club = c

\* Mutant: the row is flushed after the commit, and lost, as release_player does.
LostAudit(action, id) == UNCHANGED audit

Audit(action, id) == audit' = audit \cup {<<action, id>>}

BeginInvite(t, c, p) ==
  /\ Free(p) /\ ~HasPendingInvite(p, c)
  /\ Load(t, [op |-> "invite", player |-> p, club |-> c])
  /\ UNCHANGED <<playerClub, user, governance, claims, invite, release, audit, seasonLocked>>

CommitInvite(t, i) ==
  /\ Running(t, "invite") /\ invite[i] = NoRow
  /\ invite' = [invite EXCEPT ![i] = [player |-> txn[t].player, club |-> txn[t].club,
                                      status |-> "pending"]]
  /\ Audit("invite", i)
  /\ End(t)
  /\ UNCHANGED <<playerClub, user, governance, claims, release, seasonLocked>>

\* Mutant: accepting leaves the other invites alone.
NoOthers(p, i) == {}

OtherPending(p, i) == {j \in InviteIds \ {i} : IsPending(j) /\ invite[j].player = p}

\* The invited player, whose role must be player, accepts or rejects.  An acceptance looks for the
\* invites that it withdraws; nothing has been flushed by then.
BeginDecide(t, i, decision) ==
  /\ IsPending(i)
  /\ LET p == invite[i].player IN
       /\ claims[p].role = "player"
       /\ SyncUser(p)
       /\ Load(t, [op |-> decision, invite |-> i, free |-> Free(p),
                    others |-> IF decision = "accept" /\ Free(p) THEN OtherPending(p, i) ELSE {}])
  /\ UNCHANGED <<playerClub, governance, claims, invite, release, audit, seasonLocked>>

Answered(i, status) == [invite EXCEPT ![i].status = status]

\* The session writes users.club_id only if it differs from what it loaded, the claim.
CommitAccept(t) ==
  /\ Running(t, "accept") /\ txn[t].free
  /\ LET i == txn[t].invite  p == invite[i].player  c == invite[i].club IN
       /\ invite' = [j \in InviteIds |->
                       IF j \in txn[t].others THEN [invite[j] EXCEPT !.status = "cancelled"]
                                                  ELSE Answered(i, "accepted")[j]]
       /\ playerClub' = [playerClub EXCEPT ![p] = c]
       /\ user' = IF claims[p].club # c THEN [user EXCEPT ![p].club = c] ELSE user
       /\ Audit("accepted", i)
  /\ End(t)
  /\ UNCHANGED <<governance, claims, release, seasonLocked>>

\* The player is in a club already: the invite is cancelled, and an error returned.
CommitAcceptTooLate(t) ==
  /\ Running(t, "accept") /\ ~txn[t].free
  /\ invite' = Answered(txn[t].invite, "cancelled")
  /\ End(t)
  /\ UNCHANGED <<playerClub, user, governance, claims, release, audit, seasonLocked>>

CommitReject(t) ==
  /\ Running(t, "reject")
  /\ invite' = Answered(txn[t].invite, "rejected")
  /\ Audit("rejected", txn[t].invite)
  /\ End(t)
  /\ UNCHANGED <<playerClub, user, governance, claims, release, seasonLocked>>

\* An admin of the club that sent the invite withdraws it.
BeginCancel(t, i) ==
  /\ IsPending(i)
  /\ Load(t, [op |-> "cancel", invite |-> i])
  /\ UNCHANGED <<playerClub, user, governance, claims, invite, release, audit, seasonLocked>>

CommitCancel(t) ==
  /\ Running(t, "cancel")
  /\ invite' = Answered(txn[t].invite, "cancelled")
  /\ End(t)
  /\ UNCHANGED <<playerClub, user, governance, claims, release, audit, seasonLocked>>

-----------------------------------------------------------------------------
(* The role club_admin for club c, granted by an admin: assign_role; Accounts has the locks *)
(* of the role rows, what of it fails, and the other roles, which leave players alone.      *)

Granted(p, c) == [governance[p] EXCEPT !.manages = c]
AdminAccount(p, c) == [role |-> Highest(Granted(p, c)), club |-> c]

BeginAssign(t, c, p) ==
  /\ Load(t, [op |-> "assign", player |-> p, club |-> c, free |-> Free(p), told |-> FALSE])
  /\ UNCHANGED <<playerClub, user, governance, claims, invite, release, audit, seasonLocked>>

\* Before the commit; a refusal by Cognito is swallowed.
TellCognito(t) ==
  /\ Running(t, "assign") /\ ~txn[t].told
  /\ txn' = [txn EXCEPT ![t].told = TRUE]
  /\ LET p == txn[t].player IN
       claims' \in {claims, [claims EXCEPT ![p] = AdminAccount(p, txn[t].club)]}
  /\ UNCHANGED <<playerClub, user, governance, invite, release, audit, seasonLocked>>

\* A player who was found without a club is in it; invites are left alone.
CommitAssign(t) ==
  /\ Running(t, "assign") /\ txn[t].told
  /\ LET p == txn[t].player  c == txn[t].club IN
       /\ playerClub' = IF txn[t].free THEN [playerClub EXCEPT ![p] = c] ELSE playerClub
       /\ governance' = [governance EXCEPT ![p] = Granted(p, c)]
       /\ user' = [user EXCEPT ![p] = AdminAccount(p, c)]
  /\ End(t)
  /\ UNCHANGED <<claims, invite, release, audit, seasonLocked>>

-----------------------------------------------------------------------------
(* Releases, by an admin of club c *)

\* Mutant: any club may release any player who has a club.
HasClub(p, c) == playerClub[p] # NoClub

BelongsTo(p, c) == playerClub[p] = c

BeginRelease(t, op, c, p) ==
  /\ BelongsTo(p, c) /\ ~seasonLocked
  /\ Load(t, [op |-> op, player |-> p, club |-> c])
  /\ UNCHANGED <<playerClub, user, governance, claims, invite, release, audit, seasonLocked>>

\* POST /club-memberships/release/: the audit row is flushed after the commit and is
\* rolled back when the session closes.
CommitReleasePlayer(t) ==
  /\ Running(t, "release_player")
  /\ LET p == txn[t].player IN
       /\ playerClub' = [playerClub EXCEPT ![p] = NoClub]
       /\ user' = [user EXCEPT ![p].club = NoClub]
  /\ End(t)
  /\ UNCHANGED <<governance, claims, invite, release, audit, seasonLocked>>

\* The role that create_release takes from the released player's user.
Revoked(p, c) == IF governance[p].manages = c THEN [governance[p] EXCEPT !.manages = NoClub]
                                               ELSE governance[p]

\* POST /releases/: PostgreSQL only, Cognito keeps the old role and club.
CommitCreateRelease(t, r) ==
  /\ Running(t, "create_release") /\ release[r] = NoRow
  /\ LET p == txn[t].player  c == txn[t].club IN
       /\ release' = [release EXCEPT ![r] = [player |-> p, club |-> c]]
       /\ playerClub' = [playerClub EXCEPT ![p] = NoClub]
       /\ governance' = [governance EXCEPT ![p] = Revoked(p, c)]
       /\ user' = [user EXCEPT ![p] =
                     [role |-> IF governance[p].manages = c THEN Highest(Revoked(p, c))
                                                            ELSE @.role,
                      club |-> NoClub]]
  /\ Audit("release", r)
  /\ End(t)
  /\ UNCHANGED <<claims, invite, seasonLocked>>

-----------------------------------------------------------------------------
UserStep == \E p \in Players : AnyRequest(p) \/ \E t \in Threads : BeginMe(t, p)

InviteStep(t) == \/ \E c \in Clubs, p \in Players : BeginInvite(t, c, p)
                 \/ \E i \in InviteIds : CommitInvite(t, i) \/ BeginCancel(t, i)
                 \/ CommitCancel(t)

DecideStep(t) == \/ \E i \in InviteIds, d \in {"accept", "reject"} : BeginDecide(t, i, d)
                 \/ CommitAccept(t) \/ CommitAcceptTooLate(t) \/ CommitReject(t)

ReleaseStep(t) == \/ \E op \in {"release_player", "create_release"}, c \in Clubs, p \in Players :
                        BeginRelease(t, op, c, p)
                  \/ CommitReleasePlayer(t)
                  \/ \E r \in ReleaseIds : CommitCreateRelease(t, r)

AssignStep(t) == \/ \E c \in Clubs, p \in Players : BeginAssign(t, c, p)
                 \/ TellCognito(t) \/ CommitAssign(t)

Next == \/ UserStep \/ SeasonLockChanges
        \/ \E t \in Threads : \/ InviteStep(t) \/ DecideStep(t) \/ ReleaseStep(t) \/ AssignStep(t)
                              \/ CommitMe(t) \/ Rollback(t)

Spec == Init /\ [][Next]_vars

-----------------------------------------------------------------------------
(* Properties that hold whatever the interleaving *)

AccountType == [role : {"player", "club_admin", "league_admin"}, club : Clubs \cup {NoClub}]

TxnType == [op : {"me"}, player : Players, club : Clubs \cup {NoClub}]
      \cup [op : {"invite", "release_player", "create_release"}, player : Players, club : Clubs]
      \cup [op : {"accept", "reject"}, invite : InviteIds, free : BOOLEAN,
            others : SUBSET InviteIds]
      \cup [op : {"cancel"}, invite : InviteIds]
      \cup [op : {"assign"}, player : Players, club : Clubs, free : BOOLEAN, told : BOOLEAN]

TypeOK ==
  /\ playerClub \in [Players -> Clubs \cup {NoClub}]
  /\ user \in [Players -> AccountType] /\ claims \in [Players -> AccountType]
  /\ governance \in [Players -> [manages : Clubs \cup {NoClub}, league : BOOLEAN]]
  /\ invite \in [InviteIds -> Invite \cup {NoRow}]
  /\ release \in [ReleaseIds -> Release \cup {NoRow}]
  /\ audit \subseteq ({"invite", "accepted", "rejected"} \X InviteIds)
                       \cup ({"release"} \X ReleaseIds)
  /\ seasonLocked \in BOOLEAN
  /\ txn \in [Threads -> TxnType \cup {NoTxn}]

Accepts(i) == /\ invite[i] # NoRow /\ invite[i].status # "accepted"
              /\ invite'[i].status = "accepted"

\* A player gets into a club only in the step in which an invite of that club is accepted or the
\* player is made its admin, and an invite is never accepted without the player getting there; an
\* answer has its audit row: whatever other requests read or overwrite meanwhile, and wherever
\* they are rolled back, an answer is one transaction (decide_invite).
DecisionStep ==
  /\ \A p \in Players : playerClub'[p] \notin {playerClub[p], NoClub} =>
       \/ \E i \in InviteIds : /\ invite[i] # NoRow /\ invite'[i].status = "accepted"
                               /\ invite[i].player = p /\ invite[i].club = playerClub'[p]
       \/ governance'[p].manages = playerClub'[p] /\ UNCHANGED invite
  /\ \A i \in InviteIds : Accepts(i) => playerClub'[invite[i].player] = invite[i].club
  /\ \A i \in InviteIds : invite'[i] # invite[i] /\ invite'[i].status \in {"accepted", "rejected"}
       => <<invite'[i].status, i>> \in audit'
DecisionsAreWhole == [][DecisionStep]_vars

-----------------------------------------------------------------------------
(* Promises to a player, which requests about the same player can break in a race *)

\* models/club_membership.py: one active club at a time; the current club must release the
\* player first.
MoveStep(p) ==
  playerClub'[p] # playerClub[p] => playerClub[p] = NoClub \/ playerClub'[p] = NoClub
MovesThroughRelease == [][\A p \in Players : MoveStep(p)]_vars

\* "You can only release players from your own club": what a release takes away is
\* membership of the club that asked for it.
ReleaseByOwnClubStep(p) ==
  \A t \in Threads : /\ txn[t] # NoTxn /\ txn[t].op \in {"release_player", "create_release"}
                     /\ txn[t].player = p
                     /\ txn'[t] = NoTxn /\ playerClub'[p] # playerClub[p]
    => playerClub[p] = txn[t].club

\* An answered or withdrawn invite stays as it is ("invite must still be PENDING").
AnswerStandsStep(p) ==
  \A i \in InviteIds : /\ invite[i] # NoRow /\ invite[i].status # "pending"
                       /\ invite[i].player = p
    => invite'[i] = invite[i]

\* create_invite: no second pending invite of the same club for the same player.  With two,
\* the next create_invite fails in scalar_one_or_none.
OnePendingInvite(p) ==
  \A i, j \in InviteIds :
     IsPending(i) /\ IsPending(j) /\ invite[i].player = p /\ invite[j].player = p
       /\ invite[i].club = invite[j].club => i = j

\* create_invite and decide_invite: only free players have pending invites, of those considered.
PendingOnlyIfFree(p, considered) ==
  \A i \in considered : IsPending(i) /\ invite[i].player = p => playerClub[p] = NoClub
=============================================================================
