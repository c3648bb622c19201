-------------------------- MODULE MCClubMembership --------------------------
(***************************************************************************)
(* Small instances of ClubMembership, with history variables: which        *)
(* requests about the same player were in progress at the same time, and   *)
(* which invites a player still had when assign_role found him a club.     *)
(***************************************************************************)
EXTENDS ClubMembership, Naturals, TLC

CONSTANTS t1, t2, c1, c2, p1, p2, i1, i2, i3, r1

FreePlayer == [club |-> NoClub, manages |-> NoClub, league |-> FALSE]

\* A free player, and one who plays for c2, is an admin of c1 and a league admin as well.
TwoOrigins == {FreePlayer, [club |-> c2, manages |-> c1, league |-> TRUE]}
FreeOrigin == {FreePlayer}

Symmetry == Permutations(Threads) \cup Permutations(Players) \cup Permutations(InviteIds)

Works(t, ops) == txn[t] # NoTxn /\ txn[t].op \in ops
Answers(t) == Works(t, {"accept", "reject", "cancel"})
Releases(t) == Works(t, {"release_player", "create_release"})

\* What brings a player into a club, by acceptance of its invite or as its admin.
Joins(t) == Works(t, {"accept", "assign"}) /\ txn[t].free

\* The player whom the request in thread t is about, and the club.
Invitation(t) == invite[txn[t].invite]
PlayerOf(t) == IF Answers(t) THEN Invitation(t).player ELSE txn[t].player
ClubBehind(t) == IF Answers(t) THEN Invitation(t).club ELSE txn[t].club

VARIABLES races,     \* how two requests about a player were ever in progress at the same time
          stranded   \* invites that were pending when assign_role put their player into the club
                     \* where he still is

history == <<races, stranded>>

\* The same club invites twice.
InvitedTwice(t, u) == Works(t, {"invite"}) /\ Works(u, {"invite"}) /\ ClubBehind(t) = ClubBehind(u)

\* A club invites a player who is joining one.
InvitedWhileJoining(t, u) == Works(t, {"invite"}) /\ Joins(u)

\* A player joins two clubs.
JoinsTwice(t, u) == Joins(t) /\ Joins(u) /\ ClubBehind(t) # ClubBehind(u)

\* A club releases a player who is joining another one.
ReleasedWhileJoining(t, u) == Releases(t) /\ Joins(u) /\ ClubBehind(t) # ClubBehind(u)

\* An invite is answered twice, or one is accepted, which withdraws the others.
AnsweredTwice(t, u) == /\ Answers(t) /\ Answers(u)
                       /\ txn[t].invite = txn[u].invite \/ Joins(u)

Race(kind, t, u) == CASE kind = "invited twice" -> InvitedTwice(t, u)
                      [] kind = "invited while joining" -> InvitedWhileJoining(t, u)
                      [] kind = "joins twice" -> JoinsTwice(t, u)
                      [] kind = "released while joining" -> ReleasedWhileJoining(t, u)
                      [] kind = "answered twice" -> AnsweredTwice(t, u)

Kinds == {"invited twice", "invited while joining", "joins twice", "released while joining",
          "answered twice"}

Racing == {race \in Kinds \X Players :
             \E t, u \in Threads : /\ t # u /\ txn[t] # NoTxn /\ txn[u] # NoTxn
                                   /\ PlayerOf(t) = race[2] /\ PlayerOf(u) = race[2]
                                   /\ Race(race[1], t, u)}

\* assign_role brings the player into a club in this step.
AssignedNow(p) == \E t \in Threads : /\ Works(t, {"assign"}) /\ txn[t].player = p
                                     /\ txn'[t] = NoTxn /\ playerClub'[p] # playerClub[p]

StaysStranded(i) == /\ invite[i] # NoRow /\ IsPending(i)'
                    /\ \/ AssignedNow(invite[i].player)
                       \/ /\ i \in stranded
                          /\ playerClub'[invite[i].player] = playerClub[invite[i].player]

MCInit == Init /\ races = {} /\ stranded = {}
MCNext == /\ Next /\ races' = races \cup Racing'
          /\ stranded' = {i \in InviteIds : StaysStranded(i)}
MCSpec == MCInit /\ [][MCNext]_<<vars, history>>

\* Bounds: what a second race leaves of the other promises is left to the proofs; one club makes
\* players its admins, one at a time; a season locks while nothing is in progress, since the lock is only
\* looked at when a release begins; and GET /users/me/ is alone, since it writes the users row only,
\* which no guard reads.
OneRace == Cardinality(races) <= 1
OneGrant == \A t, u \in Threads : /\ Works(t, {"assign"}) => ClubBehind(t) = c2
                                  /\ Works(t, {"assign"}) /\ Works(u, {"assign"}) => t = u
LocksAtRest == seasonLocked => \A t \in Threads : txn[t] = NoTxn
MeAlone == \A t, u \in Threads : Works(t, {"me"}) => u = t \/ txn[u] = NoTxn

\* The run of two acceptances.
NobodyAssigns == \A t \in Threads : ~Works(t, {"assign"})

Unraced(kind, p) == <<kind, p>> \notin races

\* A player is in one club at a time, unless two requests were bringing the player into different
\* ones, by acceptance or as an admin (assign_role); leaves it only through a release by that club,
\* unless one was in progress while the player joined another; and an answered or withdrawn invite
\* stays as it is, unless it was being answered twice: no other requests, and none about other
\* players, break these promises.
MovesUnlessRaced ==
  [][\A p \in Players :
       /\ Unraced("joins twice", p) => MoveStep(p)
       /\ Unraced("released while joining", p) => ReleaseByOwnClubStep(p)
       /\ Unraced("answered twice", p) => AnswerStandsStep(p)]_vars

\* A club has one pending invite for a player, unless it was sending two at once, and the player
\* is free, unless an invite was being sent while the player joined a club, or assign_role, which
\* withdraws none, found the player free and with this invite.
InvitesUnlessRaced ==
  \A p \in Players :
    /\ Unraced("invited twice", p) => OnePendingInvite(p)
    /\ Unraced("invited while joining", p) => PendingOnlyIfFree(p, InviteIds \ stranded)
=============================================================================
