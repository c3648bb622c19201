------------------------------ MODULE Worklists ------------------------------
(***************************************************************************)
(* What waits for the decision of a user, and where the web client shows   *)
(* it: the dashboard, the badge in the sidebar, the profile and the pages  *)
(* that list invites and registration requests.  They all read the same    *)
(* cache, in which a query that is not enabled still has its last answer.  *)
(* That the copies of the queries in use may be old is the subject of      *)
(* QueryCache; here the lists are compared when they are up to date.  The   *)
(* names differ from those of QueryCache, which MCPages extends as well.   *)
(***************************************************************************)
EXTENDS Naturals, FiniteSets

CONSTANTS Players, Clubs, Me,  \* Me is the player that the user is
          ListLimit,           \* the entries that the dashboard shows of a list
          NoClub, Absent

Rows == Players \X Clubs

ASSUME ListsAssumption == /\ Me \in Players /\ NoClub \notin Clubs /\ ListLimit \in Nat \ {0}
                          /\ \A rows \in SUBSET Rows : rows # Absent

Keys == {"registrations", "club-memberships"}
Places == {"dashboard", "profile", "clubMemberships", "registrations", "elsewhere"}

VARIABLES adminOf,     \* the club that the user is an admin of
          clubOf,      \* per player: players.club_id
          invites,     \* pending, by player and club
          requests,    \* registration requests for the season, likewise
          registered,  \* the players with a registration
          spot,        \* the page that is open
          cache,       \* per key: the pending rows of the last answer, or Absent
          stranded     \* history: invites that the user had when assign_role found a club for him

rowVars == <<adminOf, clubOf, invites, requests, registered, stranded>>
listVars == <<rowVars, spot, cache>>

ListsTypeOK == /\ adminOf \in Clubs \cup {NoClub}
               /\ clubOf \in [Players -> Clubs \cup {NoClub}]
               /\ invites \subseteq Rows /\ requests \subseteq Rows /\ registered \subseteq Players
               /\ spot \in Places /\ stranded \subseteq invites
               /\ \A k \in Keys : cache[k] = Absent \/ cache[k] \subseteq Rows

\* The club of the user, users.club_id, is the one that an admin manages; a player's is the one that
\* the player is in.  How late it follows is the subject of ClubMembership and Accounts.
isClubAdmin == adminOf # NoClub
myClub == IF isClubAdmin THEN adminOf ELSE clubOf[Me]
hasClub == myClub # NoClub

OfMe(rows) == {r \in rows : r[1] = Me}
OfMyClub(rows) == {r \in rows : r[2] = myClub}

ListsInit ==
  /\ adminOf = NoClub /\ clubOf \in [Players -> Clubs \cup {NoClub}]
  /\ invites = {} /\ requests = {} /\ registered = {} /\ stranded = {}
  /\ spot = "dashboard" /\ cache = [k \in Keys |-> Absent]

-----------------------------------------------------------------------------
\* The clubs and the players, one request at a time; what overlapping requests leave in these tables
\* is the subject of ClubMembership and Registration.
Page == UNCHANGED <<spot, cache>>

Invite(p, c) ==
  /\ clubOf[p] = NoClub
  /\ invites' = invites \cup {<<p, c>>}
  /\ Page /\ UNCHANGED <<adminOf, clubOf, requests, registered, stranded>>

\* The club cancels it, or the player rejects it, or accepts it too late.
WithdrawInvite(p, c) ==
  /\ <<p, c>> \in invites
  /\ invites' = invites \ {<<p, c>>} /\ stranded' = stranded \ {<<p, c>>}
  /\ Page /\ UNCHANGED <<adminOf, clubOf, requests, registered>>

\* Invites and requests are decided by users whose role is player.
MayDecide(p) == p = Me => ~isClubAdmin

\* Mutant: the other invites stay pending.
JoinsOnly(p, c) ==
  /\ <<p, c>> \in invites /\ clubOf[p] = NoClub /\ MayDecide(p)
  /\ clubOf' = [clubOf EXCEPT ![p] = c]
  /\ invites' = invites \ {<<p, c>>}
  /\ Page /\ UNCHANGED <<adminOf, requests, registered, stranded>>

Accept(p, c) ==
  /\ <<p, c>> \in invites /\ clubOf[p] = NoClub /\ MayDecide(p)
  /\ clubOf' = [clubOf EXCEPT ![p] = c]
  /\ invites' = {r \in invites : r[1] # p}
  /\ Page /\ UNCHANGED <<adminOf, requests, registered, stranded>>

\* A club admin is given the players of the club to choose from; a league admin who belongs to a
\* club, all players.
Request(p, c) ==
  /\ p \notin registered
  /\ requests' = requests \cup {<<p, c>>}
  /\ Page /\ UNCHANGED <<adminOf, clubOf, invites, registered, stranded>>

Acknowledge(p, c) ==
  /\ <<p, c>> \in requests /\ p \notin registered /\ MayDecide(p)
  /\ requests' = requests \ {<<p, c>>} /\ registered' = registered \cup {p}
  /\ Page /\ UNCHANGED <<adminOf, clubOf, invites, stranded>>

\* The requests to a player who is released stay pending, and so does the registration; the role
\* of an admin stays in the token, which brings it back.
Release(p) ==
  /\ clubOf[p] # NoClub
  /\ clubOf' = [clubOf EXCEPT ![p] = NoClub]
  /\ stranded' = IF p = Me THEN {} ELSE stranded
  /\ Page /\ UNCHANGED <<adminOf, invites, requests, registered>>

\* The player becomes an admin of the club, and a free one joins it; invites are left alone.
Assign(p, c) ==
  /\ adminOf' = IF p = Me THEN c ELSE adminOf
  /\ clubOf' = IF clubOf[p] = NoClub THEN [clubOf EXCEPT ![p] = c] ELSE clubOf
  /\ stranded' = IF p = Me /\ clubOf[p] = NoClub THEN OfMe(invites) ELSE stranded
  /\ Page /\ UNCHANGED <<invites, requests, registered>>

Revoke ==
  /\ isClubAdmin /\ adminOf' = NoClub
  /\ Page /\ UNCHANGED <<clubOf, invites, requests, registered, stranded>>

-----------------------------------------------------------------------------
\* The web client
\* The lists are scoped by the role of the caller.
ListAnswer(k) == LET rows == IF k = "registrations" THEN requests ELSE invites
                 IN  IF isClubAdmin THEN OfMyClub(rows) ELSE OfMe(rows)

SidebarKeys == CASE ~hasClub -> {"club-memberships"}
                 [] hasClub /\ ~isClubAdmin -> {"registrations"}
                 [] OTHER -> {}
ProfileKeys == IF hasClub THEN {"registrations"} ELSE {"club-memberships"}
PlaceKeys == CASE spot \in {"dashboard", "registrations"} -> {"registrations"}
               [] spot = "profile" -> ProfileKeys
               [] spot = "clubMemberships" -> {"club-memberships"}
               [] OTHER -> {}
Enabled == SidebarKeys \cup PlaceKeys

Visit(p) == /\ spot' = p
            /\ UNCHANGED <<rowVars, cache>>

FetchList(k) == /\ k \in Enabled
                /\ cache' = [cache EXCEPT ![k] = ListAnswer(k)]
                /\ UNCHANGED <<rowVars, spot>>

PendingRows(k) == IF cache[k] = Absent THEN {} ELSE cache[k]

\* Mutant: both counts are added, whichever query is enabled.
BothCounts == Cardinality(PendingRows("club-memberships")) + Cardinality(PendingRows("registrations"))
profileBadge == Cardinality(PendingRows(IF hasClub THEN "registrations" ELSE "club-memberships"))

InvitesToDecide == PendingRows("club-memberships")
RequestsToDecide == OfMe(PendingRows("registrations"))

\* What the dashboard may list: the latest requests, and not more than it has room for.
PendingDecisionsList ==
  LET rows == PendingRows("registrations")
  IN  IF Cardinality(rows) <= ListLimit THEN {rows}
      ELSE {shown \in SUBSET rows : Cardinality(shown) = ListLimit}

\* What the profile offers to decide.
Offered == IF hasClub THEN [invites |-> {}, requests |-> RequestsToDecide]
           ELSE [invites |-> InvitesToDecide, requests |-> {}]

ListsNext ==
  \/ \E p \in Players, c \in Clubs : \/ Invite(p, c) \/ WithdrawInvite(p, c) \/ Accept(p, c)
                                     \/ Request(p, c) \/ Acknowledge(p, c) \/ Assign(p, c)
  \/ \E p \in Players : Release(p)
  \/ Revoke
  \/ \E p \in Places : Visit(p)
  \/ \E k \in Keys : FetchList(k)

ListsSpec == ListsInit /\ [][ListsNext]_listVars

-----------------------------------------------------------------------------
UpToDate == \A k \in Enabled : cache[k] = ListAnswer(k)

\* What waits for the user is what the profile offers to decide, and the dashboard lists the
\* requests, as far as it has room, instead of "No pending decisions".  Offered nowhere are the
\* invites of a player whom assign_role put into a club, and all of an admin; a request that is
\* pending while the player has no club, because the player was released; and a request of another
\* club to the admin of a club.
Waiting == [invites |-> OfMe(invites), requests |-> OfMe(requests)]
OutOfSight ==
  \/ stranded # {}
  \/ isClubAdmin /\ Waiting.invites # {}
  \/ /\ Waiting.requests # {}
     /\ hasClub => isClubAdmin /\ ~(Waiting.requests \subseteq OfMyClub(requests))
DecisionsOffered ==
  UpToDate /\ ~OutOfSight =>
    /\ spot = "profile" => Offered = Waiting
    /\ spot = "dashboard" => \A shown \in PendingDecisionsList :
         /\ Waiting.requests \subseteq shown \/ Cardinality(shown) = ListLimit
         /\ ~isClubAdmin => shown \subseteq Waiting.requests

\* The number beside "My Profile" is the number of decisions that the profile offers to a player;
\* for an admin the badge counts what the cache has of the whole club.
\* components/shared/Sidebar.tsx:66, "Pending registration request count for users with a club".
BadgeCountsDecisions ==
  UpToDate /\ spot = "profile" /\ ~isClubAdmin =>
    profileBadge = Cardinality(Offered.invites) + Cardinality(Offered.requests)
=============================================================================
