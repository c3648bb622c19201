-------------------------------- MODULE Pages --------------------------------
(***************************************************************************)
(* The queries and mutations of the pages under frontend/app/dashboard: the*)
(* tables of QueryCache.  A viewer is the identity that useCurrentUser     *)
(* returns; a place is a page, a tab of a page, or a page with a dialog    *)
(* open that fetches lists of its own.                                     *)
(***************************************************************************)
EXTENDS TLC

Viewer(role, clubAdmin, club, player) ==
  [role |-> role, isClubAdmin |-> clubAdmin, club |-> club, player |-> player]

SuperAdmin  == Viewer("super_admin", FALSE, FALSE, FALSE)
LeagueAdmin == Viewer("league_admin", TRUE, TRUE, TRUE)
ClubAdmin   == Viewer("club_admin", TRUE, TRUE, TRUE)
Member      == Viewer("player", FALSE, TRUE, TRUE)
FreePlayer  == Viewer("player", FALSE, FALSE, TRUE)

isLeagueLevel(v) == v.role \in {"super_admin", "league_admin"}
isRegularUser(v) == v.role # "super_admin"

If(condition, keys) == IF condition THEN keys ELSE {}

-----------------------------------------------------------------------------
\* The queries of each place.
Frame(v) == {"me", "notifications"}
              \cup If(isRegularUser(v) /\ ~v.club, {"club-memberships"})
              \cup If(isRegularUser(v) /\ v.club /\ ~v.isClubAdmin, {"registrations"})

ClubBanner(v) == If(v.club, {"club"})
AdminDashboard == {"analytics", "registrations", "releases"}
ClubAdminDashboard(v) == {"registrations", "releases"} \cup ClubBanner(v)
PlayerDashboard(v) == {"registrations", "releases"} \cup ClubBanner(v)
DashboardHome(v) == IF isLeagueLevel(v) THEN AdminDashboard
                    ELSE IF v.role = "club_admin" THEN ClubAdminDashboard(v) ELSE PlayerDashboard(v)

AnalyticsPage == {"analytics"}
AuditLogsPage == {"audit-logs"}
ReportsPage == {"seasons"}
PlayersPage == {"players"}
ClubMembershipsPage == {"clubs", "club-memberships"}
ClubsPage == {"clubs"}

ClubPage == {"club"}
EditClubDialog == ClubPage \cup {"players"}
StaffSegment == ClubPage \cup {"club-staff"}
AddClubStaffDialog == StaffSegment \cup {"seasons"}
UsersSegments == ClubPage \cup {"users", "players"}
SquadSegment == ClubPage \cup {"seasons", "profiles", "player-season-registrations", "club-staff", "players"}
InvitesSegment(v) == ClubPage \cup If(v.isClubAdmin, {"club-memberships", "free-players"})

LeagueInfoPage == {"league-info"}
EditLeagueDialog == LeagueInfoPage \cup {"players"}
MyDocsPage(v) == If(v.player /\ v.role # "super_admin", {"my-release-letters"})
NotificationsPage == {"notifications", "notification-preferences"}
canSeeDocs(v) == v.player \/ v.role \in {"club_admin", "league_admin", "super_admin"}
PlayerPage(v) == {"player", "registrations", "clubs"}
                   \cup If(canSeeDocs(v), {"releases", "player-documents"})

ClubInvitesSection == {"club-memberships", "clubs"}
MyRegistrationsSection == {"registrations"}
ProfilePage(v) == If(v.player, {"player"}) \cup If(v.club, {"club"})
                    \cup If(isRegularUser(v) /\ v.player,
                            IF v.club THEN MyRegistrationsSection ELSE ClubInvitesSection)

RegistrationsPage == {"registrations", "players", "seasons"}
ReleasesPage(v) == {"players", "seasons"} \cup If(v.role # "club_admin", {"releases"})
SeasonsPage == {"seasons"}
StaffPage == {"staff"}
AddStaffDialog == StaffPage \cup {"clubs", "seasons"}
SubmissionsPage == {"profiles", "clubs", "seasons"}
SubmissionRow == SubmissionsPage \cup {"player-season-registrations", "club-staff", "players", "releases"}
UnlockRequestsPage == {"unlock-requests", "clubs"}
UserPage == {"user", "player", "club"}
UsersPage == {"clubs", "users"}

Queries(v) ==
  [dashboard |-> DashboardHome(v), analytics |-> AnalyticsPage, auditLogs |-> AuditLogsPage,
   reports |-> ReportsPage, players |-> PlayersPage, clubMemberships |-> ClubMembershipsPage,
   clubs |-> ClubsPage, club |-> ClubPage, editClub |-> EditClubDialog, clubStaff |-> StaffSegment,
   addClubStaff |-> AddClubStaffDialog, clubUsers |-> UsersSegments, squad |-> SquadSegment,
   invites |-> InvitesSegment(v), leagueInfo |-> LeagueInfoPage, editLeague |-> EditLeagueDialog,
   myDocs |-> MyDocsPage(v), notifications |-> NotificationsPage, player |-> PlayerPage(v),
   profile |-> ProfilePage(v), registrations |-> RegistrationsPage, releases |-> ReleasesPage(v),
   seasons |-> SeasonsPage, staff |-> StaffPage, addStaff |-> AddStaffDialog,
   submissions |-> SubmissionsPage, submission |-> SubmissionRow,
   unlockRequests |-> UnlockRequestsPage, user |-> UserPage, users |-> UsersPage]

-----------------------------------------------------------------------------
\* The tables behind the endpoint of each key; "clubOf" is the column players.club_id, "people"
\* the others of that table.  /users/me/ takes the club of a player from there, and the lists of
\* users their names too.
AccountReads ==
  ("me" :> {"users", "clubOf"}) @@ ("users" :> {"users", "people", "clubOf"})
  @@ ("user" :> {"users", "people", "clubOf"})
PeopleReads ==
  ("players" :> {"people", "clubOf"}) @@ ("player" :> {"people", "clubOf"})
  @@ ("player-documents" :> {"documents"}) @@ ("my-release-letters" :> {"documents"})
  @@ ("clubs" :> {"clubs"}) @@ ("club" :> {"clubs"})
SeasonReads ==
  ("seasons" :> {"seasons"})
  @@ ("club-memberships" :> {"memberships"}) @@ ("free-players" :> {"memberships", "people", "clubOf"})
  @@ ("registrations" :> {"requests"})
  @@ ("player-season-registrations" :> {"registrations"}) @@ ("releases" :> {"releases"})
SquadReads ==
  ("profiles" :> {"profiles"}) @@ ("club-staff" :> {"staff"}) @@ ("staff" :> {"staff"})
  @@ ("unlock-requests" :> {"unlocks"})
OtherReads ==
  ("notifications" :> {"notices"}) @@ ("notification-preferences" :> {"preferences"})
  @@ ("audit-logs" :> {"audit"}) @@ ("league-info" :> {"league"})
  @@ ("analytics" :> {"users", "people", "clubs", "seasons", "requests", "registrations",
                      "releases", "profiles"})

EndpointReads == AccountReads @@ PeopleReads @@ SeasonReads @@ SquadReads @@ OtherReads

-----------------------------------------------------------------------------
\* The mutations: where they are offered, the tables that the endpoint writes, the keys that
\* their onSuccess invalidates, and whether it reloads the application.
Mutation(place, writes, invalidates) ==
  [place |-> place, writes |-> writes, invalidates |-> invalidates, reloads |-> FALSE]

Joining == {"memberships", "clubOf", "users"}
Memberships == {"club-memberships", "free-players"}
AfterDecision == {"me", "players"} \cup Memberships
DecideMembership == Mutation("clubMemberships", Joining, AfterDecision)
AcceptInvite == [Mutation("profile", Joining, AfterDecision) EXCEPT !.reloads = TRUE]
DeclineInvite == Mutation("profile", {"memberships"}, AfterDecision)
DecideRegistration == Mutation("profile", {"requests", "registrations"}, {"registrations"})

\* Mutant: the entry of the page itself is not invalidated.
EditNameNarrow == Mutation("profile", {"people"}, {"me"})
EditName == Mutation("profile", {"people"}, {"player", "me"})
UploadPhoto == Mutation("profile", {"people"}, {"player"})
UploadNic == Mutation("profile", {"people"}, {"player"})

CreateClub == Mutation("clubs", {"clubs"}, {"clubs"})
UploadLogo == Mutation("editClub", {"clubs"}, {"club", "clubs"})
EditClub == Mutation("editClub", {"clubs"}, {"club", "clubs"})
UploadCover == Mutation("club", {"clubs"}, {"club", "clubs"})
AddClubStaff == Mutation("addClubStaff", {"staff"}, {"club-staff"})
DeleteClubStaff == Mutation("clubStaff", {"staff"}, {"club-staff"})
SubmitSquad == Mutation("squad", {"profiles", "unlocks"}, {"profiles"})
SendInvite == Mutation("invites", {"memberships"}, Memberships)
CancelInvite == Mutation("invites", {"memberships"}, Memberships)

EditLeague == Mutation("editLeague", {"league"}, {"league-info"})
AddLetter == Mutation("myDocs", {"documents"}, {"my-release-letters"})
ToggleLetter == Mutation("myDocs", {"documents"}, {"my-release-letters"})
MarkRead == Mutation("notifications", {"notices"}, {"notifications"})
MarkAllRead == Mutation("notifications", {"notices"}, {"notifications"})
SetPreference == Mutation("notifications", {"preferences"}, {"notification-preferences"})
UploadDocument == Mutation("player", {"documents"}, {"player-documents"})

CreateRegistration == Mutation("registrations", {"requests"}, {"registrations"})
CreateRelease ==
  Mutation("releases", {"releases", "clubOf", "users", "documents"}, {"players", "releases", "me"})
CreateSeason == Mutation("seasons", {"seasons"}, {"seasons"})
EditSeason == Mutation("seasons", {"seasons"}, {"seasons"})
ArchiveSeason == Mutation("seasons", {"seasons"}, {"seasons"})
DeleteSeason ==
  Mutation("seasons", {"seasons", "requests", "registrations", "profiles", "staff", "unlocks"}, {"seasons"})
AddStaff == Mutation("addStaff", {"staff"}, {"staff"})
DeleteStaff == Mutation("staff", {"staff"}, {"staff"})
Transition == Mutation("submission", {"profiles"}, {"profiles"})
DecideUnlock == Mutation("unlockRequests", {"unlocks", "profiles"}, {"unlock-requests", "profiles"})

CreateUser == Mutation("users", {"users", "people"}, {"users"})
AssignRole == Mutation("users", {"users", "clubOf"}, {"users"})
RevokeRole == Mutation("users", {"users"}, {"users"})
AccountAction == Mutation("users", {"users"}, {"users"})
HardDelete == Mutation("users", {"users"}, {"users"})
RestoreUser == Mutation("users", {"users"}, {"users"})

PageMutations ==
  {DecideMembership, AcceptInvite, DeclineInvite, DecideRegistration, EditName, UploadPhoto,
   UploadNic, CreateClub, UploadLogo, EditClub, UploadCover, AddClubStaff, DeleteClubStaff,
   SubmitSquad, SendInvite, CancelInvite, EditLeague, AddLetter, ToggleLetter, MarkRead,
   MarkAllRead, SetPreference, UploadDocument, CreateRegistration, CreateRelease, CreateSeason,
   EditSeason, ArchiveSeason, DeleteSeason, AddStaff, DeleteStaff, Transition, DecideUnlock,
   CreateUser, AssignRole, RevokeRole, AccountAction, HardDelete, RestoreUser}

-----------------------------------------------------------------------------
\* The entry of a key in the cache of a viewer (see QueryCache), and what a mutation does to it.
Effect(m, k) == [writes |-> EndpointReads[k] \cap m.writes # {},
                 invalidates |-> k \in m.invalidates, reloads |-> m.reloads]
Concerns(m, k) == Effect(m, k).writes \/ Effect(m, k).invalidates

PlaceOf(v, k, p) ==
  [watches |-> k \in Queries(v)[p],
   offers |-> {Effect(m, k) : m \in {n \in PageMutations : n.place = p /\ Concerns(n, k)}}]

\* Mutant: the badges count what was fetched when the page was opened.
NotPolled(k) == FALSE

Polled(k) == k = "notifications"
Impatient(k) == k = "me"

EntryOf(v, k) ==
  [places |-> {PlaceOf(v, k, p) : p \in DOMAIN Queries(v)}, framed |-> k \in Frame(v),
   polled |-> Polled(k), impatient |-> Impatient(k)]
=============================================================================
