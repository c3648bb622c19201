---------------------------- MODULE Registration ----------------------------
(***************************************************************************)
(* Squad registration for a season: a club asks for a player while the     *)
(* registration window is open, the player acknowledges, and the           *)
(* acknowledgement creates the player's registration for the season.       *)
(* (app/services/registration_service.py, app/services/season_service.py)  *)
(*                                                                         *)
(* Every HTTP request runs on a thread with a database session of its own, *)
(* under READ COMMITTED.  A handler is two steps.  Begin... loads rows,    *)
(* checks every guard and keeps in txn[t] what it will write; Commit...    *)
(* writes the rows, their audit entry and their outbox event, and commits. *)
(* Between the two, other threads commit and the clock moves: nothing that *)
(* Begin read is locked or read again, and only the constraints of the     *)
(* database (foreign keys, uq_player_season_registration) can still stop   *)
(* the transaction.  With one thread, requests are served one by one.      *)
(***************************************************************************)
EXTENDS Season, Sequences, FiniteSets

CONSTANTS Threads, Clubs, Players, Seasons,
          RequestIds,       \* primary keys of registration_requests
          RegistrationIds,  \* primary keys of player_season_registrations
          SeasonCreates,    \* rows an administrator may create
          SeasonPatches,    \* updates an administrator may send
          MaxTime,          \* bound on the clock
          NoRow,            \* a key not inserted yet
          Gone,             \* a key whose row was deleted
          Idle              \* a thread without a transaction

RequestRow == [season : Seasons, club : Clubs, player : Players,
               status : {"pending_player_confirmation", "accepted"}]

RegistrationRow == [season : Seasons, club : Clubs, player : Players]

\* What is left of an update once the columns that do not change are dropped.
Patches == UNION {{[f \in D |-> patch[f]] : D \in SUBSET DOMAIN patch} :
                     patch \in SeasonPatches}

Transaction == [op : {"create"}, season : Seasons, club : Clubs, player : Players]
          \cup [op : {"accept"}, request : RequestIds]
          \cup [op : {"delete"}, season : Seasons]
          \cup [op : {"update"}, season : Seasons, patch : Patches]

ASSUME RowAssumption ==
  /\ NoRow # Gone
  /\ NoRow \notin SeasonRow \cup RequestRow \cup RegistrationRow
  /\ Gone \notin SeasonRow \cup RequestRow \cup RegistrationRow
  /\ Idle \notin Transaction

ASSUME SeasonInputsAssumption ==
  /\ SeasonCreates \subseteq SeasonRow
  /\ \A patch \in SeasonPatches : IsPatch(patch)

ASSUME FiniteAssumption == MaxTime \in Nat /\ IsFiniteSet(RequestIds)

VARIABLES now,            \* the clock that Season.status reads
          season,         \* seasons
          request,        \* registration_requests
          registration,   \* player_season_registrations
          outbox,         \* per request, the events committed (each with its audit entry)
          txn             \* per thread, what its handler is about to write

vars == <<now, season, request, registration, outbox, txn>>

Exists(row) == row \notin {NoRow, Gone}

\* Mutant: the look-up of the cap forgets the pending requests.
SquadOfAccepted(c, s) == {r \in RequestIds : /\ Exists(request[r])
                                             /\ request[r].status = "accepted"
                                             /\ request[r].club = c
                                             /\ request[r].season = s}

\* The requests that count against the cap of a club in a season: pending or
\* accepted.  No code gives a request another status.
Squad(c, s) == {r \in RequestIds : /\ Exists(request[r])
                                   /\ request[r].club = c
                                   /\ request[r].season = s}

\* Mutant: neither the guard nor uq_player_season_registration.
RegisteredUnchecked(p, s) == FALSE

\* The player has a registration in the season: the guard of create_request, and
\* what uq_player_season_registration refuses.
Registered(p, s) == \E g \in RegistrationIds : /\ Exists(registration[g])
                                               /\ registration[g].player = p
                                               /\ registration[g].season = s

Init == /\ now = 0
        /\ season = [s \in Seasons |-> NoRow]
        /\ request = [r \in RequestIds |-> NoRow]
        /\ registration = [g \in RegistrationIds |-> NoRow]
        /\ outbox = [r \in RequestIds |-> <<>>]
        /\ txn = [t \in Threads |-> Idle]

Tick == /\ now < MaxTime
        /\ now' = now + 1
        /\ UNCHANGED <<season, request, registration, outbox, txn>>

-----------------------------------------------------------------------------
(* Sessions *)

Begin(t, work) == /\ txn[t] = Idle
                  /\ txn' = [txn EXCEPT ![t] = work]
                  /\ UNCHANGED <<now, season, request, registration, outbox>>

Running(t, op) == txn[t] # Idle /\ txn[t].op = op

End(t) == txn' = [txn EXCEPT ![t] = Idle]

\* A constraint refused the writes, or the worker died, before the commit.
Rollback(t) == /\ txn[t] # Idle
               /\ End(t)
               /\ UNCHANGED <<now, season, request, registration, outbox>>

-----------------------------------------------------------------------------
(* Seasons *)

\* create_season reads nothing, so it is one step; unique_year refuses a second
\* row for the same year.
CreateSeason(s, row) ==
  /\ season[s] = NoRow
  /\ DatesInOrder(row) /\ ~row.is_archived
  /\ season' = [season EXCEPT ![s] = row]
  /\ UNCHANGED <<now, request, registration, outbox, txn>>

BeginUpdateSeason(t, s, patch) ==
  /\ Exists(season[s])
  /\ Begin(t, [op |-> "update", season |-> s, patch |-> Changed(season[s], patch)])

CommitUpdateSeason(t) ==
  /\ Running(t, "update")
  /\ LET s == txn[t].season IN
       /\ Exists(season[s])  \* else the UPDATE matches no row and the flush fails
       /\ season' = [season EXCEPT ![s] = Patched(@, txn[t].patch)]
  /\ End(t)
  /\ UNCHANGED <<now, request, registration, outbox>>

BeginDeleteSeason(t, s) ==
  /\ Exists(season[s])
  /\ Status(season[s], now) \in {"draft", "archived"}
  /\ Begin(t, [op |-> "delete", season |-> s])

\* Mutant: foreign keys without ON DELETE CASCADE, and not enforced.
NotCascaded(row, s) == row

\* The foreign keys delete the season's requests and registrations with it.
Cascaded(row, s) == IF Exists(row) /\ row.season = s THEN Gone ELSE row

CommitDeleteSeason(t) ==
  /\ Running(t, "delete")
  /\ LET s == txn[t].season IN
       /\ season' = [season EXCEPT ![s] = Gone]
       /\ request' = [r \in RequestIds |-> Cascaded(request[r], s)]
       /\ registration' = [g \in RegistrationIds |-> Cascaded(registration[g], s)]
  /\ End(t)
  /\ UNCHANGED <<now, outbox>>

-----------------------------------------------------------------------------
(* Registration requests *)

BeginCreateRequest(t, s, c, p) ==
  /\ Exists(season[s])
  /\ RegistrationWindowOpen(season[s], now)
  /\ ~Registered(p, s)
  /\ Cardinality(Squad(c, s)) < season[s].max_squad_size
  /\ Begin(t, [op |-> "create", season |-> s, club |-> c, player |-> p])

\* Mutant: the event is queued after the commit, and lost by a crash in between.
EmitAfterCommit(r, event) == \/ outbox' = [outbox EXCEPT ![r] = Append(@, event)]
                             \/ UNCHANGED outbox

\* The audit entry and the event are rows of the same transaction.
Emit(r, event) == outbox' = [outbox EXCEPT ![r] = Append(@, event)]

CommitCreateRequest(t, r) ==
  /\ Running(t, "create")
  /\ request[r] = NoRow
  /\ Exists(season[txn[t].season])  \* foreign key
  /\ request' = [request EXCEPT ![r] =
                   [season |-> txn[t].season, club |-> txn[t].club,
                    player |-> txn[t].player, status |-> "pending_player_confirmation"]]
  /\ Emit(r, "registration.requested")
  /\ End(t)
  /\ UNCHANGED <<now, season, registration>>

\* The caller is the player the request names.
BeginDecideRequest(t, r) ==
  /\ Exists(request[r])
  /\ request[r].status = "pending_player_confirmation"
  /\ Begin(t, [op |-> "accept", request |-> r])

\* Mutant: the request is committed before the registration is inserted.
RegisterAfterCommit(g, r) ==
  \/ registration' = [registration EXCEPT ![g] =
                        [season |-> request[r].season, club |-> request[r].club,
                         player |-> request[r].player]]
  \/ UNCHANGED registration

Register(g, r) ==
  registration' = [registration EXCEPT ![g] =
                     [season |-> request[r].season, club |-> request[r].club,
                      player |-> request[r].player]]

\* The status of the request and its registration are written in one commit; the
\* insert fails when the player has a registration in this season already.
CommitDecideRequest(t, g) ==
  /\ Running(t, "accept")
  /\ LET r == txn[t].request IN
       /\ Exists(request[r])
       /\ ~Registered(request[r].player, request[r].season)
       /\ registration[g] = NoRow
       /\ request' = [request EXCEPT ![r].status = "accepted"]
       /\ Register(g, r)
       /\ Emit(r, "registration.accepted")
  /\ End(t)
  /\ UNCHANGED <<now, season>>

-----------------------------------------------------------------------------

Next ==
  \/ Tick
  \/ \E s \in Seasons, row \in SeasonCreates : CreateSeason(s, row)
  \/ \E t \in Threads :
       \/ Rollback(t)
       \/ \E s \in Seasons, patch \in SeasonPatches : BeginUpdateSeason(t, s, patch)
       \/ CommitUpdateSeason(t)
       \/ \E s \in Seasons : BeginDeleteSeason(t, s)
       \/ CommitDeleteSeason(t)
       \/ \E s \in Seasons, c \in Clubs, p \in Players : BeginCreateRequest(t, s, c, p)
       \/ \E r \in RequestIds : CommitCreateRequest(t, r)
       \/ \E r \in RequestIds : BeginDecideRequest(t, r)
       \/ \E g \in RegistrationIds : CommitDecideRequest(t, g)

Spec == Init /\ [][Next]_vars

-----------------------------------------------------------------------------
(* Properties *)

EventSequences == {<<>>, <<"registration.requested">>,
                   <<"registration.requested", "registration.accepted">>}

\* Every table holds rows of its model, or a key that is unused or deleted, and a
\* request has caused at most its two events, in order
\* (models/season.py, models/registration.py).
TypeOK ==
  /\ now \in 0 .. MaxTime
  /\ season \in [Seasons -> SeasonRow \cup {NoRow, Gone}]
  /\ request \in [RequestIds -> RequestRow \cup {NoRow, Gone}]
  /\ registration \in [RegistrationIds -> RegistrationRow \cup {NoRow, Gone}]
  /\ outbox \in [RequestIds -> EventSequences]
  /\ txn \in [Threads -> Transaction \cup {Idle}]

Accepted(r) == Exists(request[r]) /\ request[r].status = "accepted"

\* r is the request whose acceptance created the registration g.
Origin(r, g) == /\ Accepted(r)
                /\ Exists(registration[g])
                /\ registration[g].season = request[r].season
                /\ registration[g].club = request[r].club
                /\ registration[g].player = request[r].player

\* decide_request "atomically creates PlayerSeasonRegistration + marks request
\* ACCEPTED": every accepted request has exactly one registration, every
\* registration exactly one accepted request, whatever is decided concurrently,
\* rolled back in the middle, or deleted with the season.
AcceptedIffRegistered ==
  /\ \A r \in RequestIds : Accepted(r) =>
       \E g \in RegistrationIds :
          Origin(r, g) /\ \A h \in RegistrationIds : Origin(r, h) => h = g
  /\ \A g \in RegistrationIds : Exists(registration[g]) =>
       \E r \in RequestIds :
          Origin(r, g) /\ \A q \in RequestIds : Origin(q, g) => q = r

\* A player plays for one club in a season: however many clubs ask, and however
\* their requests are accepted at the same time, no two requests for the same
\* player and season are both accepted (uq_player_season_registration).
OneClubPerSeason ==
  \A r, q \in RequestIds :
    (/\ Accepted(r) /\ Accepted(q)
     /\ request[r].player = request[q].player
     /\ request[r].season = request[q].season) => r = q

\* The outbox tells the history of a request exactly: one requested event for
\* every request created, one accepted event for every request accepted, none for
\* a transaction that was rolled back (events.py: written atomically with the
\* request, and with the decision).
OutboxMatchesRequests ==
  \A r \in RequestIds :
    /\ request[r] = NoRow => outbox[r] = <<>>
    /\ Exists(request[r]) =>
         outbox[r] = IF Accepted(r)
                     THEN <<"registration.requested", "registration.accepted">>
                     ELSE <<"registration.requested">>

\* delete_season races with handlers that loaded the season before: no request or
\* registration is left behind, or written afterwards, for a season that is gone.
RowsBelongToSeasons ==
  /\ \A r \in RequestIds : Exists(request[r]) => Exists(season[request[r].season])
  /\ \A g \in RegistrationIds :
       Exists(registration[g]) => Exists(season[registration[g].season])

\* "Cap: at most 30 players per club per season (pending + accepted combined)"
\* (registration_service.py): a step that adds a request to a squad leaves it within
\* the cap that the season has at that moment.
SquadCapStep(s, c) ==
  LET squad == {q \in RequestIds : /\ Exists(request'[q])
                                   /\ request'[q].season = s
                                   /\ request'[q].club = c}
  IN  (\E r \in squad : request[r] = NoRow) => Cardinality(squad) <= season[s].max_squad_size
=============================================================================
