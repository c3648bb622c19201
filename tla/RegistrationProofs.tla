------------------------- MODULE RegistrationProofs -------------------------
(***************************************************************************)
(* The invariants of Registration hold for any number of threads, clubs,   *)
(* players, seasons and rows.  The inductive invariant splits the one to   *)
(* one correspondence of accepted requests and registrations into its two  *)
(* directions and the uniqueness that uq_player_season_registration gives. *)
(* No constraint guards the cap of a squad: it follows from the room that  *)
(* create_request found, which is still there unless the squad was raced   *)
(* about.                                                                  *)
(***************************************************************************)
EXTENDS MCRegistration, SequenceTheorems, FiniteSetTheorems, TLAPS

EachAcceptedIsRegistered ==
  \A r \in RequestIds : Accepted(r) => \E g \in RegistrationIds : Origin(r, g)

EachRegistrationIsAccepted ==
  \A g \in RegistrationIds :
    Exists(registration[g]) => \E r \in RequestIds : Origin(r, g)

OneRegistrationPerSeason ==
  \A g, h \in RegistrationIds :
    (/\ Exists(registration[g]) /\ Exists(registration[h])
     /\ registration[g].player = registration[h].player
     /\ registration[g].season = registration[h].season) => g = h

IInv == /\ TypeOK
        /\ EachAcceptedIsRegistered
        /\ EachRegistrationIsAccepted
        /\ OneRegistrationPerSeason
        /\ OneClubPerSeason
        /\ OutboxMatchesRequests
        /\ RowsBelongToSeasons

-----------------------------------------------------------------------------
(* Rows *)

\* A second event follows the first (queue_event).
LEMMA AppendEvent ==
  ASSUME NEW a, NEW b
  PROVE  Append(<<a>>, b) = <<a, b>>
  <1> DEFINE s == Append(<<a>>, b)
  <1>1. <<a>> \in Seq({a, b}) /\ <<a, b>> \in Seq({a, b}) /\ Len(<<a, b>>) = 2
    OBVIOUS
  <1>2. s \in Seq({a, b}) /\ Len(s) = 2 /\ s[1] = a /\ s[2] = b
    BY <1>1, AppendProperties
  <1>3. \A i \in 1 .. Len(s) : s[i] = <<a, b>>[i]
    <2>1. \A i \in 1 .. 2 : i = 1 \/ i = 2
      OBVIOUS
    <2> HIDE DEF s
    <2> QED
      BY <1>2, <2>1
  <1> HIDE DEF s
  <1>4. s = <<a, b>>
    BY <1>1, <1>2, <1>3, SeqEqual
  <1> QED
    BY <1>4 DEF s

\* A well-typed update of a season row is a season row (update_season).
LEMMA PatchedType ==
  ASSUME NEW row \in SeasonRow, NEW patch, IsPatch(patch)
  PROVE  Patched(row, patch) \in SeasonRow
  <1> DEFINE fields == {"registration_open_at", "registration_close_at",
                        "season_end_date", "max_squad_size", "is_archived"}
             new == [f \in fields |-> IF f \in DOMAIN patch THEN patch[f] ELSE row[f]]
  <1>1. DOMAIN row = fields /\ \A f \in fields : row[f] \in FieldType[f]
    BY DEF SeasonRow, FieldType
  <1>2. Patched(row, patch) = new
    BY <1>1 DEF Patched
  <1>3. \A f \in fields : new[f] \in FieldType[f]
    BY <1>1 DEF IsPatch
  <1>4. new = [registration_open_at  |-> new["registration_open_at"],
               registration_close_at |-> new["registration_close_at"],
               season_end_date       |-> new["season_end_date"],
               max_squad_size        |-> new["max_squad_size"],
               is_archived           |-> new["is_archived"]]
    OBVIOUS
  <1> QED
    BY <1>2, <1>3, <1>4 DEF SeasonRow, FieldType

\* What remains of an administrator's update is well typed.
LEMMA PatchesType ==
  ASSUME NEW patch \in Patches
  PROVE  IsPatch(patch)
  BY SeasonInputsAssumption DEF Patches, IsPatch

\* Dropping the unchanged columns of an update leaves one of Patches.
LEMMA ChangedType ==
  ASSUME NEW row, NEW patch \in SeasonPatches
  PROVE  Changed(row, patch) \in Patches
  <1> DEFINE D == {f \in DOMAIN patch : patch[f] # row[f]}
             parts == {[f \in E |-> patch[f]] : E \in SUBSET DOMAIN patch}
  <1>1. D \in SUBSET DOMAIN patch
    OBVIOUS
  <1>2. [f \in D |-> patch[f]] \in parts
    BY <1>1
  <1> QED
    BY <1>2 DEF Changed, Patches

\* The rows of a table are recognised by their type.
LEMMA ExistsType ==
  /\ \A row \in SeasonRow \cup RequestRow \cup RegistrationRow : Exists(row)
  /\ ~Exists(NoRow) /\ ~Exists(Gone)
  BY RowAssumption DEF Exists

\* TypeOK only depends on the typing of each table and of each thread.
LEMMA TypeOKInit == Init => TypeOK
  BY FiniteAssumption DEF Init, TypeOK, EventSequences

\* Every step preserves the inductive invariant.
LEMMA InitIInv == Init => IInv
  <1> SUFFICES ASSUME Init PROVE IInv
    OBVIOUS
  <1>1. \A r \in RequestIds : ~Exists(request[r])
    BY ExistsType DEF Init
  <1>2. \A g \in RegistrationIds : ~Exists(registration[g])
    BY ExistsType DEF Init
  <1>3. OutboxMatchesRequests
    BY <1>1 DEF Init, OutboxMatchesRequests
  <1> QED
    BY <1>1, <1>2, <1>3, TypeOKInit
       DEF IInv, EachAcceptedIsRegistered, EachRegistrationIsAccepted,
           OneRegistrationPerSeason, OneClubPerSeason, RowsBelongToSeasons, Accepted

\* A step that leaves the three tables and the outbox alone.
LEMMA QuietStep ==
  ASSUME IInv, TypeOK', UNCHANGED <<season, request, registration, outbox>>
  PROVE  IInv'
  BY DEF IInv, EachAcceptedIsRegistered, EachRegistrationIsAccepted,
         OneRegistrationPerSeason, OneClubPerSeason, OutboxMatchesRequests,
         RowsBelongToSeasons, Accepted, Origin, Exists

\* A step that changes seasons only, and makes none disappear.
LEMMA SeasonStep ==
  ASSUME IInv, TypeOK', UNCHANGED <<request, registration, outbox>>,
         \A s \in Seasons : Exists(season[s]) => Exists(season'[s])
  PROVE  IInv'
  <1>1. RowsBelongToSeasons'
    <2>1. ASSUME NEW r \in RequestIds, Exists(request[r])
          PROVE  Exists(season'[request[r].season])
      <3>1. request[r] \in RequestRow
        BY <2>1 DEF IInv, TypeOK, Exists
      <3> QED
        BY <2>1, <3>1 DEF IInv, RowsBelongToSeasons, RequestRow
    <2>2. ASSUME NEW g \in RegistrationIds, Exists(registration[g])
          PROVE  Exists(season'[registration[g].season])
      <3>1. registration[g] \in RegistrationRow
        BY <2>2 DEF IInv, TypeOK, Exists
      <3> QED
        BY <2>2, <3>1 DEF IInv, RowsBelongToSeasons, RegistrationRow
    <2> QED
      BY <2>1, <2>2 DEF RowsBelongToSeasons, Exists
  <1> QED
    BY <1>1 DEF IInv, EachAcceptedIsRegistered, EachRegistrationIsAccepted,
         OneRegistrationPerSeason, OneClubPerSeason, OutboxMatchesRequests,
         Accepted, Origin, Exists

\* Opening a transaction, or dropping one, keeps every table.
LEMMA BeginStep ==
  ASSUME IInv, NEW t \in Threads, NEW work \in Transaction, Begin(t, work)
  PROVE  IInv'
  <1>1. TypeOK'
    BY DEF IInv, TypeOK, Begin
  <1> QED
    BY <1>1, QuietStep DEF Begin

LEMMA RollbackStep ==
  ASSUME IInv, NEW t \in Threads, Rollback(t)
  PROVE  IInv'
  <1>1. TypeOK'
    BY DEF IInv, TypeOK, Rollback, End
  <1> QED
    BY <1>1, QuietStep DEF Rollback

LEMMA CreateSeasonStep ==
  ASSUME IInv, NEW s \in Seasons, NEW row \in SeasonCreates, CreateSeason(s, row)
  PROVE  IInv'
  <1>1. row \in SeasonRow
    BY SeasonInputsAssumption
  <1>2. TypeOK'
    BY <1>1 DEF IInv, TypeOK, CreateSeason
  <1>3. \A z \in Seasons : Exists(season[z]) => Exists(season'[z])
    BY <1>1, ExistsType DEF IInv, TypeOK, CreateSeason
  <1> QED
    BY <1>2, <1>3, SeasonStep DEF CreateSeason

LEMMA UpdateSeasonStep ==
  ASSUME IInv, NEW t \in Threads, CommitUpdateSeason(t)
  PROVE  IInv'
  <1> DEFINE s == txn[t].season
             row == Patched(season[s], txn[t].patch)
  <1>1. txn[t] \in [op : {"update"}, season : Seasons, patch : Patches]
    BY DEF IInv, TypeOK, CommitUpdateSeason, Running, Transaction
  <1>2. /\ s \in Seasons /\ season[s] \in SeasonRow
        /\ season' = [season EXCEPT ![s] = row]
    BY <1>1 DEF IInv, TypeOK, CommitUpdateSeason, Exists
  <1>3. row \in SeasonRow
    BY <1>1, <1>2, PatchesType, PatchedType
  <1> HIDE DEF row, s
  <1>4. TypeOK'
    BY <1>2, <1>3 DEF IInv, TypeOK, CommitUpdateSeason, End
  <1>5. \A z \in Seasons : Exists(season[z]) => Exists(season'[z])
    BY <1>2, <1>3, ExistsType DEF IInv, TypeOK
  <1> QED
    BY <1>4, <1>5, SeasonStep DEF CommitUpdateSeason

\* Deleting a season takes its requests and its registrations together, so what is
\* left still corresponds.
LEMMA DeleteSeasonStep ==
  ASSUME IInv, NEW t \in Threads, CommitDeleteSeason(t)
  PROVE  IInv'
  <1> DEFINE s == txn[t].season
  <1>1. s \in Seasons
    BY DEF IInv, TypeOK, CommitDeleteSeason, Running, Transaction
  <1>2. /\ season' = [season EXCEPT ![s] = Gone]
        /\ request' = [r \in RequestIds |-> Cascaded(request[r], s)]
        /\ registration' = [g \in RegistrationIds |-> Cascaded(registration[g], s)]
        /\ outbox' = outbox
    BY DEF CommitDeleteSeason
  <1>3. TypeOK'
    BY <1>2 DEF IInv, TypeOK, CommitDeleteSeason, End, Cascaded
  <1> HIDE DEF s
  <1>4. \A r \in RequestIds :
          Exists(request'[r]) <=> Exists(request[r]) /\ request[r].season # s
    BY <1>2, ExistsType DEF Cascaded
  <1>5. \A r \in RequestIds : Exists(request'[r]) => request'[r] = request[r]
    BY <1>2, ExistsType DEF Cascaded
  <1>6. \A g \in RegistrationIds :
          Exists(registration'[g]) <=> Exists(registration[g]) /\ registration[g].season # s
    BY <1>2, ExistsType DEF Cascaded
  <1>7. \A g \in RegistrationIds : Exists(registration'[g]) => registration'[g] = registration[g]
    BY <1>2, ExistsType DEF Cascaded
  <1>8. \A r \in RequestIds, g \in RegistrationIds :
          /\ Origin(r, g) /\ request[r].season # s => Origin(r, g)'
          /\ Origin(r, g) => request[r].season = registration[g].season
    BY <1>4, <1>5, <1>6, <1>7 DEF Origin, Accepted, Exists
  <1>9. EachAcceptedIsRegistered'
    BY <1>4, <1>5, <1>8 DEF IInv, EachAcceptedIsRegistered, Accepted, Exists
  <1>10. EachRegistrationIsAccepted'
    BY <1>6, <1>7, <1>8 DEF IInv, EachRegistrationIsAccepted, Exists
  <1>11. OneRegistrationPerSeason'
    BY <1>6, <1>7 DEF IInv, OneRegistrationPerSeason, Exists
  <1>12. OneClubPerSeason'
    BY <1>4, <1>5 DEF IInv, OneClubPerSeason, Accepted, Exists
  <1>13. OutboxMatchesRequests'
    <2>1. \A r \in RequestIds : request'[r] = NoRow => request[r] = NoRow
      BY <1>2, RowAssumption DEF Cascaded, IInv, TypeOK, Exists
    <2> QED
      BY <1>2, <1>4, <1>5, <2>1 DEF IInv, OutboxMatchesRequests, Accepted, Exists
  <1>14. RowsBelongToSeasons'
    <2>1. \A z \in Seasons : z # s /\ Exists(season[z]) => Exists(season'[z])
      BY <1>2 DEF IInv, TypeOK
    <2>2. \A r \in RequestIds : Exists(request[r]) => request[r].season \in Seasons
      BY DEF IInv, TypeOK, Exists, RequestRow
    <2>3. \A g \in RegistrationIds :
            Exists(registration[g]) => registration[g].season \in Seasons
      BY DEF IInv, TypeOK, Exists, RegistrationRow
    <2> QED
      BY <1>4, <1>5, <1>6, <1>7, <2>1, <2>2, <2>3 DEF IInv, RowsBelongToSeasons, Exists
  <1> QED
    BY <1>3, <1>9, <1>10, <1>11, <1>12, <1>13, <1>14 DEF IInv

\* A request is inserted pending: it corresponds to no registration yet.
LEMMA CreateRequestStep ==
  ASSUME IInv, NEW t \in Threads, NEW k \in RequestIds, CommitCreateRequest(t, k)
  PROVE  IInv'
  <1> DEFINE new == [season |-> txn[t].season, club |-> txn[t].club,
                     player |-> txn[t].player, status |-> "pending_player_confirmation"]
  <1>1. txn[t] \in [op : {"create"}, season : Seasons, club : Clubs, player : Players]
    BY DEF IInv, TypeOK, CommitCreateRequest, Running, Transaction
  <1>2. new \in RequestRow
    BY <1>1 DEF RequestRow
  <1>3. /\ request[k] = NoRow /\ outbox[k] = <<>>
        /\ Exists(season[new.season])
        /\ request' = [request EXCEPT ![k] = new]
        /\ outbox' = [outbox EXCEPT ![k] = <<"registration.requested">>]
        /\ UNCHANGED <<season, registration>>
    <2>1. request[k] = NoRow /\ outbox[k] = <<>>
      BY DEF IInv, OutboxMatchesRequests, CommitCreateRequest
    <2>2. Append(outbox[k], "registration.requested") = <<"registration.requested">>
      BY <2>1
    <2>3. outbox' = [outbox EXCEPT ![k] = <<"registration.requested">>]
      BY <2>2 DEF CommitCreateRequest, Emit
    <2> QED
      BY <2>1, <2>3 DEF CommitCreateRequest
  <1>4. TypeOK'
    BY <1>2, <1>3 DEF IInv, TypeOK, CommitCreateRequest, End, EventSequences
  <1>5. new.status = "pending_player_confirmation"
    OBVIOUS
  <1> HIDE DEF new
  <1>6. /\ request'[k] = new /\ Exists(request'[k]) /\ ~Exists(request[k])
        /\ \A r \in RequestIds : r # k => request'[r] = request[r]
    BY <1>2, <1>3, ExistsType DEF IInv, TypeOK
  <1>7. \A r \in RequestIds : /\ Accepted(r)' <=> Accepted(r)
                              /\ Accepted(r) => r # k
    BY <1>5, <1>6 DEF Accepted, Exists
  <1>8. \A r \in RequestIds, g \in RegistrationIds : Origin(r, g)' <=> Origin(r, g)
    BY <1>3, <1>6, <1>7 DEF Origin, Exists
  <1>9. EachAcceptedIsRegistered' /\ EachRegistrationIsAccepted'
    BY <1>3, <1>7, <1>8
       DEF IInv, EachAcceptedIsRegistered, EachRegistrationIsAccepted, Exists
  <1>10. OneRegistrationPerSeason'
    BY <1>3 DEF IInv, OneRegistrationPerSeason, Exists
  <1>11. OneClubPerSeason'
    BY <1>6, <1>7 DEF IInv, OneClubPerSeason
  <1>12. OutboxMatchesRequests'
    <2> SUFFICES ASSUME NEW r \in RequestIds
                 PROVE  /\ request'[r] = NoRow => outbox'[r] = <<>>
                        /\ Exists(request'[r]) =>
                             outbox'[r] = IF Accepted(r)'
                               THEN <<"registration.requested", "registration.accepted">>
                               ELSE <<"registration.requested">>
      BY DEF OutboxMatchesRequests, Exists
    <2>1. CASE r = k
      BY <2>1, <1>3, <1>6, <1>7, ExistsType DEF IInv, TypeOK
    <2>2. CASE r # k
      BY <2>2, <1>3, <1>6, <1>7 DEF IInv, TypeOK, OutboxMatchesRequests
    <2> QED
      BY <2>1, <2>2
  <1>13. RowsBelongToSeasons'
    BY <1>3, <1>6 DEF IInv, RowsBelongToSeasons, Exists
  <1> QED
    BY <1>4, <1>9, <1>10, <1>11, <1>12, <1>13 DEF IInv

\* Accepting a request adds the only registration of its player and season, so the
\* request had not been accepted before and no other request of them had.
LEMMA DecideRequestStep ==
  ASSUME IInv, NEW t \in Threads, NEW n \in RegistrationIds, CommitDecideRequest(t, n)
  PROVE  IInv'
  <1>1. PICK k \in RequestIds : k = txn[t].request
    BY DEF IInv, TypeOK, CommitDecideRequest, Running, Transaction
  <1> DEFINE new == [season |-> request[k].season, club |-> request[k].club,
                     player |-> request[k].player]
             accepted == [request[k] EXCEPT !.status = "accepted"]
  <1>2. /\ Exists(request[k]) /\ ~Registered(request[k].player, request[k].season)
        /\ registration[n] = NoRow
        /\ request' = [request EXCEPT ![k] = accepted]
        /\ registration' = [registration EXCEPT ![n] = new]
        /\ outbox' = [outbox EXCEPT ![k] = Append(@, "registration.accepted")]
        /\ txn' = [txn EXCEPT ![t] = Idle]
        /\ UNCHANGED <<now, season>>
    BY <1>1 DEF CommitDecideRequest, Register, Emit, End
  <1>3. /\ request[k] \in RequestRow /\ accepted \in RequestRow
        /\ new \in RegistrationRow
    BY <1>1, <1>2 DEF IInv, TypeOK, Exists, RequestRow, RegistrationRow
  <1>4. /\ new.season = request[k].season /\ new.club = request[k].club
        /\ new.player = request[k].player
        /\ accepted.season = request[k].season /\ accepted.club = request[k].club
        /\ accepted.player = request[k].player /\ accepted.status = "accepted"
    BY <1>3 DEF RequestRow
  <1>5. \A r \in RequestIds :
          Accepted(r) => ~(/\ request[r].player = request[k].player
                           /\ request[r].season = request[k].season)
    BY <1>2 DEF IInv, EachAcceptedIsRegistered, Origin, Registered
  <1>6. outbox[k] = <<"registration.requested">>
    BY <1>1, <1>2, <1>5 DEF IInv, OutboxMatchesRequests
  <1>7. outbox' = [outbox EXCEPT ![k] = <<"registration.requested", "registration.accepted">>]
    <2>1. Append(outbox[k], "registration.accepted")
            = <<"registration.requested", "registration.accepted">>
      BY <1>6, AppendEvent
    <2> QED
      BY <1>2, <2>1
  <1>8. TypeOK'
    BY <1>1, <1>2, <1>3, <1>7
       DEF IInv, TypeOK, EventSequences
  <1> HIDE DEF new, accepted
  <1>9. /\ request'[k] = accepted /\ Exists(request'[k])
        /\ \A r \in RequestIds : r # k => request'[r] = request[r]
    BY <1>1, <1>2, <1>3, ExistsType DEF IInv, TypeOK
  <1>10. /\ registration'[n] = new /\ Exists(registration'[n]) /\ ~Exists(registration[n])
         /\ \A g \in RegistrationIds : g # n => registration'[g] = registration[g]
    BY <1>2, <1>3, ExistsType DEF IInv, TypeOK
  <1>11. \A r \in RequestIds : Accepted(r)' <=> Accepted(r) \/ r = k
    BY <1>4, <1>5, <1>9 DEF Accepted, Exists
  <1>12. Origin(k, n)'
    BY <1>1, <1>4, <1>9, <1>10, <1>11 DEF Origin, Exists
  <1>13. \A r \in RequestIds, g \in RegistrationIds : Origin(r, g) => Origin(r, g)'
    <2> SUFFICES ASSUME NEW r \in RequestIds, NEW g \in RegistrationIds, Origin(r, g)
                 PROVE  Origin(r, g)'
      OBVIOUS
    <2>1. r # k /\ g # n
      BY <1>5, <1>10 DEF Origin
    <2> QED
      BY <2>1, <1>9, <1>10, <1>11 DEF Origin, Exists
  <1>14. EachAcceptedIsRegistered'
    BY <1>11, <1>12, <1>13 DEF IInv, EachAcceptedIsRegistered
  <1>15. EachRegistrationIsAccepted'
    <2> SUFFICES ASSUME NEW g \in RegistrationIds, Exists(registration'[g])
                 PROVE  \E r \in RequestIds : Origin(r, g)'
      BY DEF EachRegistrationIsAccepted, Exists
    <2>1. CASE g = n
      BY <2>1, <1>1, <1>12
    <2>2. CASE g # n
      BY <2>2, <1>10, <1>13 DEF IInv, EachRegistrationIsAccepted
    <2> QED
      BY <2>1, <2>2
  <1>16. OneRegistrationPerSeason'
    <2>1. \A g \in RegistrationIds : Exists(registration[g]) =>
            ~(registration[g].player = new.player /\ registration[g].season = new.season)
      BY <1>2, <1>4 DEF Registered
    <2> QED
      BY <2>1, <1>10 DEF IInv, OneRegistrationPerSeason, Exists
  <1>17. OneClubPerSeason'
    BY <1>4, <1>5, <1>9, <1>11 DEF IInv, OneClubPerSeason
  <1>18. OutboxMatchesRequests'
    <2> SUFFICES ASSUME NEW r \in RequestIds
                 PROVE  /\ request'[r] = NoRow => outbox'[r] = <<>>
                        /\ Exists(request'[r]) =>
                             outbox'[r] = IF Accepted(r)'
                               THEN <<"registration.requested", "registration.accepted">>
                               ELSE <<"registration.requested">>
      BY DEF OutboxMatchesRequests, Exists
    <2>1. CASE r = k
      BY <2>1, <1>7, <1>9, <1>11, ExistsType DEF IInv, TypeOK
    <2>2. CASE r # k
      BY <2>2, <1>7, <1>9, <1>11 DEF IInv, TypeOK, OutboxMatchesRequests
    <2> QED
      BY <2>1, <2>2
  <1>19. RowsBelongToSeasons'
    BY <1>1, <1>2, <1>4, <1>9, <1>10 DEF IInv, RowsBelongToSeasons, Exists
  <1> QED
    BY <1>8, <1>14, <1>15, <1>16, <1>17, <1>18, <1>19 DEF IInv

-----------------------------------------------------------------------------

\* Each action of Next preserves the inductive invariant.
LEMMA NextIInv == IInv /\ [Next]_vars => IInv'
  <1> SUFFICES ASSUME IInv, [Next]_vars PROVE IInv'
    OBVIOUS
  <1>1. CASE Tick
    <2>1. TypeOK'
      BY <1>1, FiniteAssumption DEF IInv, TypeOK, Tick
    <2> QED
      BY <1>1, <2>1, QuietStep DEF Tick
  <1>2. ASSUME NEW s \in Seasons, NEW row \in SeasonCreates, CreateSeason(s, row)
        PROVE  IInv'
    BY <1>2, CreateSeasonStep
  <1>3. ASSUME NEW t \in Threads, Rollback(t) PROVE IInv'
    BY <1>3, RollbackStep
  <1>4. ASSUME NEW t \in Threads, NEW s \in Seasons, NEW patch \in SeasonPatches,
               BeginUpdateSeason(t, s, patch)
        PROVE  IInv'
    <2>1. [op |-> "update", season |-> s, patch |-> Changed(season[s], patch)] \in Transaction
      BY ChangedType DEF Transaction
    <2> QED
      BY <1>4, <2>1, BeginStep DEF BeginUpdateSeason
  <1>5. ASSUME NEW t \in Threads, CommitUpdateSeason(t) PROVE IInv'
    BY <1>5, UpdateSeasonStep
  <1>6. ASSUME NEW t \in Threads, NEW s \in Seasons, BeginDeleteSeason(t, s) PROVE IInv'
    <2>1. [op |-> "delete", season |-> s] \in Transaction
      BY DEF Transaction
    <2> QED
      BY <1>6, <2>1, BeginStep DEF BeginDeleteSeason
  <1>7. ASSUME NEW t \in Threads, CommitDeleteSeason(t) PROVE IInv'
    BY <1>7, DeleteSeasonStep
  <1>8. ASSUME NEW t \in Threads, NEW s \in Seasons, NEW c \in Clubs, NEW p \in Players,
               BeginCreateRequest(t, s, c, p)
        PROVE  IInv'
    <2>1. [op |-> "create", season |-> s, club |-> c, player |-> p] \in Transaction
      BY DEF Transaction
    <2> QED
      BY <1>8, <2>1, BeginStep DEF BeginCreateRequest
  <1>9. ASSUME NEW t \in Threads, NEW r \in RequestIds, CommitCreateRequest(t, r) PROVE IInv'
    BY <1>9, CreateRequestStep
  <1>10. ASSUME NEW t \in Threads, NEW r \in RequestIds, BeginDecideRequest(t, r) PROVE IInv'
    <2>1. [op |-> "accept", request |-> r] \in Transaction
      BY DEF Transaction
    <2> QED
      BY <1>10, <2>1, BeginStep DEF BeginDecideRequest
  <1>11. ASSUME NEW t \in Threads, NEW g \in RegistrationIds, CommitDecideRequest(t, g)
         PROVE  IInv'
    BY <1>11, DecideRequestStep
  <1>12. CASE UNCHANGED vars
    <2>1. TypeOK'
      BY <1>12 DEF IInv, TypeOK, vars
    <2> QED
      BY <1>12, <2>1, QuietStep DEF vars
  <1> QED
    BY <1>1, <1>2, <1>3, <1>4, <1>5, <1>6, <1>7, <1>8, <1>9, <1>10, <1>11, <1>12 DEF Next

\* The inductive invariant holds in every reachable state.
LEMMA Invariance == Spec => []IInv
  BY InitIInv, NextIInv, PTL DEF Spec

\* Every reachable state is well typed (the tables of models/registration.py and
\* models/season.py, and what the handlers hold between load and commit).
THEOREM RegistrationTypeOK == Spec => []TypeOK
  <1>1. IInv => TypeOK
    BY DEF IInv
  <1> QED
    BY <1>1, Invariance, PTL

\* decide_request keeps accepted requests and registrations in one to one
\* correspondence, however handlers interleave, fail or race with delete_season.
THEOREM RegistrationAgreement == Spec => []AcceptedIffRegistered
  <1>1. IInv => AcceptedIffRegistered
    <2> SUFFICES ASSUME IInv PROVE AcceptedIffRegistered
      OBVIOUS
    <2>1. \A r \in RequestIds, g, h \in RegistrationIds : Origin(r, g) /\ Origin(r, h) => g = h
      BY DEF IInv, OneRegistrationPerSeason, Origin
    <2>2. \A r, q \in RequestIds, g \in RegistrationIds : Origin(r, g) /\ Origin(q, g) => q = r
      BY DEF IInv, OneClubPerSeason, Origin
    <2>3. ASSUME NEW r \in RequestIds, Accepted(r)
          PROVE  \E g \in RegistrationIds :
                   Origin(r, g) /\ \A h \in RegistrationIds : Origin(r, h) => h = g
      BY <2>1, <2>3 DEF IInv, EachAcceptedIsRegistered
    <2>4. ASSUME NEW g \in RegistrationIds, Exists(registration[g])
          PROVE  \E r \in RequestIds :
                   Origin(r, g) /\ \A q \in RequestIds : Origin(q, g) => q = r
      BY <2>2, <2>4 DEF IInv, EachRegistrationIsAccepted
    <2> QED
      BY <2>3, <2>4 DEF AcceptedIffRegistered
  <1> QED
    BY <1>1, Invariance, PTL

\* No player is ever accepted by two clubs for one season (the constraint
\* uq_player_season_registration stops the second decide_request).
THEOREM RegistrationOneClub == Spec => []OneClubPerSeason
  <1>1. IInv => OneClubPerSeason
    BY DEF IInv
  <1> QED
    BY <1>1, Invariance, PTL

\* queue_event writes in the transaction of the request: the outbox holds exactly
\* the events of what was committed.
THEOREM RegistrationOutbox == Spec => []OutboxMatchesRequests
  <1>1. IInv => OutboxMatchesRequests
    BY DEF IInv
  <1> QED
    BY <1>1, Invariance, PTL

\* delete_season leaves nothing behind, and nothing is written for a season after
\* it is gone.
THEOREM RegistrationRows == Spec => []RowsBelongToSeasons
  <1>1. IInv => RowsBelongToSeasons
    BY DEF IInv
  <1> QED
    BY <1>1, Invariance, PTL

-----------------------------------------------------------------------------
(* The cap of a squad *)

Unraced(s, c) == <<s, c>> \notin races

\* A season that was loaded is there or was deleted since.  Unless the squad was raced about, it
\* still has the room that create_request saw.
RoomFound(t) ==
  Running(t, "create") =>
    /\ season[txn[t].season] # NoRow
    /\ Unraced(txn[t].season, txn[t].club) /\ Exists(season[txn[t].season])
         => Cardinality(Squad(txn[t].club, txn[t].season)) < season[txn[t].season].max_squad_size

SeasonsStand == \A s \in Seasons : season[s] # NoRow => season'[s] # NoRow

RaceInv == Racing \subseteq races /\ \A t \in Threads : RoomFound(t)

CapKept == \A s \in Seasons, c \in Clubs : Unraced(s, c) => SquadCapStep(s, c)

LEMMA RaceInvInit == MCInit => RaceInv
  <1> SUFFICES ASSUME MCInit PROVE RaceInv
    OBVIOUS
  <1>1. \A t \in Threads : txn[t] = Idle
    BY DEF MCInit, Init
  <1>2. Racing = {}
    BY <1>1 DEF Racing, Race, Works
  <1> QED
    BY <1>1, <1>2 DEF RaceInv, RoomFound, Running

\* A request to create has a season and a club.
LEMMA CreateFields ==
  ASSUME TypeOK, NEW t \in Threads, Running(t, "create")
  PROVE  txn[t].season \in Seasons /\ txn[t].club \in Clubs
  BY DEF TypeOK, Running, Transaction

\* A race in progress is recorded.
LEMMA RaceRecorded ==
  ASSUME RaceInv, NEW s \in Seasons, NEW c \in Clubs, NEW t \in Threads, NEW u \in Threads,
         t # u, Race(s, c, t, u)
  PROVE  ~Unraced(s, c)
  <1>1. <<s, c>> \in Racing
    BY DEF Racing
  <1> QED
    BY <1>1 DEF RaceInv, Unraced

\* A request that goes on still finds room, if the squad did not grow and the cap stayed.
LEMMA GoesOn ==
  ASSUME IInv, races \subseteq races', SeasonsStand,
         NEW u \in Threads, RoomFound(u), txn'[u] = txn[u],
         ASSUME Running(u, "create"), Unraced(txn[u].season, txn[u].club),
                Exists(season'[txn[u].season])
         PROVE  /\ Exists(season[txn[u].season])
                /\ season'[txn[u].season].max_squad_size = season[txn[u].season].max_squad_size
                /\ Squad(txn[u].club, txn[u].season)' \subseteq Squad(txn[u].club, txn[u].season)
  PROVE  RoomFound(u)'
  <1> SUFFICES ASSUME Running(u, "create"), Unraced(txn[u].season, txn[u].club),
                      Exists(season'[txn[u].season])
               PROVE  Cardinality(Squad(txn[u].club, txn[u].season)')
                        < season'[txn[u].season].max_squad_size
    BY CreateFields DEF RoomFound, Running, Unraced, Exists, Squad, SeasonsStand, IInv
  <1> DEFINE s == txn[u].season
             squad == Squad(txn[u].club, s)
             after == Squad(txn[u].club, s)'
  <1>1. /\ s \in Seasons /\ Exists(season[s])
        /\ season'[s].max_squad_size = season[s].max_squad_size /\ after \subseteq squad
    BY CreateFields DEF IInv
  <1>2. Cardinality(squad) < season[s].max_squad_size
    BY <1>1 DEF RoomFound
  <1>3. season[s].max_squad_size \in Nat
    BY <1>1 DEF IInv, TypeOK, Exists, SeasonRow
  <1>4. IsFiniteSet(squad)
    BY FiniteAssumption, FS_Subset DEF Squad
  <1>5. /\ Cardinality(squad) \in Nat /\ Cardinality(after) \in Nat
        /\ Cardinality(after) <= Cardinality(squad)
    BY <1>1, <1>4, FS_Subset, FS_CardinalityType
  <1> QED
    BY <1>1, <1>2, <1>3, <1>5

\* No request is new and a season that exists keeps its cap, or disappears.
LEMMA QuietKeepsRoom ==
  ASSUME IInv, RaceInv, races \subseteq races', SeasonsStand,
         \A r \in RequestIds : Exists(request'[r]) =>
           /\ Exists(request[r]) /\ request'[r].season = request[r].season
           /\ request'[r].club = request[r].club,
         \A u \in Threads : txn'[u] = txn[u] \/ txn'[u] = Idle \/ RoomFound(u)',
         \A u \in Threads : /\ Running(u, "create") /\ txn'[u] = txn[u]
                            /\ Unraced(txn[u].season, txn[u].club)
                            /\ Exists(season'[txn[u].season])
           => /\ Exists(season[txn[u].season])
              /\ season'[txn[u].season].max_squad_size = season[txn[u].season].max_squad_size
  PROVE  (\A u \in Threads : RoomFound(u)') /\ CapKept
  <1>1. \A s \in Seasons, c \in Clubs : Squad(c, s)' \subseteq Squad(c, s)
    BY DEF Squad
  <1>2. ASSUME NEW u \in Threads PROVE RoomFound(u)'
    <2>1. CASE txn'[u] = txn[u]
      BY <1>1, <2>1, GoesOn, CreateFields DEF RaceInv, IInv
    <2>2. CASE txn'[u] = Idle
      BY <2>2 DEF RoomFound, Running
    <2> QED
      BY <2>1, <2>2
  <1>3. CapKept
    BY DEF CapKept, SquadCapStep, Exists
  <1> QED
    BY <1>2, <1>3

\* A request begins when its guards hold.
LEMMA BeginFindsRoom ==
  ASSUME IInv, RaceInv, races \subseteq races', NEW t \in Threads, NEW work, Begin(t, work),
         work.op = "create" =>
           /\ Exists(season[work.season])
           /\ Cardinality(Squad(work.club, work.season)) < season[work.season].max_squad_size
  PROVE  (\A u \in Threads : RoomFound(u)') /\ CapKept
  <1>1. txn' = [txn EXCEPT ![t] = work] /\ UNCHANGED <<season, request>>
    BY DEF Begin
  <1>2. RoomFound(t)'
    BY <1>1 DEF RoomFound, Running, Squad, Exists, IInv, TypeOK
  <1>3. \A u \in Threads : u # t => txn'[u] = txn[u]
    BY <1>1 DEF IInv, TypeOK
  <1> QED
    BY <1>1, <1>2, <1>3, QuietKeepsRoom DEF SeasonsStand

\* The thread that ends leaves the others as they are.
LEMMA OthersStay ==
  ASSUME IInv, NEW t \in Threads, End(t)
  PROVE  txn'[t] = Idle /\ \A u \in Threads : u # t => txn'[u] = txn[u]
  BY DEF End, IInv, TypeOK

\* An update of the cap is recorded as a race about every squad that a request is being created
\* for; any other leaves the cap alone.
LEMMA UpdateKeepsRoom ==
  ASSUME IInv, RaceInv, races \subseteq races', NEW t \in Threads, CommitUpdateSeason(t)
  PROVE  (\A u \in Threads : RoomFound(u)') /\ CapKept
  <1> DEFINE s == txn[t].season
             patch == txn[t].patch
  <1>1. /\ s \in Seasons /\ Exists(season[s]) /\ season[s] \in SeasonRow
        /\ UNCHANGED request /\ Works(t, "update") /\ End(t)
    BY DEF CommitUpdateSeason, Running, Works, IInv, TypeOK, Transaction, Exists
  <1>2. season'[s] = Patched(season[s], patch) /\ \A z \in Seasons : z # s => season'[z] = season[z]
    BY <1>1 DEF CommitUpdateSeason, IInv, TypeOK
  <1>3. ASSUME NEW u \in Threads, Running(u, "create"), txn'[u] = txn[u],
               Unraced(txn[u].season, txn[u].club), Exists(season'[txn[u].season])
        PROVE  /\ Exists(season[txn[u].season])
               /\ season'[txn[u].season].max_squad_size = season[txn[u].season].max_squad_size
    <2>1. txn[u].season \in Seasons /\ txn[u].club \in Clubs /\ u # t /\ Works(u, "create")
      BY <1>1, <1>3, CreateFields DEF IInv, Running, Works
    <2>2. CASE txn[u].season # s
      BY <1>2, <1>3, <2>1, <2>2
    <2>3. CASE txn[u].season = s
      <3>1. "max_squad_size" \notin DOMAIN patch
        BY <1>1, <1>3, <2>1, <2>3, RaceRecorded DEF Race
      <3>2. "max_squad_size" \in DOMAIN season[s]
        BY <1>1 DEF SeasonRow
      <3> QED
        BY <1>1, <1>2, <2>3, <3>1, <3>2 DEF Patched
    <2> QED
      BY <2>2, <2>3
  <1>4. \A u \in Threads : txn'[u] = txn[u] \/ txn'[u] = Idle
    BY <1>1, OthersStay
  <1>5. SeasonsStand
    <2>1. patch \in Patches
      BY DEF CommitUpdateSeason, Running, IInv, TypeOK, Transaction
    <2>2. Patched(season[s], patch) \in SeasonRow
      BY <1>1, <2>1, PatchesType, PatchedType
    <2> QED
      BY <1>2, <2>2, RowAssumption DEF SeasonsStand
  <1> QED
    BY <1>1, <1>3, <1>4, <1>5, QuietKeepsRoom DEF Exists

LEMMA DeleteKeepsRoom ==
  ASSUME IInv, RaceInv, races \subseteq races', NEW t \in Threads, CommitDeleteSeason(t)
  PROVE  (\A u \in Threads : RoomFound(u)') /\ CapKept
  <1> DEFINE s == txn[t].season
  <1>1. End(t) /\ s \in Seasons
    BY DEF CommitDeleteSeason, Running, IInv, TypeOK, Transaction
  <1>2. season'[s] = Gone /\ \A z \in Seasons : z # s => season'[z] = season[z]
    BY <1>1 DEF CommitDeleteSeason, IInv, TypeOK
  <1>3. \A r \in RequestIds : request'[r] \in {request[r], Gone}
    BY DEF CommitDeleteSeason, Cascaded
  <1>4. \A u \in Threads : txn'[u] = txn[u] \/ txn'[u] = Idle
    BY <1>1, OthersStay
  <1>5. ASSUME NEW u \in Threads, Running(u, "create"), Exists(season'[txn[u].season])
        PROVE  season'[txn[u].season] = season[txn[u].season]
    BY <1>2, <1>5, CreateFields DEF IInv, Exists
  <1>6. SeasonsStand
    BY <1>2, RowAssumption DEF SeasonsStand
  <1> QED
    BY <1>3, <1>4, <1>5, <1>6, QuietKeepsRoom DEF Exists

LEMMA DecideKeepsRoom ==
  ASSUME IInv, RaceInv, races \subseteq races', NEW t \in Threads, NEW g \in RegistrationIds,
         CommitDecideRequest(t, g)
  PROVE  (\A u \in Threads : RoomFound(u)') /\ CapKept
  <1> DEFINE k == txn[t].request
  <1>1. End(t) /\ k \in RequestIds /\ request[k] \in RequestRow /\ UNCHANGED season
    BY DEF CommitDecideRequest, Running, IInv, TypeOK, Transaction, Exists
  <1>2. /\ request'[k] = [request[k] EXCEPT !.status = "accepted"]
        /\ \A r \in RequestIds : r # k => request'[r] = request[r]
    BY <1>1 DEF CommitDecideRequest, IInv, TypeOK
  <1>3. /\ request'[k].season = request[k].season /\ request'[k].club = request[k].club
        /\ Exists(request[k])
    BY <1>1, <1>2, ExistsType DEF RequestRow
  <1>4. \A u \in Threads : txn'[u] = txn[u] \/ txn'[u] = Idle
    BY <1>1, OthersStay
  <1> QED
    BY <1>1, <1>2, <1>3, <1>4, QuietKeepsRoom DEF Exists, SeasonsStand

\* The request is one more than the squad that create_request counted.
LEMMA CreateKeepsCap ==
  ASSUME IInv, RaceInv, NEW t \in Threads, NEW k \in RequestIds, CommitCreateRequest(t, k),
         Unraced(txn[t].season, txn[t].club)
  PROVE  SquadCapStep(txn[t].season, txn[t].club)
  <1> DEFINE c == txn[t].club
             s == txn[t].season
             new == [season |-> s, club |-> c, player |-> txn[t].player,
                     status |-> "pending_player_confirmation"]
             squad == Squad(c, s)
             after == {q \in RequestIds : /\ Exists(request'[q])
                                          /\ request'[q].season = s /\ request'[q].club = c}
  <1>1. s \in Seasons /\ season[s] \in SeasonRow /\ Exists(season[s])
    BY DEF IInv, TypeOK, CommitCreateRequest, Running, Transaction, Exists
  <1>2. /\ request[k] = NoRow /\ request'[k] = new
        /\ \A q \in RequestIds : q # k => request'[q] = request[q]
    BY DEF CommitCreateRequest, IInv, TypeOK
  <1>3. Cardinality(squad) < season[s].max_squad_size
    BY <1>1 DEF CommitCreateRequest, RaceInv, RoomFound
  <1>4. IsFiniteSet(squad) /\ k \notin squad
    BY <1>2, FiniteAssumption, FS_Subset DEF Squad, Exists
  <1>5. after \subseteq squad \cup {k}
    BY <1>2 DEF Squad
  <1>6. /\ IsFiniteSet(squad \cup {k})
        /\ Cardinality(squad \cup {k}) = Cardinality(squad) + 1
    BY <1>4, FS_AddElement
  <1>7. Cardinality(after) <= Cardinality(squad) + 1 /\ Cardinality(after) \in Nat
    BY <1>5, <1>6, FS_Subset, FS_CardinalityType
  <1>8. season[s].max_squad_size \in Nat /\ Cardinality(squad) \in Nat
    BY <1>1, <1>4, FS_CardinalityType DEF SeasonRow
  <1>9. Cardinality(after) <= season[s].max_squad_size
    <2> HIDE DEF squad, after
    <2> QED
      BY <1>3, <1>7, <1>8
  <1> QED
    BY <1>9 DEF SquadCapStep

LEMMA CreateKeepsRoom ==
  ASSUME IInv, RaceInv, races \subseteq races', NEW t \in Threads, NEW k \in RequestIds,
         CommitCreateRequest(t, k)
  PROVE  (\A u \in Threads : RoomFound(u)') /\ CapKept
  <1> DEFINE c == txn[t].club
             s == txn[t].season
  <1>1. /\ Works(t, "create") /\ End(t) /\ UNCHANGED season
        /\ s \in Seasons /\ c \in Clubs
    BY CreateFields DEF CommitCreateRequest, Running, Works, IInv
  <1>2. /\ request[k] = NoRow /\ request'[k].season = s /\ request'[k].club = c
        /\ \A q \in RequestIds : q # k => request'[q] = request[q]
    BY DEF CommitCreateRequest, IInv, TypeOK
  <1>3. ASSUME NEW u \in Threads, u # t PROVE RoomFound(u)'
    <2>1. txn'[u] = txn[u] /\ RoomFound(u)
      BY <1>1, <1>3, OthersStay DEF RaceInv
    <2>2. ASSUME Running(u, "create"), Unraced(txn[u].season, txn[u].club)
          PROVE  Squad(txn[u].club, txn[u].season)' \subseteq Squad(txn[u].club, txn[u].season)
      <3>1. txn[u].season # s \/ txn[u].club # c
        BY <1>1, <1>3, <2>2, RaceRecorded DEF Race, Running, Works
      <3> QED
        BY <1>2, <2>1, <3>1 DEF Squad
    <2> QED
      BY <1>1, <2>1, <2>2, GoesOn DEF SeasonsStand
  <1>4. RoomFound(t)'
    BY <1>1, OthersStay DEF RoomFound, Running
  <1>5. ASSUME NEW z \in Seasons, NEW d \in Clubs, Unraced(z, d) PROVE SquadCapStep(z, d)
    <2>1. CASE z = s /\ d = c
      BY <1>5, <2>1, CreateKeepsCap
    <2>2. CASE z # s \/ d # c
      BY <1>2, <2>2 DEF SquadCapStep, Exists
    <2> QED
      BY <2>1, <2>2
  <1> QED
    BY <1>3, <1>4, <1>5 DEF CapKept

\* A step, in which races that have been stay recorded.
LEMMA RaceStep ==
  ASSUME IInv, RaceInv, races \subseteq races', Next
  PROVE  (\A u \in Threads : RoomFound(u)') /\ CapKept
  <1>1. CASE Tick
    BY <1>1, QuietKeepsRoom DEF Tick, SeasonsStand
  <1>2. ASSUME NEW s \in Seasons, NEW row \in SeasonCreates, CreateSeason(s, row)
        PROVE  (\A u \in Threads : RoomFound(u)') /\ CapKept
    <2>1. /\ season[s] = NoRow /\ UNCHANGED <<request, txn>> /\ season'[s] = row /\ Exists(row)
          /\ \A z \in Seasons : z # s => season'[z] = season[z]
      BY <1>2, ExistsType, SeasonInputsAssumption DEF CreateSeason, IInv, TypeOK
    <2>2. SeasonsStand
      BY <2>1 DEF SeasonsStand, Exists
    <2>3. \A u \in Threads : Running(u, "create") => txn[u].season \in Seasons \ {s}
      BY <2>1, CreateFields DEF RaceInv, RoomFound, IInv
    <2> QED
      BY <2>1, <2>2, <2>3, QuietKeepsRoom DEF Exists
  <1>3. ASSUME NEW t \in Threads,
               \/ \E s \in Seasons, patch \in SeasonPatches : BeginUpdateSeason(t, s, patch)
               \/ \E s \in Seasons : BeginDeleteSeason(t, s)
               \/ \E s \in Seasons, c \in Clubs, p \in Players : BeginCreateRequest(t, s, c, p)
               \/ \E r \in RequestIds : BeginDecideRequest(t, r)
        PROVE  (\A u \in Threads : RoomFound(u)') /\ CapKept
    BY <1>3, BeginFindsRoom DEF BeginUpdateSeason, BeginDeleteSeason, BeginCreateRequest,
       BeginDecideRequest
  <1>4. ASSUME NEW t \in Threads, Rollback(t) PROVE (\A u \in Threads : RoomFound(u)') /\ CapKept
    <2>1. \A u \in Threads : txn'[u] = txn[u] \/ txn'[u] = Idle
      BY <1>4, OthersStay DEF Rollback
    <2> QED
      BY <1>4, <2>1, QuietKeepsRoom DEF Rollback, SeasonsStand
  <1> QED
    BY <1>1, <1>2, <1>3, <1>4, UpdateKeepsRoom, DeleteKeepsRoom, DecideKeepsRoom, CreateKeepsRoom
       DEF Next

LEMMA RaceInvKeeps == IInv /\ RaceInv /\ [MCNext]_<<vars, races>> => RaceInv'
  <1> SUFFICES ASSUME IInv, RaceInv, [MCNext]_<<vars, races>> PROVE RaceInv'
    OBVIOUS
  <1>1. CASE MCNext
    BY <1>1, RaceStep DEF MCNext, RaceInv
  <1>2. CASE UNCHANGED <<vars, races>>
    <2>1. Racing' = Racing
      BY <1>2 DEF vars, Racing, Race, Works
    <2>2. \A u \in Threads : RoomFound(u)'
      BY <1>2 DEF vars, RaceInv, RoomFound, Running, Squad, Exists, Unraced
    <2> QED
      BY <1>2, <2>1, <2>2 DEF RaceInv
  <1> QED
    BY <1>1, <1>2

LEMMA MCInvariance == MCSpec => [](IInv /\ RaceInv)
  <1>1. [MCNext]_<<vars, races>> => [Next]_vars
    BY DEF MCNext, vars
  <1> QED
    BY <1>1, InitIInv, NextIInv, RaceInvInit, RaceInvKeeps, PTL DEF MCSpec, MCInit

\* create_request keeps a squad within the cap of its season unless the club asked for two
\* players at once, or for one while the cap was being changed: against every other request in
\* progress its count and its insert need no lock, whatever the clock does and even if the season
\* is deleted in between.
THEOREM RegistrationCap == MCSpec => SquadCapUnlessRaced
  <1>1. IInv /\ RaceInv /\ [MCNext]_<<vars, races>>
        => [\A s \in Seasons, c \in Clubs : <<s, c>> \notin races => SquadCapStep(s, c)]_vars
    BY RaceStep DEF MCNext, CapKept, Unraced
  <1> QED
    BY <1>1, MCInvariance, PTL DEF MCSpec, SquadCapUnlessRaced
=============================================================================
