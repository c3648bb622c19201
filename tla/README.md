# Football League Management System: specifications and proofs

TLA+ specifications of the league management service of this repository: a FastAPI
application over PostgreSQL, a transactional outbox that publishes to SQS, a Lambda and
a worker that send emails, and a Next.js web client. Each module is translated from the
Python or TypeScript source. TLC checks the modules on small instances, and TLAPS proves
the invariants of some of them for all instances.

- [1. The system](#1-the-system)
- [2. How requests run](#2-how-requests-run)
- [3. Modules](#3-modules)
- [4. Runs](#4-runs)
- [5. Bounds](#5-bounds)
- [6. Fairness](#6-fairness)
- [7. Proofs](#7-proofs)
- [8. Where code and documentation disagree](#8-where-code-and-documentation-disagree)
- [9. What is not modelled](#9-what-is-not-modelled)
- [10. Plan](#10-plan)

Commands, in this directory:

    tlc -workers 2 -config season_concurrent.cfg MCClubSeason
    tlapm OutboxProofs.tla

## 1. The system

Paths are relative to the repository root. "Hard" is what interleavings, failures and
time can do to the component, "correct" what must hold nevertheless.

| component | state | operations | hard | correct |
|---|---|---|---|---|
| Seasons (`app/services/season_service.py`, `app/models/season.py`) | dates, squad size, archived flag; **status is computed** from the clock at each read | create, partial update, delete with cascade | status changes without a write between check and commit; delete races with handlers that loaded the season | nothing outlives its season |
| Registration (`registration_service.py`) | `registration_requests`, `player_season_registrations` | create a request (window, not registered, squad cap), acknowledge it | check-then-insert without locks; two clubs ask for one player | accepted requests and registrations correspond; one club per season; squad cap |
| Outbox (`events.py`, `outbox_relay.py`) | `outbox_events` | queue in the caller's transaction; relay tick: lock, send, mark | four relays at once; crash between send and commit; lost replies | no event lost, none invented, duplicates only after faults, every event settles |
| Consumers (`infra/lambda/notification_handler.py`, `app/workers/sqs_consumer.py`) | the batch at hand | receive, mail, skip, report failures, delete | partial failure of a batch; crash between mail and delete; redelivery | what is deleted was mailed or needs no email |
| Club membership (`club_membership_service.py`, `release_service.py`) | `players.club_id`, invites, releases, audit rows | invite, accept, reject, cancel, release; a player made club admin (`assign_role`) | two accepts, a release and an answer at once, an admin made meanwhile; audit written after commit | a club only by its invite or as its admin, one at a time, left only by release; answers stand; decisions audited |
| Users row (`user_sync.py`, `routers/users.py`) | `users.role`, `users.club_id`; attributes in Cognito | copy of the claims at each request, repair by `GET /users/me/` | claims older than the database | role and club agree with governance rows |
| Club season (`club_season_service.py`) | profile of a club in a season, staff, unlock requests, approvals | submit, review, approve/reject late submissions, staff | approvals that do not see each other; window closes while a submission is in progress; profile approved from two sides | approval by two clubs, never by the author; a late profile is never forgotten; staff cap |
| Accounts (`user_service.py`) | users, governance rows, players, Cognito accounts | create, assign and revoke roles, delete, restore, account actions | two stores without a common transaction | both stores agree after a failure, or can be repaired |
| Sessions (`routers/auth.py`, `app/dependencies/`) | tokens, `last_logout_at`, the key cache | login, challenge, refresh, logout, token check | clock granularity, cache refill while others look up | a token is refused after logout, and only then |
| Browser session (`frontend/app/api/auth`, `middleware.ts`, `hooks/useCurrentUser.ts`, the login page) | two cookies per browser; per tab the page and the cached identity | login, challenge, logout, routing by cookie, fetch of the identity | cookies expire under open tabs; late answers of another tab; the cached identity outlives the login | a tab ends up with the user of its cookie, or at the login page |
| Query cache (`QueryProvider.tsx`, `useQuery`/`useMutation` of all pages) | per key the last answer, whether it is stale, a fetch under way | mount, focus, poll, fetch, retry, mutate, invalidate | a fetch that was sent before a mutation and answered after it; errors and retries | an answered write is not hidden by fresh data; every page shows its own writes |
| Dialogs (one per form of the dashboard) | a form, an open target, a mutation | open, type, submit, close, answer | late answers close or empty a dialog that is used for something else by then | nothing is submitted twice, for another row, or over the user's own last save |
| Squad submission (`clubs/[id]/page.tsx`, `submissions/page.tsx`) | the profile, and what each page shows of it | create, list, submit; review, approve, return | three requests without a transaction; decisions from stale lists | squads get submitted and decided on, and what is approved was shown |
| Uploads (`storage.py` and eight forms) | keys in rows, objects in S3 | ask for a URL, post, save the key | the URL expires, the post fails, the save is refused | a key in a row names an object |
| Work lists (dashboard, sidebar, profile) | lists of invites and requests | visit, fetch, decide | six components, one cache, different conditions | what waits for a user is offered and counted |
| Notifications (`notification_service.py`) | notifications, preferences | notify, mark read, preferences | polled by the client | shown in the end |
| Players, clubs, documents, reports, audit log, middleware, migrations | single rows, files, text | CRUD and reads | little beyond database constraints | |

How they interact:

    frontend --HTTP--> FastAPI handlers (threads) --SQL--> PostgreSQL
                          |                                   ^   |
                          +--Cognito (accounts, tokens)       |   | outbox_events
                                                              |   v
                                         relay (one per worker process) --> SQS --> Lambda or worker --> SES
                                                                            |
                                                                            +--> dead letter queue

- Registration, membership and release services call `queue_event` and
  `write_audit_log` in their own transaction; the relay reads what they committed.
- Every authenticated request first passes `get_current_user`, which checks the token
  and calls `get_or_create_user`: the claims overwrite `users.role` and `users.club_id`,
  in a commit of its own.
- A tab of the web client asks through `app/api/proxy`, which puts the ID token of the cookie
  into the `Authorization` header; its pages share one query cache, and learn of changes by
  invalidation after their own mutations, by staleness, focus, and, for notifications, polling.
- Files go from the browser to S3 directly; the API signs the upload and is told the key.
- Club-season and membership rules read the season's computed status; the number of
  accepted registration requests decides whether a profile may be submitted.

## 2. How requests run

Endpoints are plain `def` functions, so Starlette runs each request on a thread of its
pool, and `infra/user_data.sh:186-188` starts four gunicorn worker processes. Each
request has its own SQLAlchemy session (`app/db.py:8-17`, `autoflush=False`) on
PostgreSQL's default isolation level, READ COMMITTED. No service takes a row lock or
compares a version column before it writes; the only `FOR UPDATE` of the code is the
relay's. Hence the way handlers are modelled:

- `Begin…` loads rows, evaluates all guards, and stores in `txn[t]` exactly what the
  handler will write later on the strength of what it read.
- `Commit…` writes. It does not re-read what the handler does not re-read. Only the
  constraints of the database (foreign keys and cascades, unique constraints) can still
  refuse it.
- A handler that reads again after a flush has a `Flush…` action between the two. A
  flushed update keeps its row locked until the commit (`ProfileFree` in `ClubSeason`,
  `Locked` in `Accounts`).
- A handler that commits more than once, or that calls Cognito, has an action for each
  commit and each call; `call` says which one it is at. There is no common transaction,
  so that the process may die, or a reply be lost, between any two of them.
- An `UPDATE` writes only the columns that differ from what the session loaded.
- `Rollback(t)` is a refused constraint, an exception or a dead process. A handler that
  returns an error without writing is a stutter, and is not an action.

Some promises of the documentation are broken when two requests are in progress at the same
time and one writes what the other has read. The MC modules of the services carry a history
variable `races`: which *kind* of race two requests in progress were ever in, and what it was
about, a player, a squad, an unlock request, the profile or the staff. A property then reads
`Unraced(kind, x) => P(x)`: the promise about `x` holds under every interleaving that has no race
of the one kind that breaks it, about the same `x`. All other requests may overlap, and so may
those about other rows. What each promise excuses:

| promise | unless |
|---|---|
| a squad keeps its cap (`SquadCapUnlessRaced`) | the club asked for two players at once, or for one while the cap was being changed |
| one pending invite of a club for a player | the same club sent two at once |
| a pending invite is to a player without a club | a club sent it while the player was joining one; or, without any race, `assign_role` put the player into a club while the invite was pending |
| a player is in one club at a time | two requests were bringing the player into different clubs, each by an accepted invite or as an admin |
| a player leaves a club by its release | a release was in progress while the player joined another club |
| an answered invite stays as it is | it was answered twice at once, or another was accepted, which withdraws it |
| a quorum decides an unlock request | two approvals of it were counted at once |
| a decided unlock request stays as it is | it was being rejected and approved at once |
| the profile keeps to its lifecycle | two requests led it to different statuses |
| a late submission is tracked by an unlock request | a request got its last approval while the profile was being submitted |
| the staff keeps its cap | two people were added at once |

"Joining" a club is an acceptance in progress, or an `assign_role` in progress that found the player
free. Each line is needed: without that kind of race in `races`, TLC finds the promise violated. So the
table is also the list of what locks or constraints would have to exclude; the hazard list names
the lines, and a violation run shows one of them (section 8). `MCAccounts` and `MCSession` have
`overlaps` and the like, the kinds of handlers that have overlapped (two that insert a role, two
that change the password, a deletion and the next creation, …), to the same end. A property whose
definition names no such history holds under every interleaving.

The web client is one thread per tab, but a mutation, a fetch and the user interleave at
every `await`: each request has an action that sends it, one in which the server reads or
commits, and one in which its callback runs, in any order relative to others. Several tabs
and users are pages or tabs of a module, or a `Foreign`/`Other` action that changes the rows.

`KeyCache` is different: threads of one process share a dictionary, and each statement is
an action, because the interpreter may switch threads between any two.

## 3. Modules

| module | models | state and actions |
|---|---|---|
| `Season` | `models/season.py`, `SeasonCreate`/`SeasonUpdate` | `Status(row, now)` is the property that compares the dates with the clock; `Changed`/`Patched` are the columns a partial update writes. No variables: it is a library of the other modules. |
| `Registration` | `registration_service.py`, `season_service.py` | tables `season`, `request`, `registration`; `outbox` holds the events committed per request; `now` is the clock. One Begin/Commit pair per handler, `CreateSeason` and `Tick` in one step. |
| `EventDelivery` | the promise of `events.py` and `models/outbox.py` | abstract: committed, published, marked, mailed sets of events; at-least-once with weak fairness of publication. |
| `Outbox` | `events.py`, `outbox_relay.py`, `notification_handler.py`, `sqs_consumer.py`; SQS, SES external | `row` is `outbox_events`; `tick[r]` the rows a relay locked, has left to send, and sent; `message[m]` the queue; `job[c]` what a consumer took; `mails[e]` what SES accepted. Faults (death, lost reply, failed delete) can strike between any two steps. |
| `ClubMembership` | `club_membership_service.py`, `create_release`, `assign_role` as far as it concerns players, `user_sync.py`, `GET /users/me/` | `playerClub` is `players.club_id`, `user` the `users` row, `governance` its role rows, `claims` the Cognito attributes that tokens carry, `audit` the audit rows by action and entity. |
| `ClubSeason` | `club_season_service.py` | one club in one season, since every query of the service is restricted to one: `profile`, `unlock`, `approvals`, `staff`. `windowOpen` and `squadReady` are what `Season` and `Registration` compute, changing at any time. |
| `KeyCache` | the JWKS cache of `dependencies/__init__.py`; Cognito external | `cache` is `_jwks_by_kid`, `stale` whether `_JWKS_TTL_S` has passed, `published` Cognito's keys, `lookup[t]` the statement a thread is at. |
| `Session` | `routers/auth.py`, `cognito.py`, the revocation check of `get_current_user`, the password reset of `user_service.py`, the frontend's auth routes | one user: `lastLogout` and `forceChange` are columns of its row, `password` and the liveness of each `token` are Cognito's, `call` the handlers in progress, `now` a clock with several ticks to a second. |
| `Accounts` | `user_service.py`, `user_sync.py` | one person: `account` in Cognito; `user`, `rows` (`user_governance_roles`) and `player` in PostgreSQL; `token[d]` the claims a device holds; `call[a]` the step an administrator's handler is at. |
| `QueryCache` | `QueryProvider.tsx`, `apiFetch`, the proxy's answers; TanStack Query external | one entry of one tab: `data` and `fetch` carry the writes that they miss, `write[w]` is a use of a mutation, `place` the open page. A mutation is a `Kind`: does it write behind the key, invalidate it, reload the page. |
| `Pages` | every `useQuery` and `useMutation` of the dashboard | constants only: which keys each place watches for each viewer, and which tables each mutation writes and which keys it invalidates. `EntryOf` turns them into entries of `QueryCache`. |
| `DialogForms`, `Dialogs` | the twenty dialogs | `DialogForms` classifies each by who mounts form and mutation, what empties and closes it. `Dialogs` follows one: `open`, `form`, `call`, and the rows and the list they come from. The form of the club does not send what is empty (`omits`). |
| `SquadSubmission` | `submitMutation`, the submissions page, `club_season_service.py` in single steps | `profile` is the row, `club` and `league` what the pages show and the request they are at. |
| `DocumentUpload` | the eight forms that ask, post and save; `storage.py`; S3 external | `page[p]` the step of a submission, `bucket` S3, `rows` the keys that the database names. |
| `Worklists` | sidebar badges, `PendingDecisionsList`, profile sections, the list endpoints | `invites`, `requests`, `cache` per key with its `enabled` condition, `spot` (the open page); `clubOf` and `adminOf` as invites, releases and `assign_role` leave them, one request at a time. |
| `BrowserSession` | login page, route handlers, `middleware.ts`, `useCurrentUser` | `cookie`, `live` sessions, `tab`s with their cached identity, `call`s under way. |
| `MC…` | | instances, symmetry, history variables, and the properties that need them. |
| `RegistrationProofs`, `OutboxProofs`, `ClubMembershipProofs`, `ClubSeasonProofs` | | theorems about the module of that name and its MC module, section 7. |
| `AccountsProofs` | | theorems about `MCAccounts`. |
| `SessionProofs` | | theorems about `MCTokens`: `MCSession` and `MCKeyCache`. |
| `PagesProofs` | | theorems about `MCPages`: `QueryCache`, `Worklists`, `Dialogs` and `MCSquadSubmission`. |
| `WebClientProofs` | | theorems about `DocumentUpload`, a part of `MCWebClient`. |

`MCTokens`, `MCPages` and `MCWebClient` each check several modules in one run. Their modules
share no state, so that these compositions are *sums*: a variable `part` is drawn in the
initial state, and the behaviour follows that module while the others rest. The states are the
union, not the product, of the states of the parts, and each property is about one part.

Points that are easy to miss when the modules are compared with the code:

- *Seasons change status without a step.* `Tick` alone opens and closes windows, between
  Begin and Commit of any handler.
- *`created_at` is not commit order.* Events are numbered by `created_at`, which
  PostgreSQL sets at the start of the transaction; `QueueEvent` commits them in any order.
- *The relay's commit is at the end of the tick.* `SendRow` marks nothing; `CommitTick`
  marks all rows sent. `RelayDies` in between leaves published rows unsent.
- *The Lambda deletes nothing itself.* `LambdaReturns` makes reported messages visible
  and deletes the others, skipped ones included. The worker deletes after each message.
- *`release_player` commits before it writes the audit row*, so its commit has no `Audit`.
- *`create_release` changes PostgreSQL only*: `claims` is unchanged, and `SyncUser` brings
  them back.
- *An approval counts the approvals that its own session sees* (`FlushApprove`), before
  it commits.
- *Late submissions and staff changes use `scalar_one_or_none`*: with two pending (or two
  approved) requests the query raises; the corresponding actions are disabled, because the
  request then fails without effect.

- *`hard_delete_user` deletes in Cognito first*, and `assign_role` tells Cognito before it
  commits; a refusal of the latter is swallowed (`TellFails`), one of the former ends the
  handler (`RemoveFails`).
- *Reading heals*: `attach_governance_roles` runs at the end of every handler and of every
  list of users, and gives an administrator without a club the club of a role row.
- *The response is decoded after the dictionary was cleared*: `Fails` can strike at `fill`,
  with the cache empty.
- *`iat` is in whole seconds, `last_logout_at` is not*; `TakeTime` and `CommitLogout` are
  apart, and both come after Cognito has ended the sessions.
- *The frontend logs out with the ID token*, which `GlobalSignOut` refuses: `BrowserLogout`
  only clears the cookie, and the sessions stay live.
- *`enabled` queries keep their last answer*: a list that is no longer asked for is still in
  the cache, and `profileBadge` and `PendingDecisionsList` read it (`Worklists`).
- *`invalidateQueries` replaces a fetch under way only if there are data already* and the key is
  watched; a first load goes on and may bring data from before the write (`late`).
- *`onSuccess` belongs to the mutation, not to the opening of the dialog*: a page-mounted dialog
  that was closed and opened for another row is closed by the answer (`Ends`).
- *`assign_role` moves players*: `CommitAssign` puts a player who was found free into the club and
  leaves the pending invites alone; Cognito hears of it before the commit (`TellCognito`).
- *An acceptance looks for the invites that it withdraws before its flush*: `BeginDecide` stores them
  as `others`, and one that is committed afterwards stays pending.
- *The dashboard lists five requests at most* (`ListLimit`, `DashboardHome.tsx:397`), in the order of
  the answer; `PendingDecisionsList` is the set of what those may be.
- *The form of a release asks with GET, the route is POST*; the password page posts to a route
  that does not exist (`Served`): these two forms never get to their save.

Mutants, the operators whose comment begins with "Mutant", stand before the definition they
are a defective version of. No specification uses them; each shows that some property is
violated when the code has that defect.

## 4. Runs

| run | instance | shows |
|---|---|---|
| `registration_concurrent` | 2 threads, 2 clubs, 2 players, 1 season, 3 requests, 3 registrations, clock 0..3 | under all interleavings accepted requests and registrations correspond one to one, a player has one club, the outbox tells exactly what was committed and nothing outlives its season; squads keep their cap unless requests for that squad raced |
| `outbox_lambda` | 2 events of 2 types, 2 relays, 1 Lambda, 3 messages, batches of 2, 2 faults | no event is lost; with no fault nothing is sent or mailed twice, each fault adds one message of an event at most, and the emails of a message once more |
| `outbox_live` | 2 events, 2 relays, 1 worker, 3 messages, 1 fault, fairness | refines `EventDelivery` with its fairness; every committed event is settled; a message with a recipient is deleted only after its email |
| `membership_concurrent` | 2 threads, 1 player (2 kinds of account), 2 clubs, 2 invites, 1 release; one of the clubs makes players its admins | joining only by an accepted invite or as an admin of the club; an accepted invite brings its player there; decisions audited; unless two requests about the player raced, moves go through releases, answers stand, only free players have a pending invite (but for those that `assign_role` found), one per club |
| `membership_two_accepts` | 2 threads, 2 invites | **violated**: a player moves from one club to another without a release |
| `season_concurrent` | 2 threads, the club's admin, 2 league admins, 2 unlock requests, 2 staff members, cap 1 | unlock requests are approved by two clubs and never by their author, profiles only by a request that loaded them under review, or late and with the quorum of an unlock request; unless two requests raced, a quorum decides, decisions stand, late submissions are tracked, the lifecycle and the staff cap hold |
| `tokens` | 2 API clients, 1 browser, 1 administrator, clock 0..4, 2 ticks to a second, 1 death; or 2 threads, 3 keys, 3 published sets | between handlers the row and Cognito agree on whether the password must be changed; no token of a session that was logged out is accepted, and a live session is refused only in the second of the logout; a lookup finds a published key if no other thread refreshes meanwhile |
| `accounts_concurrent` | 2 administrators (super admins), 1 device, 1 club, 2 role rows, role club_admin, 2 accounts one after the other | no Cognito account without a users row, one row per role, deletion in two steps; each with the overlap that breaks it excused |
| `accounts_converge` | 1 administrator (3 kinds of caller), 1 device, 1 account, all assignable roles, 1 fault, fairness | without fault and overlap Cognito has the role and club of the governance rows; whatever failed, the users row ends up with Cognito's role once administrators are done |
| `pages` | every key for 5 kinds of viewer with 2 writes; every dialog with 2 targets, 1 field, 2 values, 2 calls; 2 club pages and 1 league page, 2 rounds; 2 players, 2 clubs, lists of 1 | fresh data show every answered write that invalidates the key, and every page its own writes, but for data whose fetch was under way at the answer and could not be replaced; saves stand but for fields that are not sent, nothing is submitted twice or for another row; the league approves what its page showed; what waits for a player is offered by the profile, listed by the dashboard as far as it has room, and counted by the badge |
| `browser` | 1 tab and others elsewhere, 2 users, 2 logins, 2 calls, fairness | the tab comes to show the user of the cookie with all roles, and leaves the dashboard when its session is over |
| `client` | notifications of 5 viewers with 2 writes; 1 club page, 1 league page, 3 rounds; 8 upload forms, 2 tabs, 3 keys; fairness | notifications are shown, squads get submitted and decided on by users who keep trying; rows name objects |

`CHECK_DEADLOCK FALSE` is set for `Registration`, `Outbox`, `ClubMembership` and `ClubSeason`:
when all keys are used, the clock has stopped and nothing is in progress, the system
rests. The same holds of the program when nobody sends a request. In the other modules
there is always something to do, and deadlock is checked. The sums of the web client contain
only modules of that kind.

Each property of a passing run is shown to be violated by a mutant of the mapped
definitions.

## 5. Bounds

- *Threads*: two. The races of this code are pairs (a check and a foreign write). Three
  approvals are reached with two threads, one after the other.
- *Keys* (`RequestIds`, `InviteIds`, …) are primary keys: a bound on the rows ever
  inserted. Two requests for one player and a third that fills the squad are needed in
  `Registration`, hence 3; two invites race in `ClubMembership`; two unlock requests meet
  in `ClubSeason`.
- *`MaxTime = 3`* passes all four statuses of the season of the instance (draft at 0, open
  at 1 and 2, active at 3), and its edits reach a longer window, a smaller squad and the
  archive. Status "closed" has the same effect as "active" on every guard of
  `Registration`.
- *`MaxFaults`*: deaths and lost replies anywhere, on top of any number of refusals by SES and
  SQS. There are 2 in `outbox_lambda`, since those of relays and of consumers multiply: one
  makes a second message of an event, the next repeats the emails of a batch that holds both.
  In the runs with fairness there is 1. The proofs cover any number.
- *`MessageIds`*: an event is published once, and again after a fault; 3 messages
  for 2 events leave room for it.
- *`MaxReceive = 2`* (3 in the stack): first delivery and one redelivery before the dead
  letter queue. *`BatchLimit`* (50) and *`ReceiveLimit`* (10) are 1 or 2: full batches and
  rows that are left for another relay both happen.
- *`MaxStaff = 1`* (10): the cap is reached by one person and overrun by the second.
  `MinApprovals = 2` is the value of the code.
- *`StaffApart`*, the state constraint of `season_concurrent`, explores the staff only
  while there is no profile. Staff and profile read the window and the unlock requests but
  never each other, and no property relates the two. `OwnSubmission` leaves the submission of
  the profile to the club's admin, so that both league admins may decide the unlock request that
  it makes; `OneRace` stops after the
  first race: what a second one, of another kind or about another row, leaves of the other
  promises is left to the proofs, which have neither bound.
- *`membership_concurrent`*: the two accounts (`TwoOrigins`) are a free player without a role, and one
  who plays for one club, manages the other and is a league admin as well. `OneRace` as above.
  `OneGrant`: only one of the two clubs makes players its admins, one at a time, which is enough for
  a grant to meet an invite of the same and of another club. `LocksAtRest`: a season locks or unlocks
  only while no request is in progress, as the lock is looked at when a release begins and by nothing
  afterwards. `MeAlone`: `GET /users/me/` overlaps nothing, as it writes the users row, which no guard
  reads. `membership_two_accepts` has no grants (`NobodyAssigns`): its finding is about two
  acceptances. The proofs have none of these bounds.
- *Squads* are 1 or 2 instead of 30; *`squadReady`* stands for the minimum number of accepted
  requests that a submission needs.
- *`KeyCache`*: the key in use is replaced by its successor, with a period in which both are
  published; the third key is one that is never published. Lookups, refreshes and rotations
  are unbounded.
- *`Session`*: with `TicksPerSecond = 2`, `Lifetime = 3` and `MaxTime = 4`, a token can be
  issued in the second of a logout, before it and after it, and expire. `MaxDeaths = 1`.
  `StillClaimed`, the state constraint of `tokens`, stops where logouts have overlapped and a
  password change has overlapped or died as well: none of the properties claims anything of
  what comes after, so that nothing they could find is cut off.
- *`Accounts`*: with two administrators `MaxSubs = 2` accounts are made for the address, one
  after the other was deleted for good: handlers of the first, tokens of the first and the
  creation of the second meet. With one administrator, faults and fairness it is 1, and a second
  creation is refused by Cognito. Two row keys are a duplicate of one role, or both administrator
  roles. `MaxFaults` is 0 with two administrators, where refusals by Cognito and overlaps do the
  harm, and 1 with one. The two administrators are super admins (`MCSuperAdmin`): the others may
  do less of the same. `Named` is the roles that are asked for. `StillClaimed`, the state
  constraint, stops where two kinds of overlap that break a property have come together (the
  third property would still be claimed there; the theorems of `AccountsProofs` say it of every
  state), and where both accounts have come and gone.
- *`QueryCache`*: an entry is two sets of effects, so that the dozens of keys of the five
  viewers fall into few distinct entries, all of which are explored. Two writes are a
  mutation and what overlaps it: another one, or a foreign write. The proofs cover any
  number and any entries.
- *`Dialogs`*: two targets (the one a form is about and another), one field with an empty
  and a filled value, two submissions: the late answer of one meets the other. A second
  field would only show at once what two dialogs show one after the other.
- *`SquadSubmission`*: `MaxRounds` bounds submissions. `pages` has two club pages, whose
  three-step submissions interleave; `client`, where fairness makes the check expensive, one.
- *`DocumentUpload`*: three object keys are one for each tab and one that a row names; a key
  that nothing refers to is used again, which stands for the unbounded supply of `uuid4`.
- *`Worklists`*: Me, another player, two clubs: each list can hold rows that are not mine. `FewRows`
  stops at two pending rows, one more than the dashboard has room for (`ListLimit = 1` instead of 5);
  the theorems have neither bound. `PageSymmetry` swaps the clubs besides the writes.
- *`BrowserSession`*: one tab is followed, `Elsewhere` stands for all others of the browser;
  two logins, hence a session that replaces another.
- *Symmetry*: permutations of keys, threads, clubs and players, which the modules only
  compare for equality; in `ClubSeason` the two league admins swap together with their
  clubs. The runs with fairness use none.

Simplifications of the environment: in `NextPoll` the messages that the worker failed are
visible at its next poll, whereas SQS shows them after the visibility timeout. The timeout
itself (360 s, `football_league_stack.py:393`) is six times the time a Lambda may run
(60 s, :434): a consumer never works on a batch that has expired, and only its death
(`ConsumerDies`) lets a batch expire.

## 6. Fairness

`outbox_live` (`FairSpec` of `Outbox`):

- weak fairness of `SelectRows`, the send loop and `CommitTick` of each relay: APScheduler
  starts a tick every 300 ms, and `publish_pending` catches the errors of a row and goes on;
- strong fairness of sending each row: SQS outages end. Weak fairness would not do, as a
  refused row is dropped from its tick and taken up by a later one;
- weak fairness of receiving, handling and deleting: the event source mapping and the
  worker's `while` loop poll without end;
- weak fairness of `DeadLetter`: SQS applies its redrive policy.

No fairness is assumed of SES, of faults or of the services: a message that SES refuses
each time ends in the dead letter queue, which `Settled` allows.

`accounts_converge` (`FairSpec` of `Accounts`):

- weak fairness of `Continues(a)`: a handler's thread goes on to its next statement;
- weak fairness of `Expire`: tokens live for an hour at most;
- weak fairness of a login without a token, and strong fairness of `Request`: the person
  keeps using the application. `RoleConverges` is about such a person, since the users row
  is only ever repaired by a request. Strong fairness, as a token may expire between two
  requests.

Administrators are under no obligation to do anything; the property assumes that they are
done at some time.

`client` (`Fairness` of `QueryCache` and `SquadSubmission`):

- weak fairness of `Poll`, the `refetchInterval` of `MobileNav.tsx:360` and the notifications page; strong
  fairness of `Read` and `Arrive`: not every poll fails. Nothing is assumed of mutations,
  navigation or focus. A browser throttles timers of tabs in the background; the property is
  about a tab in front.
- `SubmissionsAreDecided` and `SquadGetsSubmitted` are about users who keep trying: weak
  fairness of the loads and clicks that the pages offer them, strong fairness of the requests,
  which fail but not for ever. Whether the admins click is up to them; the properties say
  that the pages and the endpoints never stand in their way.

`browser` (`Fairness` of `BrowserSession`): the tab is used, that is weak fairness of the passing
of `staleTime`, of focus and of visits, and of the end of the request for the identity; strong
fairness of `Recognised`, as an API that is down comes back. `DeadSessionEnds` adds weak
fairness of `ExpireCookie`, whose `Max-Age` the browser enforces.

## 7. Proofs

All theorems hold for every value of the constants that satisfies the named assumptions
(`RowAssumption`, `SeasonInputsAssumption`, `FiniteAssumption`, `NoDateAssumption`,
`OutboxAssumption`, `MembershipAssumption`, `ClubSeasonAssumption`, `AccountsAssumption`,
`SessionAssumption`, `KeysAssumption`, `QueryCacheAssumption`, `PagesAssumption`,
`ListsAssumption`, `UploadAssumption`, `NullAssumption`). These say that null values are no rows
and no clubs, that the administrator's inputs are seasons and updates of the right type, that
callers and the roles that they name are roles, and that limits are natural numbers. They are
evaluated by TLC with every run. Two theorems have a hypothesis besides: `OwnWritesAreShown`
(`Complete`, on tables of mutations) and `ShownIsApproved` (`OneLeaguePage`: one league admin,
in one tab). Every invariant and every action property of the passing runs has a theorem.

*Unless raced.* Five theorems are about the specifications with the history variable `races`
(`MCSpec`): `RegistrationCap`, `InvitesProtected`, `MovesProtected`, `PromisesProtected` and
`LifecycleProtected`. They follow one argument. A guard is evaluated when a request begins; the
promise needs some of it to be true still at the commit. `FoundStillHolds` (`RoomFound` for
registrations) says of every request in progress what that is, and until which race it lasts: the
status that a review is about to give the profile follows from the present one, or the profile
has it; an approval that found no quorum completes none; and so on. It is not the guard itself,
which other requests do falsify without harm: two submissions of one profile, two identical
reviews or two rejections of one request are no races, and the second of them finds done what it
was going to do. `RaceInv` adds that requests in progress are in no race that `races` does not
know (`Racing \subseteq races`), and the promises, which are inductive with it. A step preserves
it for the request that takes the step, by what the guard says (`BeginFinds`, `FlushFinds`), and
for every other request, because the two would have raced otherwise (`NoRace`) or because the step
leaves the tables alone that the other depends on (`GoesOn`). The clock and the windows change
beside a request in progress; no guard that a promise relies on reads them.

**`RegistrationProofs`** proves `TypeOK`, `AcceptedIffRegistered`, `OneClubPerSeason`,
`OutboxMatchesRequests` and `RowsBelongToSeasons`. `AcceptedIffRegistered` is not inductive:
the uniqueness in it does not say why two registrations cannot share a request. `IInv`
splits it into its two directions and adds `OneRegistrationPerSeason`, the content of
`uq_player_season_registration`: two rows for one player and season are the same row.
With it, an acceptance adds a registration where there was none, and the cascade of
`delete_season` removes both sides of a pair. One lemma per action shows that it preserves
`IInv`; that Begin actions only write `txn` is shown once. `AppendEvent`, `PatchedType`
and `ChangedType` are facts about the operators.

**`OutboxProofs`** proves `TypeOK`, `NoEventLost`, `OneHandler` and that `Spec` implements
`Delivery!DSafety`. `NoEventLost` speaks of rows and messages only, but whether a message may
be deleted is known to the consumer, and whether a row may be marked to the relay. So
`IInv` states what ticks and jobs hold:

- `TicksHoldRows`: a tick holds committed rows, and those in `done` are published. So
  `CommitTick` marks published rows only.
- `JobsHoldMessages`: a job holds messages in flight, and those it is through with and
  did not fail (`Handled`) are served: mailed, or in no need of an email. So
  `DeleteMessage` and `LambdaReturns` delete served messages only.
- `TicksApart`, `JobsApart`: no two relays hold a row, no two consumers a message.
- `MessagesBelong`, `SentArePublished`, `MailedArePublished`: what the tables say in between.

The refinement maps `QueueEvent` to `Commit`, `SendRow` and `SendReplyLost` to `Publish` (or
a stutter, if the event was published before), `CommitTick` to `Mark` of the whole batch,
`MailMessage` and `MailReplyLost` to `Mail`, and all other actions to a stutter.

It also proves `DuplicatesComeFromFaults`, by counting what may still be sent or
mailed. A row is `Gone` once it is marked or a tick has sent it; a message is `Concluded`
once it is deleted or a job is through with it and did not fail it. `SentWithin` says that an
event has at most one message for each fault, and one if it is gone; `MailedWithin` that its
emails are at most `faults` for each message, and one for each concluded message. A relay that
dies takes its rows back from `Gone`, a consumer that dies its messages from `Concluded`: the
fault pays for both. That a row is sent, or a message handled, only while it is not gone or
concluded needs the ticks and jobs to be disjoint and `TicksUnsent`,
`JobsSplit`: a relay holds no marked row, and sends none twice in a tick. An event with several
messages, which faults of relays make, can be mailed as often by each fault of a consumer;
hence the product in the bound.

**`ClubMembershipProofs`** proves `TypeOK` and `DecisionsAreWhole`, the action property that an
answer is one transaction. The guards of `decide_invite` hold when it begins, not when it
commits; what lasts is that rows of invites are never deleted, so that the invite which a
transaction has loaded still exists (`LoadedInvitesExist`). The proof of the property has
four kinds of steps: acceptances, grants of club_admin, the other answers, and steps that neither
answer nor bring a player into a club. What other transactions did to the player in between is not
needed, which is why the property holds under every interleaving while `membership_two_accepts`
fails.

`InvitesProtected` needs more than that the player was free: an acceptance or a grant ends with the
player in a club, and whatever is pending for the player by then must have been found. So
`FoundStillHolds` says of an acceptance that the invites which it will withdraw are all that are
pending (`FindsAll`), which an invite that is sent meanwhile would falsify, a race. A grant withdraws
nothing: what is pending when it commits becomes `stranded` (`Stranding`), a history that ends when
the invite is answered or the player's club changes, and the promise is about the other invites.

**`ClubSeasonProofs`** proves `TypeOK`, `ApprovedByQuorum` and `ProfileApproval`, which says of the
request that approves a profile what it had itself loaded: the profile under review, or a late one
that waits while the approval makes the quorum of its unlock request. The session
that approves counts clubs before it commits, and others commit meanwhile. `Sound` states what
a request in progress has found and can rely on: if it counted a quorum, the clubs of the
committed approvals and its own are a quorum now. It is stable because approvals are never
deleted and authors never change (`Grows`), so that clubs only become more (`ClubsGrow`, with
the finiteness of the set of approvals). `ApprovalsByOthers` excludes the author's own vote.

For the promises that races break, `FoundStillHolds` has a part for each: `LedOn` (the status that
a request brings follows from the profile's), `StillOpen` (what it decides is undecided, or decided
the same way), `CountStands` (an approval without a quorum completes none), `TracksLate` and
`RoomLeft`. `TracksLate` relates several requests. Of two submissions in progress, one from
before and one from after the window has closed, the former leaves `is_late` as the latter has set
it, since the column is written only if it differs from what was loaded (`wasLate`): it relies on
the unlock request that the latter leaves behind. An approval that found a quorum and no late
profile that waits does no harm as long as no submission is in progress, which is the race
`SubmittedWhileUnlocked`.

**`WebClientProofs`** proves `RowsNameObjects` for the forms that upload through a signed
URL. No server checks it: the invariant is that a page at its save has posted the file
(`SavesPosted`), and that keys are fresh when they are given out, so that no other page
empties the object between post and save.

**`AccountsProofs`** proves all that the runs say of an account but `RoleConverges`, for any
number of administrators, devices, clubs and accounts that come and go. First, one lemma for
each action says what the step does, as far as the invariants need it; the rest of the module
only uses these lemmas.

- `BaseInv`: types, and `RowsInv`: a handler that writes governance rows has found its user, and
  holds the locks of what it replaces.
- `DeletedInTwoSteps` (`SubsInv`, `DeletionInv`): any number of handlers may be deleting the
  user, and `is_deleted` was checked by each a while ago. The proof shows what keeps the check
  true: Cognito lets one handler only remove the account, `users.email` is unique, so that there
  is no other user meanwhile, and subs are issued once. It holds with faults and under every
  overlap but a restoration.
- `RolesHeldOnce` (`InsertsInv`): a handler that will insert a row of a role has found none, and
  none has appeared, since another that inserts would be an overlap.
- `AccountsAreUsers` (`HasUserInv`): every user, and every token, is of the account that there
  is, or of one that was or is being deleted; an account without a user is being created. The
  first attempt failed: a deletion may be between Cognito and its commit when the next account
  is made, whose users row is refused because of the old row's address, which then goes. One
  account per run had hidden it. `AccountHasUser` now excuses this overlap, the run has two
  accounts, and the hazard list names it.
- `CognitoFollowsRows` (`Agreement`): the role and the club that a handler has computed follow
  from the rows *as they will be*, whichever id the new row gets; that there is one club to
  follow from needs `RolesHeldOnce`. Deletions and requests need not be excluded: while Cognito
  is ahead of the rows, the handler that told it is the only one that changes either.

**`SessionProofs`** proves what `tokens` checks, for any number of clients, ticks to a second
and lifetime of tokens, and any number of threads and keys.

- `FlagAgrees` (`FlagInv`): where the challenge and the reset are between Cognito and the row
  they know how the two differ.
- `NoneSurvivesLogout` and `RefusedForASecond` share `LogoutInv`: tokens and logouts are of the
  past; a logout in progress has ended the sessions, and its time is later than all their
  tokens; live tokens are not older than the last logout. The rest is arithmetic on whole
  seconds (`IatIs`).
- `LoneLookupFindsKey` (`KeyInv`): while a lookup is alone, the published key that it asks for
  is on its way to the thread, in the response or in the cache (`HasKey`), from the first
  statement on.

**`PagesProofs`** proves what `pages` checks. The sum of parts needs no product in the proof
either: a step of one part leaves the invariants of the others alone.

Of the query cache it proves `TypeOK`, `ReadYourWrites` and, for tables in which every mutation
invalidates what its page watches (`Complete`), `OwnPageShowsWrites`, for any number of writes
and any entries. `ReadYourWrites` speaks of data that have arrived, but a fetch that was sent
before the write decides what arrives: the invariant says the same of the fetch under way. Both
properties have an exception, `late`: `invalidateQueries` replaces a fetch under way only if the key is
watched and has data already, so that a first load that has read before a write, and is answered
after it, brings data without the write which count as fresh for the stale time. The theorems say
that there are no others.

Of the lists it proves `DecisionsOffered` and `BadgeCountsDecisions`. The pages look into one
list only, into invites if the user has no club, else into requests. That the other list holds
nothing to decide is an invariant of the API: whoever has an invite that is not stranded is in no club
(`InvitesToFree`), and stranded invites are the user's own while in a club (`LeftBehind`): a
release ends that. That the badge counts needs the
lists to be finite, which they are as they grow by one row at a time (`ListsFinite`).

Of the dialogs it proves `OwnSavesStand`, `NotSubmittedAgain` and `TypedForTarget`. The last two
are invariants of how a form is mounted and emptied (`FilledInFor`, `NeverAgain`). The first
relates form, submission and row: `FormKeeps` and `CallKeeps` say that a field which the user
has not filled in is what the user saved last, for the form that is open and for the submission
under way, and `OneCall` that there is only one; a form that was opened before its list came
back, or submitted while an earlier submission was under way, breaks it, and is excused
(`early`); and so is a field that the user emptied in a form which does not send it (`Omitted`).

Of squads it proves `ApprovesWhatWasShown`: unless the league admin acts on a list that was not
fetched again, whatever is reviewed is what the page shows or has not acted upon
(`ReviewedIsShown`). It is inductive because whatever the club or two other clubs do to the
squad, it is not "reviewed" afterwards: only the page of the league admin takes it there.

**Only model-checked**: liveness (`EventsSettle`, the fairness of `AtLeastOnce`,
`RoleConverges`, `NoticesShown`, `SquadGetsSubmitted`, `SubmissionsAreDecided`,
`IdentityConverges`, `DeadSessionEnds`), which is out of the prover's reach; and that each kind of
race does break its promise, a matter of counterexamples. Excluded from the theorems, as from the
properties, are the races that do break a promise; section 2 and the hazard list name each.

## 8. Where code and documentation disagree

One is shown by a violation run; its line numbers are in PROJECT.json:

*One club at a time* (`membership_two_accepts`): `players.club_id` is read, then written, so that
two accepted invites move a player from one club to another without a release. An acceptance and an
`assign_role`, or two of the latter, do the same (`user_service.py:521`).

Others follow from the code without a run. The models do what the code does, and the
hazard list names most of them:

- *Active registrations*: `delete_season` looks only at the season's status; archived seasons
  take their active registrations with them (`season_service.py:155` says "never").
- *Quorum*: two approvals at once count one club each. Both approvers have then voted, so that
  only a third club can still decide (`club_season_service.py:540`).
- *Logout*: the BFF sends the ID token (`logout/route.ts:26`), Cognito wants the access token
  (`routers/auth.py:115`): the cookies go, the sessions stay.
- *Refresh*: the refresh token is stored for 30 days and no route uses it, although
  `lib/auth.ts:17` speaks of a refresh before a 401.
- *Retries*: `QueryProvider.tsx:28` says that 401 and 403 are not retried; only the message
  "Unauthorized" is looked at, which the proxy gives for a missing cookie.
- *Dead requests*: the password page posts to `/auth/change-password`, which no router serves;
  the release dialog asks for its upload URL with GET where the router has POST.
- *Acknowledge*: the profile offers it to league admins who are players
  (`profile/page.tsx:766`), the endpoint requires the role player.
- *Requests out of sight*: the registration request of a released player stays pending and is
  listed nowhere (`OutOfSight` in `Worklists`); "No pending decisions" is shown while an
  invite waits (`DashboardHome.tsx:379`), and a sixth request is not listed (:397).
- *Invite of an admin*: `assign_role` puts a free player into a club and leaves the player's invites
  pending (`user_service.py:519-523`), although an acceptance cancels "all other pending
  invites for this player now that they have joined" (`club_membership_service.py:206`).
  As club_admin the player may not answer them (`routers/club_memberships.py:64`), and no page offers
  them.
- *Emptied fields of a club*: the dialog leaves an emptied short name, e-mail or telephone number
  out of the request (`clubs/[id]/page.tsx:255-258`), and `club_service.py:63` changes only what was
  sent: the old value stays, under the message "Club updated".
- *Revocation gap*: `app/dependencies/__init__.py:31-33` lists as a known limitation that after
  `GlobalSignOut` the current ID token "still works" until its `exp`. The same file refuses it
  (:265-279, `last_logout_at`), and the docstring of `logout` says that this closes the gap
  (`routers/auth.py:119-122`). `SignedOutRefused` is what the code does; the limitation remains for the
  logout of the web client, which never gets that far (*Logout*, above).
- *Late clicks*: `PATCH` of a season and the account actions activate, deactivate and reset look at
  no status, and do what the page would no longer offer.
- *Submit from reviewed*: the endpoint takes a profile that is being reviewed back to
  resubmitted, although the page offers it only for draft and returned.
- *Squad cap*: count and insert are two statements without a lock; two requests of a club at
  once exceed the cap.
- *Templates*: `club_membership.*` events have none, and are deleted without an email.
- *Audit of a release*: the audit row is added after the commit, and rolled back.
- *Revoked role*: `create_release` leaves the role in Cognito, and `user_sync` restores it.
- *Key cache*: "no lock is needed" (`dependencies/__init__.py:29`), but between clear and fill
  another thread finds no key.
- *Second of the logout*: a login in the same second is refused until its token expires.
- *Ghost row*: the token of a user deleted for good makes a users row again.

## 9. What is not modelled

- *Contents*: names, emails, message texts, audit details, documents, reports.
- *Rendering*: layout, filters, search, charts, toasts, lightbox, badges' colours; validation
  schemas of forms.
- *Of squads*: the number of registered players that enables the submit button is taken as met
  in `SquadSubmission`; `ClubSeason` has it as `squadReady`.
- *Values of cached data*: `QueryCache` knows which writes data miss, not what they say.
- *Staff comments and profile comments*: append-only text.
- *`decide_release`*: `create_release` confirms a release at once, so that nothing creates
  a row in the status that `decide_release` needs.
- *Notifications*: who receives one and preferences are queries over governance rows; the
  model has their way to the screen.
- *Cascades into club seasons* when a season is deleted.
- *Rate limits, logging, migrations, deployment*: libraries or generated code. Constraints that migrations create are guards of the actions.
- *Of accounts*: activation, `is_active`, change of the mobile number, the audit log and the status
  of the player, which no rule of the modelled handlers reads. The club of the player is in
  `ClubMembership`, with the grants of club_admin that change it; in `Accounts` the grants of all
  roles have their locks, failures and Cognito calls, but no player's club.
- *Buttons and their endpoints*: which statuses and roles enable a button is a guard where the
  click is modelled, and otherwise left out.
- *More than one person*: `Accounts` and `Session` are about one. Users interact only through
  unique constraints on email address and NIC number.

## 10. Plan

Done: the services in the order of their importance (registration, outbox, membership, club
seasons, accounts, sessions), then the web client: what it caches, submits, offers and lists,
and the browser's sessions.

Left, in this order:

- *proofs* of what several components promise together;
- *the cascade* of `delete_season` into profiles, staff and unlock requests;
- *`decide_release`*, once something creates a release in status `pending_player_confirmation`;
- *recipients and preferences* of notifications, composed with the services that notify;
- *several people* in `Accounts`, for the unique email address and NIC number.
