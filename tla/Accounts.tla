------------------------------ MODULE Accounts ------------------------------
(***************************************************************************)
(* The account of one person (one email address, one NIC number): creation,*)
(* governance roles, deletion and restoration                              *)
(* (app/services/user_service.py), and the first and every later request   *)
(* with a token (user_sync.py).  The person is an account in Cognito, a    *)
(* users row, rows of user_governance_roles, and a players row.            *)
(*                                                                         *)
(* A handler of an administrator makes several commits and Cognito calls,  *)
(* one action each.  A changed governance row is locked until the commit;  *)
(* nothing else is.  Cognito is external.  A request's copy of its claims  *)
(* is one action, and a deletion or restoration without a Cognito call is. *)
(* The player's club and status, is_active and the audit log are left out. *)
(***************************************************************************)
EXTENDS Integers

CONSTANTS Admins, Devices, Clubs, RowIds,
          Callers,              \* role and club of the administrators
          Named,                \* the roles that requests name
          MaxSubs, MaxFaults,   \* bounds on the accounts ever made, and on faults
          NoClub, NoAccount, NoUser, NoToken, NoEntry, Idle

Governance == {"super_admin", "league_admin", "club_admin"}   \* GOVERNANCE_ROLE_SET
Roles == Governance \cup {"player", "user"}
ClubOrNone == Clubs \cup {NoClub}
Subs == 1 .. MaxSubs

ASSUME AccountsAssumption ==
  /\ MaxSubs \in Nat /\ MaxFaults \in Nat /\ NoClub \notin Clubs /\ NoEntry \notin RowIds
  /\ Callers \subseteq [role : Governance, club : ClubOrNone]
  /\ Named \subseteq Governance \cup {"player"}

Claims == [sub : Subs, role : Roles, club : ClubOrNone]
Membership == {"player", "user", "unknown"}   \* member_type; unknown is NULL
User == [sub : Subs, role : Roles, club : ClubOrNone, member : Membership, deleted : BOOLEAN]
GovernanceRow == [id : RowIds, role : Governance, club : ClubOrNone]

Place == [role : Roles, club : ClubOrNone]
Call == [at : {"creating"}, role : Roles, club : ClubOrNone, profile : BOOLEAN]
   \cup [at : {"created", "seeding"}, role : Roles, club : ClubOrNone, sub : Subs]
   \cup [at : {"loaded", "flushed", "told"}, op : {"assign", "revoke"}, sub : Subs,
         role : Governance, club : ClubOrNone, entry : RowIds \cup {NoEntry},
         old : Place, new : Place]
   \cup [at : {"deleting", "removed"}, sub : Subs]

ASSUME NullAssumption ==
  NoAccount \notin Claims /\ NoUser \notin User /\ NoToken \notin Claims /\ Idle \notin Call

VARIABLES account,   \* the attributes in Cognito
          subs,      \* how many accounts Cognito has made
          user,      \* the users row: the email address is unique
          rows,      \* its rows in user_governance_roles
          player,    \* there is a players row with the NIC number
          token,     \* per device
          call,      \* per administrator: the step of the handler
          faults

vars == <<account, subs, user, rows, player, token, call, faults>>
cognito == <<account, subs>>

Init == /\ account = NoAccount /\ subs = 0
        /\ user = NoUser /\ rows = {} /\ player = FALSE
        /\ token = [d \in Devices |-> NoToken]
        /\ call = [a \in Admins |-> Idle]
        /\ faults = 0

Begin(a, c) == call[a] = Idle /\ call' = [call EXCEPT ![a] = c]
At(a, label) == call[a] # Idle /\ call[a].at = label
Goto(a, label) == call' = [call EXCEPT ![a].at = label]
End(a) == call' = [call EXCEPT ![a] = Idle]
Fault == faults < MaxFaults /\ faults' = faults + 1

IsUser(sub) == user # NoUser /\ user.sub = sub
IsAccount(sub) == account # NoAccount /\ account.sub = sub

\* attach_governance_roles gives an administrator without a club the club of a club_admin row,
\* and commits.
Healed(u, rs) ==
  IF u.club = NoClub /\ u.role \in {"club_admin", "league_admin"}
  THEN {[u EXCEPT !.club = r.club] : r \in {q \in rs : q.role = "club_admin" /\ q.club # NoClub}}
  ELSE {}

\* Which row it is, is the database's choice.
Heals(u, rs) == IF Healed(u, rs) = {} THEN user' = u ELSE user' \in Healed(u, rs)

-----------------------------------------------------------------------------
(* create_user *)

\* The email address is free, and the player, if there are personal details, is committed.
\* member_type is the inferred one.
BeginCreate(a, caller, r, c, profile) ==
  /\ caller.role = "league_admin" => r # "super_admin"
  /\ caller.role = "club_admin" => r = "player" /\ c # NoClub
  /\ r = "club_admin" => c # NoClub
  /\ r = "player" => profile
  /\ user = NoUser
  /\ ~(profile /\ player) /\ player' = (profile \/ player)
  /\ Begin(a, [at |-> "creating", role |-> r, club |-> c, profile |-> profile])
  /\ UNCHANGED <<cognito, user, rows, token, faults>>

Created(a) ==
  /\ account = NoAccount /\ subs < MaxSubs /\ subs' = subs + 1
  /\ account' = [sub |-> subs', role |-> call[a].role, club |-> call[a].club]

CreateAccount(a) ==
  /\ At(a, "creating") /\ Created(a)
  /\ call' = [call EXCEPT ![a] = [at |-> "created", role |-> call[a].role,
                                  club |-> call[a].club, sub |-> subs']]
  /\ UNCHANGED <<user, rows, player, token, faults>>

\* The player that was made for this account is deleted again.
PlayerWithdrawn(a) == player /\ ~call[a].profile

\* Cognito refuses, or has an account for the email address.
CreateAccountFails(a) ==
  /\ At(a, "creating")
  /\ player' = PlayerWithdrawn(a)
  /\ End(a)
  /\ UNCHANGED <<cognito, user, rows, token, faults>>

\* Cognito makes the account, and the reply is lost.
CreateReplyLost(a) ==
  /\ At(a, "creating") /\ Created(a) /\ Fault
  /\ player' = PlayerWithdrawn(a)
  /\ End(a)
  /\ UNCHANGED <<user, rows, token>>

\* The first commit; the insert fails if the email address or the sub has a row by now.
CommitUser(a) ==
  /\ At(a, "created")
  /\ IF user # NoUser THEN End(a) /\ UNCHANGED user
     ELSE /\ user' = [sub |-> call[a].sub, role |-> call[a].role, club |-> call[a].club,
                      member |-> IF call[a].role = "player" THEN "player" ELSE "user",
                      deleted |-> FALSE]
          /\ IF call[a].role \in Governance THEN Goto(a, "seeding") ELSE End(a)
  /\ UNCHANGED <<cognito, rows, player, token, faults>>

FreshIds == RowIds \ {r.id : r \in rows}

RowFor(id, r, c) == [id |-> id, role |-> r, club |-> IF r = "club_admin" THEN c ELSE NoClub]

\* The second commit, of the initial governance row; without a user it fails.
SeedRole(a) ==
  /\ At(a, "seeding") /\ End(a)
  /\ IF IsUser(call[a].sub)
     THEN \E id \in FreshIds :
            LET seeded == rows \cup {RowFor(id, call[a].role, call[a].club)}
            IN rows' = seeded /\ Heals(user, seeded)
     ELSE UNCHANGED <<user, rows>>
  /\ UNCHANGED <<cognito, player, token, faults>>

-----------------------------------------------------------------------------
(* assign_role and revoke_governance_role *)

\* _check_role_permission
MayManage(caller, r, c) ==
  \/ caller.role = "super_admin"
  \/ caller.role = "league_admin" /\ r \in {"league_admin", "club_admin"}
  \/ caller.role = "club_admin" /\ r = "club_admin" /\ c = caller.club

SameClub(caller) == caller.role = "club_admin" => user.club = caller.club

Loaded(a, op, r, c, entry) ==
  LET place == [role |-> user.role, club |-> user.club]
  IN Begin(a, [at |-> "loaded", op |-> op, sub |-> user.sub, role |-> r, club |-> c,
               entry |-> entry, old |-> place, new |-> place])

\* Mutant: every assignment inserts a row.
AlwaysNew(r) == {}

EntriesOf(r) == {q.id : q \in {p \in rows : p.role = r}}

BeginAssign(a, caller, r, c) ==
  /\ user # NoUser
  /\ r \in {"league_admin", "club_admin"} /\ MayManage(caller, r, c) /\ SameClub(caller)
  /\ user.role = "super_admin" => caller.role = "super_admin"
  /\ r = "club_admin" => c # NoClub
  /\ IF EntriesOf(r) = {} THEN Loaded(a, "assign", r, c, NoEntry)
                          ELSE \E id \in EntriesOf(r) : Loaded(a, "assign", r, c, id)
  /\ UNCHANGED <<cognito, user, rows, player, token, faults>>

BeginRevoke(a, caller, r, c) ==
  /\ user # NoUser /\ MayManage(caller, r, c) /\ SameClub(caller)
  /\ \E q \in rows : /\ q.role = r /\ (r = "club_admin" /\ c # NoClub => q.club = c)
                     /\ Loaded(a, "revoke", r, NoClub, q.id)
  /\ UNCHANGED <<cognito, user, rows, player, token, faults>>

Holds(b, id) == (At(b, "flushed") \/ At(b, "told")) /\ call[b].entry = id
Locked(a, id) == id # NoEntry /\ \E b \in Admins \ {a} : Holds(b, id)

\* The governance rows with the change of this transaction; id is of the row it inserts.
Changed(a, id) ==
  LET c == call[a]
      others == {q \in rows : q.id # c.entry}
  IN IF c.op = "revoke" THEN others
     ELSE IF c.entry = NoEntry THEN rows \cup {RowFor(id, c.role, c.club)}
     ELSE others \cup {RowFor(c.entry, c.role, c.club)}

\* Mutant: the order of the two ranks is swapped.
HighestSwapped(rs) == LET held == {r.role : r \in rs} IN
                      CASE "super_admin" \in held -> "super_admin"
                        [] "super_admin" \notin held /\ "club_admin" \in held -> "club_admin"
                        [] OTHER -> "league_admin"

\* highest_role
Highest(rs) == LET held == {r.role : r \in rs} IN
               CASE "super_admin" \in held -> "super_admin"
                 [] "super_admin" \notin held /\ "league_admin" \in held -> "league_admin"
                 [] OTHER -> "club_admin"

\* Without a governance role the user is what member_type says, a player if it says nothing.
RoleOf(a, rs) == IF rs # {} THEN Highest(rs)
                 ELSE IF user.member = "unknown" THEN "player" ELSE user.member

\* The club of a club_admin row; without one, that of the request or the old one remains when
\* a role is assigned, and none when it is revoked.
ClubsOf(a, rs) ==
  LET managed == {r.club : r \in {q \in rs : q.role = "club_admin"}} IN
  IF managed # {} THEN managed
  ELSE IF call[a].op = "revoke" THEN {NoClub}
  ELSE IF call[a].club # NoClub THEN {call[a].club} ELSE {call[a].old.club}

\* The change of the governance row is sent, and the role and the club are computed.
Flush(a) ==
  /\ At(a, "loaded") /\ ~Locked(a, call[a].entry)
  /\ IF \/ ~IsUser(call[a].sub)
        \/ /\ call[a].op = "assign" /\ call[a].entry # NoEntry
           /\ call[a].entry \notin EntriesOf(call[a].role)
     THEN End(a)
     ELSE LET rs == Changed(a, NoEntry) IN
          \E c \in ClubsOf(a, rs) :
            call' = [call EXCEPT ![a].at = "flushed",
                                 ![a].new = [role |-> RoleOf(a, rs), club |-> c]]
  /\ UNCHANGED <<cognito, user, rows, player, token, faults>>

\* _cognito_update_role; an account that does not exist is an error, which is swallowed.
Tell(a) ==
  /\ At(a, "flushed") /\ Goto(a, "told")
  /\ account' = IF IsAccount(call[a].sub)
                THEN [account EXCEPT !.role = call[a].new.role, !.club = call[a].new.club]
                ELSE account
  /\ UNCHANGED <<subs, user, rows, player, token, faults>>

TellFails(a) ==
  /\ At(a, "flushed") /\ Goto(a, "told") /\ Fault
  /\ UNCHANGED <<cognito, user, rows, player, token>>

\* Only the columns that differ from the loaded ones are written.
Written(new, old, current) == IF new # old THEN new ELSE current

CommitRoles(a) ==
  /\ At(a, "told") /\ End(a)
  /\ \E id \in FreshIds \cup {NoEntry} :
       /\ (id = NoEntry) = (call[a].op = "revoke" \/ call[a].entry # NoEntry)
       /\ rows' = Changed(a, id)
  /\ LET c == call[a] IN
     Heals([user EXCEPT !.role = Written(c.new.role, c.old.role, @),
                        !.club = Written(c.new.club, c.old.club, @)], rows')
  /\ UNCHANGED <<cognito, player, token, faults>>

-----------------------------------------------------------------------------
(* Deletion and restoration *)

SoftDelete(caller) ==
  /\ caller.role # "club_admin"
  /\ user # NoUser /\ ~user.deleted /\ user.role # "super_admin"
  /\ caller.role = "league_admin" => user.role = "player"
  /\ Heals([user EXCEPT !.deleted = TRUE], rows)
  /\ UNCHANGED <<cognito, rows, player, token, call, faults>>

Restore ==
  /\ user # NoUser /\ user.deleted
  /\ Heals([user EXCEPT !.deleted = FALSE], rows)
  /\ UNCHANGED <<cognito, rows, player, token, call, faults>>

\* Mutant: any user can be deleted for good.
AnyUser == user # NoUser

MayHardDelete == user # NoUser /\ user.deleted

BeginHardDelete(a) ==
  /\ MayHardDelete
  /\ Begin(a, [at |-> "deleting", sub |-> user.sub])
  /\ UNCHANGED <<cognito, user, rows, player, token, faults>>

RemoveAccount(a) ==
  /\ At(a, "deleting") /\ IsAccount(call[a].sub) /\ account' = NoAccount
  /\ Goto(a, "removed")
  /\ UNCHANGED <<subs, user, rows, player, token, faults>>

\* Mutant: the row is deleted whatever Cognito says.
Regardless(a) == Goto(a, "removed")

Abort(a) == End(a)

\* Cognito refuses, or does not have the account.
RemoveFails(a) ==
  /\ At(a, "deleting") /\ Abort(a)
  /\ UNCHANGED <<cognito, user, rows, player, token, faults>>

RemoveReplyLost(a) ==
  /\ At(a, "deleting") /\ IsAccount(call[a].sub) /\ account' = NoAccount
  /\ End(a) /\ Fault
  /\ UNCHANGED <<subs, user, rows, player, token>>

\* The governance rows go with the user, once no transaction holds a lock on one of them or,
\* for a row that it inserts, on the user.
CommitHardDelete(a) ==
  /\ At(a, "removed") /\ End(a)
  /\ \A b \in Admins : ~At(b, "flushed") /\ ~At(b, "told")
  /\ IF IsUser(call[a].sub) THEN user' = NoUser /\ rows' = {} ELSE UNCHANGED <<user, rows>>
  /\ UNCHANGED <<cognito, player, token, faults>>

\* The process dies, or the commit fails.
HandlerDies(a) ==
  /\ call[a] # Idle /\ End(a) /\ Fault
  /\ UNCHANGED <<cognito, user, rows, player, token>>

-----------------------------------------------------------------------------
(* Tokens and requests *)

Login(d) ==
  /\ account # NoAccount /\ token' = [token EXCEPT ![d] = account]
  /\ UNCHANGED <<cognito, user, rows, player, call, faults>>

Expire(d) ==
  /\ token[d] # NoToken /\ token' = [token EXCEPT ![d] = NoToken]
  /\ UNCHANGED <<cognito, user, rows, player, call, faults>>

\* Mutant: the users row keeps the role of its creation.
KeepsRole(t) == [user EXCEPT !.club = t.club]

Synced(t) == [user EXCEPT !.role = t.role, !.club = t.club]

\* get_or_create_user; the insert fails while the email address has a row with another sub.
Request(d) ==
  /\ token[d] # NoToken
  /\ LET t == token[d] IN
     user' = IF IsUser(t.sub) THEN Synced(t)
             ELSE IF user = NoUser
                  THEN [sub |-> t.sub, role |-> t.role, club |-> t.club,
                        member |-> "unknown", deleted |-> FALSE]
                  ELSE user
  /\ UNCHANGED <<cognito, rows, player, token, call, faults>>

\* A request that lists users.
ListUsers ==
  /\ user # NoUser /\ Heals(user, rows)
  /\ UNCHANGED <<cognito, rows, player, token, call, faults>>

-----------------------------------------------------------------------------
Create(a, caller) ==
  \E r \in Named, c \in ClubOrNone, p \in BOOLEAN : BeginCreate(a, caller, r, c, p)

Manage(a, caller) ==
  \E r \in Named, c \in ClubOrNone : \/ BeginAssign(a, caller, r, c)
                                    \/ BeginRevoke(a, caller, r, c)

Starts(a) == \/ \E caller \in Callers : Create(a, caller) \/ Manage(a, caller)
             \/ BeginHardDelete(a)

Continues(a) == \/ CreateAccount(a) \/ CreateAccountFails(a) \/ CommitUser(a) \/ SeedRole(a)
                \/ Flush(a) \/ Tell(a) \/ CommitRoles(a)
                \/ RemoveAccount(a) \/ RemoveFails(a) \/ CommitHardDelete(a)

Fails(a) == CreateReplyLost(a) \/ TellFails(a) \/ RemoveReplyLost(a) \/ HandlerDies(a)

Next == \/ \E a \in Admins : Starts(a) \/ Continues(a) \/ Fails(a)
        \/ (\E caller \in Callers : SoftDelete(caller)) \/ Restore \/ ListUsers
        \/ \E d \in Devices : Login(d) \/ Expire(d) \/ Request(d)

\* Handlers go on.  Tokens expire, and a user who has none logs in again; a user with a token
\* again and again makes a request before it expires.
Fairness ==
  /\ \A a \in Admins : WF_vars(Continues(a))
  /\ \A d \in Devices : /\ WF_vars(Expire(d))
                        /\ WF_vars(token[d] = NoToken /\ Login(d))
                        /\ SF_vars(Request(d))

Spec == Init /\ [][Next]_vars
FairSpec == Spec /\ Fairness

-----------------------------------------------------------------------------
(* Properties *)

NobodyActs == \A a \in Admins : call[a] = Idle

\* "the next request will pick up the change": when administrators are done for good, the users
\* row ends up with the role that Cognito has, whatever stale tokens were used and whatever
\* failed.
RoleConverges ==
  <>[]NobodyActs =>
    <>[](account # NoAccount /\ IsUser(account.sub) => user.role = account.role)
=============================================================================
