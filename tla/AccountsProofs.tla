--------------------------- MODULE AccountsProofs ---------------------------
(***************************************************************************)
(* The account of MCAccounts, for any number of administrators, devices,   *)
(* clubs, governance rows and accounts that come and go.  First what each  *)
(* action does, as far as the invariants need it; then the invariants, one *)
(* for each promise, and the step of each.                                 *)
(***************************************************************************)
EXTENDS MCAccounts, TLAPS

CreatingCall == [at : {"creating"}, role : Roles, club : ClubOrNone, profile : BOOLEAN]
NewCall == [at : {"created", "seeding"}, role : Roles, club : ClubOrNone, sub : Subs]
RolesCall == [at : {"loaded", "flushed", "told"}, op : {"assign", "revoke"}, sub : Subs,
              role : Governance, club : ClubOrNone, entry : RowIds \cup {NoEntry},
              old : Place, new : Place]
DeleteCall == [at : {"deleting", "removed"}, sub : Subs]

TypeOK ==
  /\ subs \in 0 .. MaxSubs
  /\ account \in Claims \cup {NoAccount}
  /\ user \in User \cup {NoUser}
  /\ rows \subseteq GovernanceRow
  /\ player \in BOOLEAN
  /\ token \in [Devices -> Claims \cup {NoToken}]
  /\ call \in [Admins -> Call \cup {Idle}]
  /\ faults \in 0 .. MaxFaults
  /\ overlaps \subseteq {"inserts", "roles", "restored", "created"} /\ buried \subseteq Subs

-----------------------------------------------------------------------------
(* The records *)

LEMMA CallIs == Call = CreatingCall \cup NewCall \cup RolesCall \cup DeleteCall
BY DEF Call, CreatingCall, NewCall, RolesCall, DeleteCall

LEMMA CallCases ==
  ASSUME TypeOK, NEW a \in Admins
  PROVE  /\ At(a, "creating") => call[a] \in CreatingCall
         /\ At(a, "created") \/ At(a, "seeding") => call[a] \in NewCall
         /\ At(a, "loaded") \/ At(a, "flushed") \/ At(a, "told") => call[a] \in RolesCall
         /\ At(a, "deleting") \/ At(a, "removed") => call[a] \in DeleteCall
<1>1. At(a, "creating") \/ call[a] # Idle => call[a] \in Call
  BY DEF TypeOK, At
<1>2. \A r \in Call :
        /\ r.at = "creating" => r \in CreatingCall
        /\ r.at \in {"created", "seeding"} => r \in NewCall
        /\ r.at \in {"loaded", "flushed", "told"} => r \in RolesCall
        /\ r.at \in {"deleting", "removed"} => r \in DeleteCall
  BY CallIs DEF CreatingCall, NewCall, RolesCall, DeleteCall
<1> QED
  BY <1>1, <1>2 DEF At

Others(a) == \A b \in Admins : b # a => call'[b] = call[b]

\* A handler goes on to r, or ends.
LEMMA WentOn ==
  ASSUME TypeOK, NEW a \in Admins, NEW r \in Call \cup {Idle}, call' = [call EXCEPT ![a] = r]
  PROVE  call' \in [Admins -> Call \cup {Idle}] /\ call'[a] = r /\ Others(a)
BY DEF TypeOK, Others

LEMMA Ended ==
  ASSUME TypeOK, NEW a \in Admins, End(a)
  PROVE  call' \in [Admins -> Call \cup {Idle}] /\ call'[a] = Idle /\ Others(a)
BY WentOn DEF End

LEMMA Begun ==
  ASSUME TypeOK, NEW a \in Admins, NEW r \in Call, Begin(a, r)
  PROVE  /\ call' \in [Admins -> Call \cup {Idle}] /\ call'[a] = r /\ Others(a)
         /\ call[a] = Idle /\ call'[a] # Idle
BY WentOn, NullAssumption DEF Begin

\* What a handler keeps when it goes on to a label.
LEMMA NewWent ==
  ASSUME TypeOK, NEW a \in Admins, call[a] \in NewCall, Goto(a, "seeding")
  PROVE  /\ call' \in [Admins -> Call \cup {Idle}] /\ Others(a) /\ At(a, "seeding")'
         /\ call'[a].role = call[a].role /\ call'[a].club = call[a].club /\ call'[a].sub = call[a].sub
<1> DEFINE r == [call[a] EXCEPT !.at = "seeding"]
<1>1. r \in NewCall /\ r.at = "seeding" /\ r.role = call[a].role /\ r.club = call[a].club /\ r.sub = call[a].sub
  BY DEF NewCall
<1>2. call' = [call EXCEPT ![a] = r]
  BY DEF Goto
<1> HIDE DEF r
<1>3. r \in Call /\ r # Idle
  BY <1>1, CallIs, NullAssumption
<1> QED
  BY <1>1, <1>2, <1>3, WentOn DEF At

LEMMA DeleteWent ==
  ASSUME TypeOK, NEW a \in Admins, call[a] \in DeleteCall, Goto(a, "removed")
  PROVE  /\ call' \in [Admins -> Call \cup {Idle}] /\ Others(a) /\ At(a, "removed")'
         /\ call'[a].sub = call[a].sub
<1> DEFINE r == [call[a] EXCEPT !.at = "removed"]
<1>1. r \in DeleteCall /\ r.at = "removed" /\ r.sub = call[a].sub
  BY DEF DeleteCall
<1>2. call' = [call EXCEPT ![a] = r]
  BY DEF Goto
<1> HIDE DEF r
<1>3. r \in Call /\ r # Idle
  BY <1>1, CallIs, NullAssumption
<1> QED
  BY <1>1, <1>2, <1>3, WentOn DEF At

SameChange(a) ==
  /\ call'[a].op = call[a].op /\ call'[a].sub = call[a].sub /\ call'[a].role = call[a].role
  /\ call'[a].club = call[a].club /\ call'[a].entry = call[a].entry

LEMMA RolesWent ==
  ASSUME TypeOK, NEW a \in Admins, call[a] \in RolesCall, Goto(a, "told")
  PROVE  /\ call' \in [Admins -> Call \cup {Idle}] /\ Others(a) /\ At(a, "told")'
         /\ SameChange(a) /\ call'[a].new = call[a].new
<1> DEFINE r == [call[a] EXCEPT !.at = "told"]
<1>1. /\ r \in RolesCall /\ r.at = "told" /\ r.op = call[a].op /\ r.sub = call[a].sub
      /\ r.role = call[a].role /\ r.club = call[a].club /\ r.entry = call[a].entry /\ r.new = call[a].new
  BY DEF RolesCall
<1>2. call' = [call EXCEPT ![a] = r]
  BY DEF Goto
<1> HIDE DEF r
<1>3. r \in Call /\ r # Idle
  BY <1>1, CallIs, NullAssumption
<1> QED
  BY <1>1, <1>2, <1>3, WentOn DEF At, SameChange

\* The users row stays the same person's.
UserKept == /\ user' \in User \cup {NoUser}
            /\ user' = NoUser <=> user = NoUser
            /\ user # NoUser => user'.sub = user.sub

LEMMA Healing ==
  ASSUME NEW u \in User, NEW rs \in SUBSET GovernanceRow, Heals(u, rs)
  PROVE  user' \in User /\ user' # NoUser /\ user'.sub = u.sub /\ user'.deleted = u.deleted
<1>1. \A r \in rs : LET h == [u EXCEPT !.club = r.club]
                    IN  h \in User /\ h.sub = u.sub /\ h.deleted = u.deleted
  BY DEF User, GovernanceRow
<1>2. \A h \in Healed(u, rs) : h \in User /\ h.sub = u.sub /\ h.deleted = u.deleted
  BY <1>1 DEF Healed
<1>3. user' \in User /\ user'.sub = u.sub /\ user'.deleted = u.deleted
  BY <1>2 DEF Heals
<1> QED
  BY <1>3, NullAssumption

-----------------------------------------------------------------------------
(* Rows *)

\* A row of a transaction; one that it inserts may have no id yet.
AnyRow == [id : RowIds \cup {NoEntry}, role : Governance, club : ClubOrNone]

LEMMA RowForIs ==
  ASSUME NEW id, NEW r, NEW c
  PROVE  RowFor(id, r, c).id = id /\ RowFor(id, r, c).role = r
BY DEF RowFor

LEMMA RowForType ==
  ASSUME NEW id \in RowIds \cup {NoEntry}, NEW r \in Governance, NEW c \in ClubOrNone
  PROVE  RowFor(id, r, c) \in AnyRow /\ (id \in RowIds => RowFor(id, r, c) \in GovernanceRow)
BY DEF RowFor, AnyRow, GovernanceRow, ClubOrNone

LEMMA ChangedType ==
  ASSUME TypeOK, NEW a \in Admins, call[a] \in RolesCall, NEW id \in RowIds \cup {NoEntry}
  PROVE  /\ Changed(a, id) \subseteq AnyRow
         /\ call[a].op = "revoke" \/ call[a].entry # NoEntry \/ id \in RowIds
              => Changed(a, id) \subseteq GovernanceRow
<1>1. rows \subseteq GovernanceRow /\ rows \subseteq AnyRow
  BY DEF TypeOK, GovernanceRow, AnyRow
<1>2. call[a].role \in Governance /\ call[a].club \in ClubOrNone /\ call[a].entry \in RowIds \cup {NoEntry}
  BY DEF RolesCall
<1>3. RowFor(id, call[a].role, call[a].club) \in AnyRow /\ RowFor(call[a].entry, call[a].role, call[a].club) \in AnyRow
  BY <1>2, RowForType
<1>4. id \in RowIds => RowFor(id, call[a].role, call[a].club) \in GovernanceRow
  BY <1>2, RowForType
<1>5. call[a].entry # NoEntry => RowFor(call[a].entry, call[a].role, call[a].club) \in GovernanceRow
  BY <1>2, RowForType
<1> QED
  BY <1>1, <1>3, <1>4, <1>5 DEF Changed

LEMMA RoleOfType ==
  ASSUME TypeOK, user # NoUser, NEW a, NEW rs
  PROVE  /\ RoleOf(a, rs) \in Roles
         /\ RoleOf(a, rs) \in Governance <=> rs # {}
         /\ \A r \in rs : r.role = "league_admin" => RoleOf(a, rs) # "club_admin"
<1>1. user.member \in {"player", "user", "unknown"}
  BY DEF TypeOK, User, Membership
<1>2. Highest(rs) \in Governance
  BY DEF Highest, Governance
<1>3. \A r \in rs : r.role = "league_admin" => Highest(rs) # "club_admin"
  BY DEF Highest
<1> QED
  BY <1>1, <1>2, <1>3 DEF RoleOf, Roles, Governance

LEMMA ClubsOfType ==
  ASSUME TypeOK, NEW a \in Admins, call[a] \in RolesCall, NEW rs \in SUBSET AnyRow
  PROVE  /\ ClubsOf(a, rs) \subseteq ClubOrNone
         /\ \A c \in ClubsOf(a, rs) : (\E r \in rs : r.role = "club_admin")
              => \E r \in rs : r.role = "club_admin" /\ r.club = c
<1>1. call[a].club \in ClubOrNone /\ call[a].old.club \in ClubOrNone
  BY DEF RolesCall, Place
<1>2. \A r \in rs : r.club \in ClubOrNone
  BY DEF AnyRow
<1> QED
  BY <1>1, <1>2 DEF ClubsOf, ClubOrNone

-----------------------------------------------------------------------------
(* What the actions do *)

\* The types of what most steps leave alone.
LEMMA Types ==
  ASSUME TypeOK, MCNext, call' \in [Admins -> Call \cup {Idle}], user' \in User \cup {NoUser},
         rows' \subseteq GovernanceRow, player' \in BOOLEAN,
         account' \in Claims \cup {NoAccount}, subs' \in 0 .. MaxSubs,
         token' \in [Devices -> Claims \cup {NoToken}], faults' = faults \/ Fault
  PROVE  TypeOK'
<1>1. faults' \in 0 .. MaxFaults
  BY AccountsAssumption DEF TypeOK, Fault
<1>2. overlaps' \subseteq {"inserts", "roles", "restored", "created"}
  BY DEF MCNext, Overlap, TypeOK
<1>3. buried' \subseteq Subs
  BY DEF MCNext, TypeOK, User
<1> QED
  BY <1>1, <1>2, <1>3 DEF TypeOK

CognitoKept == account' = account /\ subs' = subs

LEMMA BeginCreateDoes ==
  ASSUME TypeOK, NEW a \in Admins, NEW caller \in Callers, NEW r \in Named, NEW c \in ClubOrNone,
         NEW p \in BOOLEAN, BeginCreate(a, caller, r, c, p)
  PROVE  /\ call' \in [Admins -> Call \cup {Idle}] /\ Others(a) /\ player' \in BOOLEAN
         /\ call[a] = Idle /\ At(a, "creating")' /\ user = NoUser
         /\ CognitoKept /\ user' = user /\ rows' = rows /\ token' = token /\ faults' = faults
<1> DEFINE q == [at |-> "creating", role |-> r, club |-> c, profile |-> p]
<1>1. r \in Roles
  BY AccountsAssumption DEF Roles
<1>2. q \in CreatingCall /\ q.at = "creating"
  BY <1>1 DEF CreatingCall
<1>3. Begin(a, q)
  BY DEF BeginCreate
<1> HIDE DEF q
<1>4. q \in Call /\ q # Idle
  BY <1>2, CallIs, NullAssumption
<1>5. call' \in [Admins -> Call \cup {Idle}] /\ call'[a] = q /\ Others(a) /\ call[a] = Idle
  BY <1>3, <1>4, Begun
<1>6. player' \in BOOLEAN
  BY DEF BeginCreate, TypeOK
<1> QED
  BY <1>2, <1>4, <1>5, <1>6 DEF BeginCreate, At, cognito, CognitoKept

LEMMA CreatedDoes ==
  ASSUME TypeOK, NEW a \in Admins, At(a, "creating"), Created(a)
  PROVE  /\ account = NoAccount /\ subs' = subs + 1 /\ subs' \in Subs /\ subs' \in 0 .. MaxSubs
         /\ account' \in Claims /\ account' # NoAccount /\ account'.sub = subs'
         /\ account'.role = call[a].role /\ account'.club = call[a].club
<1>1. call[a].role \in Roles /\ call[a].club \in ClubOrNone
  BY CallCases DEF CreatingCall
<1>2. account = NoAccount /\ subs' = subs + 1 /\ subs' \in Subs /\ subs' \in 0 .. MaxSubs
  BY AccountsAssumption DEF Created, TypeOK, Subs
<1> DEFINE r == [sub |-> subs', role |-> call[a].role, club |-> call[a].club]
<1>3. r \in Claims /\ r.sub = subs' /\ r.role = call[a].role /\ r.club = call[a].club
  BY <1>1, <1>2 DEF Claims
<1>4. account' = r
  BY DEF Created
<1> HIDE DEF r
<1> QED
  BY <1>2, <1>3, <1>4, NullAssumption

LEMMA CreateAccountDoes ==
  ASSUME TypeOK, NEW a \in Admins, CreateAccount(a)
  PROVE  /\ call' \in [Admins -> Call \cup {Idle}] /\ Others(a)
         /\ At(a, "creating") /\ At(a, "created")' /\ call'[a].sub = subs'
         /\ call'[a].role = call[a].role /\ call'[a].club = call[a].club
         /\ Created(a)
         /\ user' = user /\ rows' = rows /\ player' = player /\ token' = token /\ faults' = faults
<1> DEFINE r == [at |-> "created", role |-> call[a].role, club |-> call[a].club, sub |-> subs']
<1>1. At(a, "creating") /\ Created(a)
  BY DEF CreateAccount
<1>2. subs' \in Subs /\ call[a].role \in Roles /\ call[a].club \in ClubOrNone
  BY <1>1, CreatedDoes, CallCases DEF CreatingCall
<1>3. r \in NewCall /\ r.at = "created" /\ r.role = call[a].role /\ r.club = call[a].club /\ r.sub = subs'
  BY <1>2 DEF NewCall
<1>4. call' = [call EXCEPT ![a] = r]
  BY DEF CreateAccount
<1> HIDE DEF r
<1>5. r \in Call /\ r # Idle
  BY <1>3, CallIs, NullAssumption
<1>6. call' \in [Admins -> Call \cup {Idle}] /\ call'[a] = r /\ Others(a)
  BY <1>4, <1>5, WentOn
<1> QED
  BY <1>1, <1>3, <1>5, <1>6 DEF CreateAccount, At

LEMMA CreateEndsDoes ==
  ASSUME TypeOK, NEW a \in Admins, CreateAccountFails(a) \/ CreateReplyLost(a)
  PROVE  /\ call' \in [Admins -> Call \cup {Idle}] /\ Others(a) /\ player' \in BOOLEAN
         /\ At(a, "creating") /\ call'[a] = Idle
         /\ (CognitoKept /\ faults' = faults) \/ (Created(a) /\ Fault)
         /\ user' = user /\ rows' = rows /\ token' = token
<1>1. PlayerWithdrawn(a) \in BOOLEAN
  BY DEF PlayerWithdrawn
<1> QED
  BY <1>1, Ended DEF CreateAccountFails, CreateReplyLost, cognito, CognitoKept

LEMMA CommitUserDoes ==
  ASSUME TypeOK, NEW a \in Admins, CommitUser(a)
  PROVE  /\ call' \in [Admins -> Call \cup {Idle}] /\ Others(a) /\ At(a, "created")
         /\ user' \in User \cup {NoUser}
         /\ user # NoUser => user' = user /\ call'[a] = Idle
         /\ user = NoUser =>
              /\ user' # NoUser /\ user'.sub = call[a].sub /\ ~user'.deleted
              /\ call[a].role \in Governance =>
                   /\ At(a, "seeding")' /\ call'[a].sub = call[a].sub
                   /\ call'[a].role = call[a].role /\ call'[a].club = call[a].club
              /\ call[a].role \notin Governance => call'[a] = Idle
         /\ CognitoKept /\ rows' = rows /\ player' = player /\ token' = token /\ faults' = faults
<1>1. At(a, "created") /\ call[a] \in NewCall
  BY CallCases DEF CommitUser
<1>2. CognitoKept /\ rows' = rows /\ player' = player /\ token' = token /\ faults' = faults
  BY DEF CommitUser, cognito, CognitoKept
<1>3. CASE user # NoUser
  BY <1>1, <1>2, <1>3, Ended DEF CommitUser, TypeOK
<1>4. CASE user = NoUser
  <2> DEFINE u == [sub |-> call[a].sub, role |-> call[a].role, club |-> call[a].club,
                   member |-> IF call[a].role = "player" THEN "player" ELSE "user",
                   deleted |-> FALSE]
  <2>1. u \in User /\ u.sub = call[a].sub /\ ~u.deleted
    BY <1>1 DEF NewCall, User, Membership
  <2>2. user' = u
    BY <1>4 DEF CommitUser
  <2> HIDE DEF u
  <2>3. user' \in User /\ user' # NoUser /\ user'.sub = call[a].sub /\ ~user'.deleted
    BY <2>1, <2>2, NullAssumption
  <2>4. IF call[a].role \in Governance THEN Goto(a, "seeding") ELSE End(a)
    BY <1>4 DEF CommitUser
  <2> QED
    BY <1>1, <1>2, <1>4, <2>3, <2>4, NewWent, Ended
<1> QED
  BY <1>3, <1>4

LEMMA SeedRoleDoes ==
  ASSUME TypeOK, NEW a \in Admins, SeedRole(a)
  PROVE  /\ call' \in [Admins -> Call \cup {Idle}] /\ Others(a) /\ At(a, "seeding") /\ call'[a] = Idle
         /\ IsUser(call[a].sub) => \E id \in FreshIds : rows' = rows \cup {RowFor(id, call[a].role, call[a].club)}
         /\ ~IsUser(call[a].sub) => rows' = rows
         /\ call[a].role \in Governance => rows' \subseteq GovernanceRow /\ UserKept
         /\ CognitoKept /\ player' = player /\ token' = token /\ faults' = faults
<1>1. At(a, "seeding") /\ call[a] \in NewCall
  BY CallCases DEF SeedRole
<1>2. /\ CognitoKept /\ player' = player /\ token' = token /\ faults' = faults
      /\ call' \in [Admins -> Call \cup {Idle}] /\ Others(a) /\ call'[a] = Idle
  BY Ended DEF SeedRole, cognito, CognitoKept
<1>3. CASE ~IsUser(call[a].sub)
  BY <1>1, <1>2, <1>3 DEF SeedRole, UserKept, TypeOK
<1>4. CASE IsUser(call[a].sub)
  <2>1. PICK id \in FreshIds :
          LET seeded == rows \cup {RowFor(id, call[a].role, call[a].club)}
          IN rows' = seeded /\ Heals(user, seeded)
    BY <1>4 DEF SeedRole
  <2>2. user \in User /\ id \in RowIds /\ call[a].club \in ClubOrNone
    BY <1>1, <1>4 DEF TypeOK, IsUser, FreshIds, NewCall
  <2>3. ASSUME call[a].role \in Governance PROVE rows' \subseteq GovernanceRow
    BY <2>1, <2>2, <2>3, RowForType DEF TypeOK
  <2>4. ASSUME call[a].role \in Governance PROVE UserKept
    BY <1>4, <2>1, <2>2, <2>3, <2>4, Healing DEF UserKept, IsUser
  <2> QED
    BY <1>1, <1>2, <1>4, <2>1, <2>3, <2>4
<1> QED
  BY <1>3, <1>4

LEMMA LoadedDoes ==
  ASSUME TypeOK, NEW a \in Admins, NEW op \in {"assign", "revoke"}, NEW r \in Governance,
         NEW c \in ClubOrNone, NEW entry \in RowIds \cup {NoEntry}, user # NoUser,
         Loaded(a, op, r, c, entry)
  PROVE  /\ call' \in [Admins -> Call \cup {Idle}] /\ Others(a) /\ call[a] = Idle /\ At(a, "loaded")'
         /\ call'[a].op = op /\ call'[a].role = r /\ call'[a].entry = entry
<1> DEFINE place == [role |-> user.role, club |-> user.club]
           q == [at |-> "loaded", op |-> op, sub |-> user.sub, role |-> r, club |-> c,
                 entry |-> entry, old |-> place, new |-> place]
<1>1. place \in Place /\ user.sub \in Subs
  BY DEF TypeOK, User, Place
<1>2. Begin(a, q)
  BY DEF Loaded
<1> HIDE DEF place
<1>3. q \in RolesCall /\ q.at = "loaded" /\ q.op = op /\ q.role = r /\ q.entry = entry
  BY <1>1 DEF RolesCall
<1> HIDE DEF q
<1>4. q \in Call
  BY <1>3, CallIs
<1> QED
  BY <1>2, <1>3, <1>4, Begun DEF At

LEMMA BeginRolesDoes ==
  ASSUME TypeOK, NEW a \in Admins, NEW caller \in Callers, NEW r \in Named, NEW c \in ClubOrNone,
         BeginAssign(a, caller, r, c) \/ BeginRevoke(a, caller, r, c)
  PROVE  /\ call' \in [Admins -> Call \cup {Idle}] /\ Others(a) /\ call[a] = Idle /\ At(a, "loaded")'
         /\ call'[a].op = "assign" /\ call'[a].entry = NoEntry => EntriesOf(call'[a].role) = {}
         /\ user # NoUser /\ CognitoKept /\ user' = user /\ rows' = rows /\ player' = player
         /\ token' = token /\ faults' = faults
<1>1. /\ CognitoKept /\ user' = user /\ rows' = rows /\ player' = player
      /\ token' = token /\ faults' = faults /\ user # NoUser
  BY DEF BeginAssign, BeginRevoke, cognito, CognitoKept
<1>2. \A q \in rows : q.id \in RowIds /\ q.role \in Governance
  BY DEF TypeOK, GovernanceRow
<1>3. CASE BeginAssign(a, caller, r, c)
  <2>1. r \in Governance
    BY <1>3 DEF BeginAssign, Governance
  <2>2. EntriesOf(r) \subseteq RowIds
    BY <1>2 DEF EntriesOf
  <2>3. PICK entry \in RowIds \cup {NoEntry} :
          Loaded(a, "assign", r, c, entry) /\ (entry = NoEntry => EntriesOf(r) = {})
    BY <1>3, <2>2, AccountsAssumption DEF BeginAssign
  <2> QED
    BY <1>1, <2>1, <2>3, LoadedDoes
<1>4. CASE BeginRevoke(a, caller, r, c)
  <2>1. PICK q \in rows : q.role = r /\ Loaded(a, "revoke", r, NoClub, q.id)
    BY <1>4 DEF BeginRevoke
  <2>2. r \in Governance /\ q.id \in RowIds /\ NoClub \in ClubOrNone
    BY <1>2, <2>1 DEF ClubOrNone
  <2> QED
    BY <1>1, <2>1, <2>2, LoadedDoes
<1> QED
  BY <1>3, <1>4

Writing(a) == At(a, "flushed") \/ At(a, "told")
Replaces(a) == call[a].op = "assign" /\ call[a].entry # NoEntry

LEMMA FlushDoes ==
  ASSUME TypeOK, NEW a \in Admins, Flush(a)
  PROVE  /\ call' \in [Admins -> Call \cup {Idle}] /\ Others(a) /\ At(a, "loaded")
         /\ ~Locked(a, call[a].entry)
         /\ \/ call'[a] = Idle
            \/ /\ At(a, "flushed")' /\ SameChange(a) /\ IsUser(call[a].sub)
               /\ Replaces(a) => call[a].entry \in EntriesOf(call[a].role)
               /\ call'[a].new.role = RoleOf(a, Changed(a, NoEntry))
               /\ call'[a].new.club \in ClubsOf(a, Changed(a, NoEntry))
         /\ CognitoKept /\ user' = user /\ rows' = rows /\ player' = player /\ token' = token
         /\ faults' = faults
<1>1. /\ CognitoKept /\ user' = user /\ rows' = rows /\ player' = player /\ token' = token
      /\ faults' = faults /\ At(a, "loaded") /\ ~Locked(a, call[a].entry)
  BY DEF Flush, cognito, CognitoKept
<1>2. CASE End(a)
  BY <1>1, <1>2, Ended
<1>3. CASE ~End(a)
  <2> DEFINE rs == Changed(a, NoEntry)
             n(c) == [role |-> RoleOf(a, rs), club |-> c]
             r(c) == [call[a] EXCEPT !.at = "flushed", !.new = n(c)]
  <2>1. /\ IsUser(call[a].sub)
        /\ Replaces(a) => call[a].entry \in EntriesOf(call[a].role)
        /\ \E c \in ClubsOf(a, rs) : call' = [call EXCEPT ![a] = r(c)]
    BY <1>3 DEF Flush, Replaces
  <2>2. PICK c \in ClubsOf(a, rs) : call' = [call EXCEPT ![a] = r(c)]
    BY <2>1
  <2>3. call[a] \in RolesCall
    BY <1>1, CallCases
  <2>4. n(c) \in Place /\ n(c).role = RoleOf(a, rs) /\ n(c).club = c
    <3>1. rs \subseteq AnyRow
      BY <2>3, ChangedType
    <3> HIDE DEF rs
    <3>2. c \in ClubOrNone
      BY <2>2, <2>3, <3>1, ClubsOfType
    <3>3. RoleOf(a, rs) \in Roles
      BY <2>1, RoleOfType DEF IsUser
    <3> QED
      BY <3>2, <3>3 DEF Place
  <2> HIDE DEF n
  <2>5. /\ r(c) \in RolesCall /\ r(c).at = "flushed" /\ r(c).op = call[a].op /\ r(c).sub = call[a].sub
        /\ r(c).role = call[a].role /\ r(c).club = call[a].club /\ r(c).entry = call[a].entry
        /\ r(c).new = n(c)
    BY <2>3, <2>4 DEF RolesCall
  <2> HIDE DEF r
  <2>6. r(c) \in Call /\ r(c) # Idle
    BY <2>5, CallIs, NullAssumption
  <2>7. call' \in [Admins -> Call \cup {Idle}] /\ call'[a] = r(c) /\ Others(a)
    BY <2>2, <2>6, WentOn
  <2>8. At(a, "flushed")' /\ SameChange(a) /\ call'[a].new = n(c)
    BY <2>5, <2>6, <2>7 DEF At, SameChange
  <2>9. call'[a].new.role = RoleOf(a, rs) /\ call'[a].new.club \in ClubsOf(a, rs)
    BY <2>2, <2>4, <2>8
  <2> QED
    BY <1>1, <2>1, <2>7, <2>8, <2>9
<1> QED
  BY <1>2, <1>3

LEMMA TellDoes ==
  ASSUME TypeOK, NEW a \in Admins, Tell(a) \/ TellFails(a)
  PROVE  /\ call' \in [Admins -> Call \cup {Idle}] /\ Others(a) /\ At(a, "flushed") /\ At(a, "told")'
         /\ SameChange(a) /\ call'[a].new = call[a].new /\ subs' = subs
         /\ account' \in Claims \cup {NoAccount} /\ (account' = NoAccount <=> account = NoAccount)
         /\ account # NoAccount => account'.sub = account.sub
         /\ faults' = faults =>
              /\ IsAccount(call[a].sub) => account'.role = call[a].new.role /\ account'.club = call[a].new.club
              /\ ~IsAccount(call[a].sub) => account' = account
         /\ user' = user /\ rows' = rows /\ player' = player /\ token' = token
         /\ faults' = faults \/ Fault
<1>1. At(a, "flushed") /\ Goto(a, "told") /\ call[a] \in RolesCall
  BY CallCases DEF Tell, TellFails
<1>2. call[a].new.role \in Roles /\ call[a].new.club \in ClubOrNone
  BY <1>1 DEF RolesCall, Place
<1>3. /\ user' = user /\ rows' = rows /\ player' = player /\ token' = token /\ subs' = subs
      /\ faults' = faults \/ Fault
  BY DEF Tell, TellFails, cognito
<1>4. CASE Tell(a) /\ IsAccount(call[a].sub)
  <2> DEFINE r == [account EXCEPT !.role = call[a].new.role, !.club = call[a].new.club]
  <2>1. account \in Claims /\ account' = r
    BY <1>4 DEF Tell, TypeOK, IsAccount
  <2>2. r \in Claims /\ r.sub = account.sub /\ r.role = call[a].new.role /\ r.club = call[a].new.club
    BY <1>2, <2>1 DEF Claims
  <2> HIDE DEF r
  <2>3. account' # NoAccount /\ account # NoAccount
    BY <2>1, <2>2, NullAssumption
  <2> QED
    BY <1>1, <1>3, <1>4, <2>1, <2>2, <2>3, RolesWent
<1>5. CASE Tell(a) /\ ~IsAccount(call[a].sub)
  BY <1>1, <1>3, <1>5, RolesWent DEF Tell, TypeOK
<1>6. CASE TellFails(a)
  <2>1. account' = account /\ faults' # faults
    BY <1>6 DEF TellFails, cognito, Fault, TypeOK
  <2> QED
    BY <1>1, <1>3, <2>1, RolesWent DEF TypeOK
<1> QED
  BY <1>4, <1>5, <1>6

LEMMA CommitRolesDoes ==
  ASSUME TypeOK, NEW a \in Admins, CommitRoles(a), user # NoUser
  PROVE  /\ call' \in [Admins -> Call \cup {Idle}] /\ Others(a) /\ At(a, "told") /\ call'[a] = Idle
         /\ \E id \in FreshIds \cup {NoEntry} :
              /\ (id = NoEntry) = (call[a].op = "revoke" \/ call[a].entry # NoEntry)
              /\ rows' = Changed(a, id)
         /\ rows' \subseteq GovernanceRow /\ UserKept
         /\ CognitoKept /\ player' = player /\ token' = token /\ faults' = faults
<1>1. /\ CognitoKept /\ player' = player /\ token' = token /\ faults' = faults /\ At(a, "told")
      /\ call' \in [Admins -> Call \cup {Idle}] /\ Others(a) /\ call'[a] = Idle
  BY Ended DEF CommitRoles, cognito, CognitoKept
<1>2. call[a] \in RolesCall
  BY <1>1, CallCases
<1>3. PICK id \in FreshIds \cup {NoEntry} :
        /\ (id = NoEntry) = (call[a].op = "revoke" \/ call[a].entry # NoEntry)
        /\ rows' = Changed(a, id)
  BY DEF CommitRoles
<1>4. rows' \subseteq GovernanceRow
  <2>1. id \in RowIds \cup {NoEntry} /\ (id # NoEntry => id \in RowIds)
    BY DEF FreshIds
  <2> QED
    BY <1>2, <1>3, <2>1, ChangedType
<1>5. UserKept
  <2> DEFINE o == call[a].old
             w == call[a].new
             nr == Written(w.role, o.role, user.role)
             nc == Written(w.club, o.club, user.club)
             u == [user EXCEPT !.role = nr, !.club = nc]
  <2>1. user \in User /\ w \in Place
    BY <1>2 DEF TypeOK, RolesCall
  <2>2. nr \in Roles /\ nc \in ClubOrNone
    BY <2>1 DEF Written, Place, User
  <2>3. Heals(u, rows')
    BY DEF CommitRoles
  <2> HIDE DEF nr, nc
  <2>4. u \in User /\ u.sub = user.sub
    BY <2>1, <2>2 DEF User
  <2> HIDE DEF u
  <2> QED
    BY <1>4, <2>3, <2>4, Healing DEF UserKept
<1> QED
  BY <1>1, <1>3, <1>4, <1>5

LEMMA BeginHardDeleteDoes ==
  ASSUME TypeOK, NEW a \in Admins, BeginHardDelete(a)
  PROVE  /\ call' \in [Admins -> Call \cup {Idle}] /\ Others(a) /\ call[a] = Idle
         /\ At(a, "deleting")' /\ user # NoUser /\ user.deleted /\ call'[a].sub = user.sub
         /\ CognitoKept /\ user' = user /\ rows' = rows /\ player' = player
         /\ token' = token /\ faults' = faults
<1> DEFINE r == [at |-> "deleting", sub |-> user.sub]
<1>1. user # NoUser /\ user.deleted
  BY DEF BeginHardDelete, MayHardDelete
<1>2. r \in DeleteCall /\ r.at = "deleting" /\ r.sub = user.sub
  BY <1>1 DEF TypeOK, User, DeleteCall
<1>3. Begin(a, r)
  BY DEF BeginHardDelete
<1> HIDE DEF r
<1>4. r \in Call
  BY <1>2, CallIs
<1> QED
  BY <1>1, <1>2, <1>3, <1>4, Begun DEF BeginHardDelete, At, cognito, CognitoKept

LEMMA RemoveAccountDoes ==
  ASSUME TypeOK, NEW a \in Admins, RemoveAccount(a)
  PROVE  /\ call' \in [Admins -> Call \cup {Idle}] /\ Others(a)
         /\ At(a, "deleting") /\ At(a, "removed")' /\ call'[a].sub = call[a].sub
         /\ IsAccount(call[a].sub) /\ account' = NoAccount /\ subs' = subs
         /\ user' = user /\ rows' = rows /\ player' = player /\ token' = token /\ faults' = faults
BY DeleteWent, CallCases DEF RemoveAccount

LEMMA RemoveEndsDoes ==
  ASSUME TypeOK, NEW a \in Admins, RemoveFails(a) \/ RemoveReplyLost(a)
  PROVE  /\ call' \in [Admins -> Call \cup {Idle}] /\ Others(a) /\ At(a, "deleting") /\ call'[a] = Idle
         /\ (CognitoKept /\ faults' = faults) \/ (account' = NoAccount /\ subs' = subs /\ Fault)
         /\ user' = user /\ rows' = rows /\ player' = player /\ token' = token
BY Ended DEF RemoveFails, Abort, RemoveReplyLost, cognito, CognitoKept

LEMMA CommitHardDeleteDoes ==
  ASSUME TypeOK, NEW a \in Admins, CommitHardDelete(a)
  PROVE  /\ call' \in [Admins -> Call \cup {Idle}] /\ Others(a) /\ At(a, "removed") /\ call'[a] = Idle
         /\ \A b \in Admins : ~Writing(b)
         /\ IF IsUser(call[a].sub) THEN user' = NoUser /\ rows' = {} ELSE user' = user /\ rows' = rows
         /\ CognitoKept /\ player' = player /\ token' = token /\ faults' = faults
BY Ended DEF CommitHardDelete, Writing, cognito, CognitoKept

LEMMA HandlerDiesDoes ==
  ASSUME TypeOK, NEW a \in Admins, HandlerDies(a)
  PROVE  /\ call' \in [Admins -> Call \cup {Idle}] /\ Others(a) /\ call'[a] = Idle /\ Fault
         /\ CognitoKept /\ user' = user /\ rows' = rows /\ player' = player /\ token' = token
BY Ended DEF HandlerDies, cognito, CognitoKept

\* A soft deletion, a restoration, and a request that lists users.
LEMMA UserStepDoes ==
  ASSUME TypeOK, (\E caller \in Callers : SoftDelete(caller)) \/ Restore \/ ListUsers
  PROVE  /\ UserKept /\ user # NoUser
         /\ user.deleted /\ ~user'.deleted => Restore
         /\ CognitoKept /\ rows' = rows /\ player' = player /\ token' = token /\ call' = call
         /\ faults' = faults
<1>1. /\ CognitoKept /\ rows' = rows /\ player' = player /\ token' = token /\ call' = call
      /\ faults' = faults /\ user # NoUser /\ user \in User /\ rows \in SUBSET GovernanceRow
  BY DEF SoftDelete, Restore, ListUsers, cognito, CognitoKept, TypeOK
<1>2. ASSUME NEW d \in BOOLEAN
      PROVE  LET u == [user EXCEPT !.deleted = d]
             IN  u \in User /\ u.sub = user.sub /\ u.deleted = d
  BY <1>1 DEF User
<1>3. ASSUME NEW d \in BOOLEAN, Heals([user EXCEPT !.deleted = d], rows)
      PROVE  UserKept /\ user'.deleted = d
  <2> DEFINE u == [user EXCEPT !.deleted = d]
  <2>1. u \in User /\ u.sub = user.sub /\ u.deleted = d
    BY <1>2
  <2>2. Heals(u, rows)
    BY <1>3
  <2> HIDE DEF u
  <2> QED
    BY <1>1, <2>1, <2>2, Healing DEF UserKept
<1>4. CASE \E caller \in Callers : SoftDelete(caller)
  BY <1>1, <1>3, <1>4 DEF SoftDelete
<1>5. CASE Restore
  BY <1>1, <1>3, <1>5 DEF Restore
<1>6. CASE ListUsers
  BY <1>1, <1>6, Healing DEF ListUsers, UserKept
<1> QED
  BY <1>4, <1>5, <1>6

\* A login, and the end of a token.
LEMMA TokenStepDoes ==
  ASSUME TypeOK, NEW d \in Devices, Login(d) \/ Expire(d)
  PROVE  /\ token' \in [Devices -> Claims \cup {NoToken}]
         /\ \A e \in Devices : token'[e] # NoToken =>
              token'[e] = token[e] \/ (account # NoAccount /\ token'[e] = account)
         /\ CognitoKept /\ user' = user /\ rows' = rows /\ player' = player /\ call' = call
         /\ faults' = faults
BY DEF Login, Expire, TypeOK, cognito, CognitoKept

LEMMA RequestDoes ==
  ASSUME TypeOK, NEW d \in Devices, Request(d)
  PROVE  /\ user' \in User \cup {NoUser} /\ token[d] # NoToken
         /\ user # NoUser => UserKept /\ user'.deleted = user.deleted
         /\ user = NoUser => user' # NoUser /\ user'.sub = token[d].sub /\ ~user'.deleted
         /\ CognitoKept /\ rows' = rows /\ player' = player /\ token' = token /\ call' = call
         /\ faults' = faults
<1> DEFINE t == token[d]
           n == [sub |-> t.sub, role |-> t.role, club |-> t.club,
                 member |-> "unknown", deleted |-> FALSE]
<1>1. /\ CognitoKept /\ rows' = rows /\ player' = player /\ token' = token /\ call' = call
      /\ faults' = faults /\ t # NoToken /\ t \in Claims
  BY DEF Request, cognito, CognitoKept, TypeOK
<1>2. n \in User /\ n.sub = t.sub /\ ~n.deleted
  BY <1>1 DEF Claims, User, Membership
<1>3. user' = IF IsUser(t.sub) THEN Synced(t) ELSE IF user = NoUser THEN n ELSE user
  BY DEF Request
<1>4. user # NoUser => /\ Synced(t) \in User /\ Synced(t).sub = user.sub
                       /\ Synced(t).deleted = user.deleted
  BY <1>1 DEF Synced, User, Claims, TypeOK
<1> HIDE DEF n, t
<1>5. CASE user = NoUser
  <2>1. user' = n
    BY <1>3, <1>5 DEF IsUser
  <2> QED
    BY <1>1, <1>2, <1>5, <2>1, NullAssumption DEF t
<1>6. CASE user # NoUser
  <2>1. user \in User
    BY <1>6 DEF TypeOK
  <2> QED
    BY <1>1, <1>3, <1>4, <1>6, <2>1, NullAssumption DEF t, UserKept
<1> QED
  BY <1>5, <1>6

-----------------------------------------------------------------------------
(* Types *)

\* Only governance roles are seeded, and roles are committed while there is a user.
SeedsGovernance == \A a \in Admins : At(a, "seeding") => call[a].role \in Governance

\* A handler that writes has found its user, and holds the locks of what it writes: the row that
\* it replaces is still there, and no other handler writes it.
RowsInv ==
  /\ user = NoUser => rows = {}
  /\ \A q, r \in rows : q.id = r.id => q = r
  /\ \A a \in Admins : Writing(a) =>
       /\ IsUser(call[a].sub)
       /\ Replaces(a) => call[a].entry \in EntriesOf(call[a].role)
       /\ \A b \in Admins : Writing(b) /\ b # a => call[a].entry = NoEntry \/ call[a].entry # call[b].entry

BaseInv == TypeOK /\ SeedsGovernance /\ RowsInv

LEMMA OthersStay ==
  ASSUME NEW a \in Admins, Others(a), NEW b \in Admins, b # a
  PROVE  /\ call'[b] = call[b] /\ SameChange(b)
         /\ \A l \in {"creating", "created", "seeding", "loaded", "flushed", "told", "deleting", "removed"} :
              At(b, l)' <=> At(b, l)
         /\ Writing(b)' <=> Writing(b)
         /\ Creates(b)' <=> Creates(b)
         /\ Deletes(b)' <=> Deletes(b)
         /\ HandlesRoles(b)' <=> HandlesRoles(b)
         /\ Inserts(b)' <=> Inserts(b)
BY DEF Others, SameChange, At, Writing, Creates, Deletes, HandlesRoles, Inserts

\* A step that changes neither rows nor whose users row it is.
LEMMA RowsFrame ==
  ASSUME RowsInv, UserKept, rows' = rows,
         \A b \in Admins : Writing(b)' => Writing(b) /\ SameChange(b)
  PROVE  RowsInv'
BY DEF RowsInv, UserKept, Replaces, EntriesOf, SameChange, IsUser

\* The insertion of a users row: nobody was writing.
LEMMA RowsNewUser ==
  ASSUME RowsInv, user = NoUser, user' # NoUser, rows' = rows,
         \A b \in Admins : Writing(b)' => Writing(b)
  PROVE  RowsInv'
BY DEF RowsInv, IsUser

LEMMA KeptByEquality == TypeOK /\ user' = user => UserKept
BY DEF TypeOK, UserKept

LEMMA RowsFlush ==
  ASSUME TypeOK, RowsInv, NEW a \in Admins, Flush(a)
  PROVE  RowsInv'
<1>1. /\ Others(a) /\ At(a, "loaded") /\ ~Locked(a, call[a].entry) /\ user' = user /\ rows' = rows
      /\ \/ call'[a] = Idle
         \/ /\ At(a, "flushed")' /\ SameChange(a) /\ IsUser(call[a].sub)
            /\ Replaces(a) => call[a].entry \in EntriesOf(call[a].role)
  BY FlushDoes
<1>2. CASE call'[a] = Idle
  <2>1. \A b \in Admins : Writing(b)' => Writing(b) /\ SameChange(b)
    BY <1>1, <1>2, OthersStay DEF Writing, At
  <2> QED
    BY <1>1, <2>1, RowsFrame, KeptByEquality
<1>3. CASE call'[a] # Idle
  <2>1. /\ At(a, "flushed")' /\ SameChange(a) /\ IsUser(call[a].sub)
        /\ Replaces(a) => call[a].entry \in EntriesOf(call[a].role)
    BY <1>1, <1>3
  <2>2. \A b \in Admins : Writing(b) /\ b # a => call[a].entry = NoEntry \/ call[a].entry # call[b].entry
    BY <1>1 DEF Locked, Holds, Writing
  <2>3. ASSUME NEW b \in Admins, Writing(b)'
        PROVE  /\ IsUser(call[b].sub)'
               /\ Replaces(b)' => (call[b].entry \in EntriesOf(call[b].role))'
    BY <1>1, <2>1, <2>3, OthersStay DEF RowsInv, SameChange, Replaces, IsUser, EntriesOf
  <2>4. ASSUME NEW b \in Admins, Writing(b)', NEW c \in Admins, Writing(c)', c # b
        PROVE  call'[b].entry = NoEntry \/ call'[b].entry # call'[c].entry
    BY <1>1, <2>1, <2>2, <2>4, OthersStay DEF RowsInv, SameChange
  <2> QED
    BY <1>1, <2>3, <2>4 DEF RowsInv
<1> QED
  BY <1>2, <1>3

LEMMA RowsSeed ==
  ASSUME TypeOK, SeedsGovernance, RowsInv, NEW a \in Admins, SeedRole(a)
  PROVE  RowsInv'
<1>1. /\ Others(a) /\ call'[a] = Idle /\ UserKept
      /\ IsUser(call[a].sub) => \E id \in FreshIds : rows' = rows \cup {RowFor(id, call[a].role, call[a].club)}
      /\ ~IsUser(call[a].sub) => rows' = rows
  BY SeedRoleDoes DEF SeedsGovernance
<1>2. \A b \in Admins : Writing(b)' => Writing(b) /\ SameChange(b)
  BY <1>1, OthersStay DEF Writing, At
<1>3. CASE IsUser(call[a].sub)
  <2>1. PICK id \in FreshIds : rows' = rows \cup {RowFor(id, call[a].role, call[a].club)}
    BY <1>1, <1>3
  <2>2. \A q \in rows : q.id # id
    BY DEF FreshIds
  <2>3. \A q, r \in rows' : q.id = r.id => q = r
    BY <2>1, <2>2, RowForIs DEF RowsInv
  <2>4. user' # NoUser
    BY <1>1, <1>3 DEF UserKept, IsUser
  <2>5. ASSUME NEW b \in Admins, Replaces(b)', SameChange(b),
               Replaces(b) => call[b].entry \in EntriesOf(call[b].role)
        PROVE  (call[b].entry \in EntriesOf(call[b].role))'
    BY <2>1, <2>5 DEF SameChange, Replaces, EntriesOf
  <2> QED
    BY <1>1, <1>2, <2>3, <2>4, <2>5 DEF RowsInv, UserKept, SameChange, IsUser
<1>4. CASE ~IsUser(call[a].sub)
  BY <1>1, <1>2, <1>4, RowsFrame
<1> QED
  BY <1>3, <1>4

LEMMA RowsCommit ==
  ASSUME TypeOK, RowsInv, NEW a \in Admins, CommitRoles(a)
  PROVE  RowsInv' /\ user # NoUser
<1>1. Writing(a) /\ user # NoUser
  BY DEF CommitRoles, Writing, RowsInv, IsUser
<1>2. /\ Others(a) /\ call'[a] = Idle /\ UserKept
      /\ \E id \in FreshIds \cup {NoEntry} :
           /\ (id = NoEntry) = (call[a].op = "revoke" \/ call[a].entry # NoEntry)
           /\ rows' = Changed(a, id)
  BY <1>1, CommitRolesDoes
<1>3. PICK id \in FreshIds \cup {NoEntry} :
        /\ (id = NoEntry) = (call[a].op = "revoke" \/ call[a].entry # NoEntry)
        /\ rows' = Changed(a, id)
  BY <1>2
<1>4. id # NoEntry => \A q \in rows : q.id # id
  BY DEF FreshIds
<1>5. \A q, r \in rows' : q.id = r.id => q = r
  <2>1. CASE call[a].op = "revoke"
    BY <1>3, <2>1 DEF RowsInv, Changed
  <2>2. CASE call[a].op # "revoke" /\ call[a].entry = NoEntry
    BY <1>3, <1>4, <2>2, RowForIs DEF RowsInv, Changed
  <2>3. CASE call[a].op # "revoke" /\ call[a].entry # NoEntry
    BY <1>3, <2>3, RowForIs DEF RowsInv, Changed
  <2> QED
    BY <2>1, <2>2, <2>3
<1>6. \A q \in rows : call[a].entry = NoEntry \/ q.id # call[a].entry => q \in rows'
  <2>1. \A q \in rows : q.id # NoEntry
    BY AccountsAssumption DEF TypeOK, GovernanceRow
  <2> QED
    BY <1>3, <2>1 DEF Changed
<1>7. ASSUME NEW b \in Admins, Writing(b)'
      PROVE  /\ b # a /\ Writing(b) /\ SameChange(b)
             /\ Replaces(b)' => (call[b].entry \in EntriesOf(call[b].role))'
  <2>1. b # a /\ Writing(b) /\ SameChange(b)
    BY <1>2, <1>7, OthersStay DEF Writing, At
  <2>2. call[b].entry = NoEntry \/ call[b].entry # call[a].entry
    BY <1>1, <2>1 DEF RowsInv
  <2>3. Replaces(b) => \E q \in rows : q.role = call[b].role /\ q.id = call[b].entry
    BY <2>1 DEF RowsInv, EntriesOf
  <2>4. Replaces(b) => \E q \in rows' : q.role = call[b].role /\ q.id = call[b].entry
    BY <1>6, <2>2, <2>3 DEF Replaces
  <2> QED
    BY <2>1, <2>4 DEF Replaces, SameChange, EntriesOf
<1> QED
  BY <1>1, <1>2, <1>5, <1>7 DEF RowsInv, UserKept, SameChange, IsUser

LEMMA BaseInit == MCInit => BaseInv
<1> SUFFICES ASSUME MCInit PROVE BaseInv
  OBVIOUS
<1>1. 0 \in 0 .. MaxSubs /\ 0 \in 0 .. MaxFaults
  BY AccountsAssumption
<1> QED
  BY <1>1 DEF MCInit, Init, BaseInv, TypeOK, SeedsGovernance, RowsInv, Writing, At

LEMMA BaseStep == BaseInv /\ [MCNext]_<<vars, history>> => BaseInv'
<1> SUFFICES ASSUME BaseInv, [MCNext]_<<vars, history>> PROVE BaseInv'
  OBVIOUS
<1> USE DEF BaseInv
<1>1. CASE UNCHANGED <<vars, history>>
  BY <1>1 DEF vars, history, TypeOK, SeedsGovernance, RowsInv, Writing, Replaces, EntriesOf, IsUser, At
<1>2. CASE MCNext
  <2>1. ASSUME NEW a \in Admins, Others(a), ~At(a, "seeding")' \/ call'[a].role \in Governance
        PROVE  SeedsGovernance'
    BY <2>1, OthersStay DEF SeedsGovernance
  <2>2. ASSUME NEW a \in Admins, Others(a), ~Writing(a)'
        PROVE  \A b \in Admins : Writing(b)' => Writing(b) /\ SameChange(b)
    BY <2>2, OthersStay
  <2>3. ASSUME NEW a \in Admins,
               \/ \E caller \in Callers : Create(a, caller) \/ Manage(a, caller)
               \/ BeginHardDelete(a)
        PROVE  BaseInv'
    <3>1. /\ call' \in [Admins -> Call \cup {Idle}] /\ Others(a) /\ player' \in BOOLEAN
          /\ ~At(a, "seeding")' /\ ~Writing(a)'
          /\ CognitoKept /\ user' = user /\ rows' = rows /\ token' = token /\ faults' = faults
      <4>1. CASE \E caller \in Callers : Create(a, caller)
        BY <4>1, BeginCreateDoes DEF Create, At, Writing
      <4>2. CASE \E caller \in Callers : Manage(a, caller)
        BY <4>2, BeginRolesDoes DEF Manage, At, Writing, TypeOK
      <4>3. CASE BeginHardDelete(a)
        BY <4>3, BeginHardDeleteDoes DEF At, Writing, TypeOK
      <4> QED
        BY <2>3, <4>1, <4>2, <4>3
    <3>2. TypeOK'
      BY <1>2, <3>1, Types DEF TypeOK, CognitoKept
    <3> QED
      BY <2>1, <2>2, <3>1, <3>2, RowsFrame, KeptByEquality
  <2>4. ASSUME NEW a \in Admins,
               CreateAccount(a) \/ CreateAccountFails(a) \/ CreateReplyLost(a)
               \/ RemoveAccount(a) \/ RemoveFails(a) \/ RemoveReplyLost(a) \/ HandlerDies(a)
        PROVE  BaseInv'
    <3>1. /\ call' \in [Admins -> Call \cup {Idle}] /\ Others(a) /\ player' \in BOOLEAN
          /\ ~At(a, "seeding")' /\ ~Writing(a)'
          /\ account' \in Claims \cup {NoAccount} /\ subs' \in 0 .. MaxSubs
          /\ user' = user /\ rows' = rows /\ token' = token /\ (faults' = faults \/ Fault)
      <4>1. CASE CreateAccount(a)
        BY <4>1, CreateAccountDoes, CreatedDoes DEF At, Writing, TypeOK
      <4>2. CASE CreateAccountFails(a) \/ CreateReplyLost(a)
        BY <4>2, CreateEndsDoes, CreatedDoes DEF At, Writing, TypeOK, CognitoKept
      <4>3. CASE RemoveAccount(a)
        BY <4>3, RemoveAccountDoes DEF At, Writing, TypeOK
      <4>4. CASE RemoveFails(a) \/ RemoveReplyLost(a)
        BY <4>4, RemoveEndsDoes DEF At, Writing, TypeOK, CognitoKept
      <4>5. CASE HandlerDies(a)
        BY <4>5, HandlerDiesDoes DEF At, Writing, TypeOK, CognitoKept
      <4> QED
        BY <2>4, <4>1, <4>2, <4>3, <4>4, <4>5
    <3>2. TypeOK'
      BY <1>2, <3>1, Types DEF TypeOK
    <3> QED
      BY <2>1, <2>2, <3>1, <3>2, RowsFrame, KeptByEquality
  <2>5. ASSUME NEW a \in Admins, CommitUser(a) PROVE BaseInv'
    <3>1. TypeOK'
      BY <1>2, <2>5, CommitUserDoes, Types DEF TypeOK, CognitoKept
    <3>2. Others(a) /\ ~Writing(a)' /\ (~At(a, "seeding")' \/ call'[a].role \in Governance)
      BY <2>5, CommitUserDoes DEF At, Writing
    <3>3. SeedsGovernance'
      BY <2>1, <3>2
    <3>4. \A b \in Admins : Writing(b)' => Writing(b) /\ SameChange(b)
      BY <2>2, <3>2
    <3>5. RowsInv'
      <4>1. CASE user = NoUser
        BY <2>5, <3>4, <4>1, CommitUserDoes, RowsNewUser
      <4>2. CASE user # NoUser
        BY <2>5, <3>4, <4>2, CommitUserDoes, RowsFrame, KeptByEquality
      <4> QED
        BY <4>1, <4>2
    <3> QED
      BY <3>1, <3>3, <3>5
  <2>6. ASSUME NEW a \in Admins, SeedRole(a) PROVE BaseInv'
    <3>1. At(a, "seeding") /\ call[a].role \in Governance
      BY <2>6, SeedRoleDoes DEF SeedsGovernance
    <3>2. TypeOK'
      BY <1>2, <2>6, <3>1, SeedRoleDoes, Types DEF TypeOK, CognitoKept, UserKept
    <3>3. SeedsGovernance'
      BY <2>1, <2>6, SeedRoleDoes DEF At
    <3> QED
      BY <2>6, <3>2, <3>3, RowsSeed
  <2>7. ASSUME NEW a \in Admins, Flush(a) PROVE BaseInv'
    <3>1. TypeOK'
      BY <1>2, <2>7, FlushDoes, Types DEF TypeOK, CognitoKept
    <3>2. SeedsGovernance'
      BY <2>1, <2>7, FlushDoes DEF At
    <3> QED
      BY <2>7, <3>1, <3>2, RowsFlush
  <2>8. ASSUME NEW a \in Admins, Tell(a) \/ TellFails(a) PROVE BaseInv'
    <3>1. TypeOK'
      BY <1>2, <2>8, TellDoes, Types DEF TypeOK
    <3>2. SeedsGovernance'
      BY <2>1, <2>8, TellDoes DEF At
    <3>3. \A b \in Admins : Writing(b)' => Writing(b) /\ SameChange(b)
      BY <2>8, TellDoes, OthersStay DEF Writing
    <3> QED
      BY <2>8, <3>1, <3>2, <3>3, TellDoes, RowsFrame, KeptByEquality
  <2>9. ASSUME NEW a \in Admins, CommitRoles(a) PROVE BaseInv'
    <3>1. RowsInv' /\ user # NoUser
      BY <2>9, RowsCommit
    <3>2. TypeOK'
      BY <1>2, <2>9, <3>1, CommitRolesDoes, Types DEF TypeOK, CognitoKept, UserKept
    <3>3. SeedsGovernance'
      BY <2>1, <2>9, <3>1, CommitRolesDoes DEF At
    <3> QED
      BY <3>1, <3>2, <3>3
  <2>10. ASSUME NEW a \in Admins, CommitHardDelete(a) PROVE BaseInv'
    <3>1. /\ Others(a) /\ call'[a] = Idle /\ \A b \in Admins : ~Writing(b)
          /\ (user' = NoUser /\ rows' = {}) \/ (user' = user /\ rows' = rows)
      BY <2>10, CommitHardDeleteDoes
    <3>2. TypeOK'
      BY <1>2, <2>10, <3>1, CommitHardDeleteDoes, Types DEF TypeOK, CognitoKept
    <3>3. SeedsGovernance' /\ ~Writing(a)'
      BY <2>1, <3>1 DEF At, Writing
    <3>4. \A b \in Admins : ~Writing(b)'
      BY <2>2, <3>1, <3>3
    <3> QED
      BY <3>1, <3>2, <3>3, <3>4 DEF RowsInv
  <2>11. ASSUME (\E caller \in Callers : SoftDelete(caller)) \/ Restore \/ ListUsers PROVE BaseInv'
    <3>1. /\ UserKept /\ rows' = rows /\ call' = call
      BY <2>11, UserStepDoes
    <3>2. TypeOK'
      BY <1>2, <2>11, UserStepDoes, Types DEF TypeOK, CognitoKept, UserKept
    <3> QED
      BY <3>1, <3>2, RowsFrame DEF SeedsGovernance, SameChange, Writing, At
  <2>12. ASSUME NEW d \in Devices, Login(d) \/ Expire(d) PROVE BaseInv'
    <3>1. user' = user /\ rows' = rows /\ call' = call
      BY <2>12, TokenStepDoes
    <3>2. TypeOK'
      BY <1>2, <2>12, TokenStepDoes, Types DEF TypeOK, CognitoKept
    <3> QED
      BY <3>1, <3>2, RowsFrame, KeptByEquality DEF SeedsGovernance, SameChange, Writing, At
  <2>13. ASSUME NEW d \in Devices, Request(d) PROVE BaseInv'
    <3>1. rows' = rows /\ call' = call
      BY <2>13, RequestDoes
    <3>2. TypeOK'
      BY <1>2, <2>13, RequestDoes, Types DEF TypeOK, CognitoKept
    <3>3. RowsInv'
      <4>1. CASE user = NoUser
        BY <2>13, <3>1, <4>1, RequestDoes, RowsNewUser DEF Writing, At
      <4>2. CASE user # NoUser
        BY <2>13, <3>1, <4>2, RequestDoes, RowsFrame DEF Writing, At, SameChange
      <4> QED
        BY <4>1, <4>2
    <3> QED
      BY <3>1, <3>2, <3>3 DEF SeedsGovernance, At
  <2> QED
    BY <1>2, <2>3, <2>4, <2>5, <2>6, <2>7, <2>8, <2>9, <2>10, <2>11, <2>12, <2>13
       DEF MCNext, Next, Starts, Continues, Fails
<1> QED
  BY <1>1, <1>2

-----------------------------------------------------------------------------
(* Deletion *)

\* Subs are issued once.
SubsInv ==
  /\ account # NoAccount => account.sub <= subs
  /\ user # NoUser => user.sub <= subs
  /\ \A d \in Devices : token[d] # NoToken => token[d].sub <= subs
  /\ \A a \in Admins : Deletes(a) \/ At(a, "created") => call[a].sub <= subs
  /\ \A s \in buried : s <= subs /\ ~IsAccount(s)

\* A handler that has not removed the account yet has not lost its user either, and only one
\* handler removes it: Cognito refuses the others.
DeletionInv ==
  /\ \A a \in Admins : At(a, "deleting") /\ IsAccount(call[a].sub) =>
       IsUser(call[a].sub) /\ (user.deleted \/ "restored" \in overlaps)
  /\ \A a \in Admins : At(a, "removed") =>
       /\ IsUser(call[a].sub) /\ (user.deleted \/ "restored" \in overlaps)
       /\ ~IsAccount(call[a].sub) /\ call[a].sub \notin buried
       /\ \A b \in Admins : At(b, "removed") => b = a

LEMMA Recorded ==
  ASSUME MCNext
  PROVE  /\ overlaps \subseteq overlaps'
         /\ InsertsOverlap => "inserts" \in overlaps'
         /\ RolesOverlap => "roles" \in overlaps'
         /\ RestoredWhileDeleted => "restored" \in overlaps'
         /\ CreatedWhileDeleted => "created" \in overlaps'
         /\ user # NoUser /\ user' = NoUser => buried' = buried \cup {user.sub}
         /\ ~(user # NoUser /\ user' = NoUser) => buried' = buried
BY DEF MCNext, Overlap

LEMMA Integral ==
  ASSUME TypeOK
  PROVE  /\ subs \in Nat
         /\ account # NoAccount => account \in Claims /\ account.sub \in Nat
         /\ user # NoUser => user.sub \in Nat
         /\ \A d \in Devices : token[d] # NoToken => token[d].sub \in Nat
         /\ \A a \in Admins : Deletes(a) \/ At(a, "created") => call[a].sub \in Nat
         /\ \A s \in buried : s \in Nat
<1>1. Subs \subseteq Nat
  BY AccountsAssumption DEF Subs
<1>2. \A a \in Admins : Deletes(a) \/ At(a, "created") => call[a].sub \in Subs
  BY CallCases DEF Deletes, DeleteCall, NewCall
<1>3. subs \in Nat
  BY AccountsAssumption DEF TypeOK
<1>4. \A c \in Claims : c.sub \in Nat
  BY <1>1 DEF Claims
<1>5. \A u \in User : u.sub \in Nat
  BY <1>1 DEF User
<1> QED
  BY <1>1, <1>2, <1>3, <1>4, <1>5 DEF TypeOK

\* The handlers of deletions and creations go on with the sub they have.
SubsKept == \A b \in Admins :
  /\ At(b, "deleting")' => At(b, "deleting") /\ call'[b].sub = call[b].sub
  /\ At(b, "removed")' => At(b, "removed") /\ call'[b].sub = call[b].sub
  /\ At(b, "created")' => At(b, "created") /\ call'[b].sub = call[b].sub

\* An account at most vanishes, and the user stays the same.
LEMMA DeletionFrame ==
  ASSUME TypeOK, MCNext, SubsInv, DeletionInv, subs' = subs,
         account' = NoAccount \/ (account # NoAccount /\ account'.sub = account.sub),
         UserKept, SubsKept,
         \A d \in Devices : token'[d] # NoToken =>
           \/ token[d] # NoToken /\ token'[d] = token[d]
           \/ account # NoAccount /\ token'[d] = account
  PROVE  SubsInv' /\ DeletionInv'
<1>1. \A s : IsAccount(s)' => IsAccount(s)
  BY DEF IsAccount
<1>2. \A s : IsUser(s)' <=> IsUser(s)
  BY DEF IsUser, UserKept
<1>3. buried' = buried
  BY Recorded DEF UserKept
<1>4. \A b \in Admins : Deletes(b)' => Deletes(b)
  BY DEF Deletes, SubsKept
<1>5. ASSUME NEW b \in Admins, Deletes(b)', user # NoUser, user.deleted \/ "restored" \in overlaps
      PROVE  user'.deleted \/ "restored" \in overlaps'
  <2>1. user' # NoUser /\ Deletes(b)
    BY <1>4, <1>5 DEF UserKept
  <2> QED
    BY <1>5, <2>1, Recorded DEF RestoredWhileDeleted
<1>6. SubsInv'
  BY <1>1, <1>3 DEF SubsInv, SubsKept, UserKept, Deletes
<1>7. DeletionInv'
  BY <1>1, <1>2, <1>3, <1>5 DEF DeletionInv, SubsKept, IsUser, Deletes
<1> QED
  BY <1>6, <1>7

\* The insertion of a users row: no deletion that can go on is in progress.
LEMMA DeletionNewUser ==
  ASSUME TypeOK, MCNext, SubsInv, DeletionInv, CognitoKept, token' = token, SubsKept,
         user = NoUser, user' # NoUser, user'.sub <= subs
  PROVE  SubsInv' /\ DeletionInv'
<1>1. \A s : IsAccount(s)' <=> IsAccount(s)
  BY DEF IsAccount, CognitoKept
<1>2. buried' = buried
  BY Recorded
<1>3. \A b \in Admins : ~At(b, "removed") /\ ~(At(b, "deleting") /\ IsAccount(call[b].sub))
  BY DEF DeletionInv, IsUser
<1>4. SubsInv'
  BY <1>1, <1>2 DEF SubsInv, SubsKept, CognitoKept, Deletes
<1> QED
  BY <1>1, <1>3, <1>4 DEF DeletionInv, SubsKept

\* A new account has a new sub.
LEMMA DeletionNewAccount ==
  ASSUME TypeOK, MCNext, SubsInv, DeletionInv, NEW a \in Admins, Others(a),
         At(a, "creating"), Created(a), call'[a] = Idle \/ (At(a, "created")' /\ call'[a].sub = subs'),
         token' = token, user' = user
  PROVE  SubsInv' /\ DeletionInv'
<1>1. account' # NoAccount /\ account'.sub = subs + 1 /\ subs' = subs + 1 /\ subs \in Nat
  BY CreatedDoes, Integral
<1>2. \A s \in Nat : s <= subs => ~IsAccount(s)' /\ s <= subs'
  BY <1>1 DEF IsAccount
<1>3. buried' = buried /\ overlaps \subseteq overlaps'
  BY Recorded
<1>4. \A b \in Admins : /\ At(b, "deleting")' => At(b, "deleting") /\ call'[b].sub = call[b].sub
                        /\ At(b, "removed")' => At(b, "removed") /\ call'[b].sub = call[b].sub
                        /\ At(b, "created")' => \/ At(b, "created") /\ call'[b].sub = call[b].sub
                                                \/ call'[b].sub = subs'
  BY OthersStay DEF At
<1>5. \A b \in Admins : Deletes(b)' \/ At(b, "created")' => call'[b].sub <= subs'
  BY <1>1, <1>2, <1>4, Integral DEF SubsInv, Deletes
<1>6. SubsInv'
  BY <1>1, <1>2, <1>3, <1>5, Integral DEF SubsInv
<1>7. \A b \in Admins : Deletes(b)' => ~IsAccount(call[b].sub)' /\ Deletes(b)
  BY <1>2, <1>4, Integral DEF SubsInv, Deletes
<1>8. DeletionInv'
  BY <1>3, <1>4, <1>7 DEF DeletionInv, IsUser, Deletes, IsAccount
<1> QED
  BY <1>6, <1>8

LEMMA DeletionRemoves ==
  ASSUME TypeOK, MCNext, SubsInv, DeletionInv, NEW a \in Admins, RemoveAccount(a)
  PROVE  SubsInv' /\ DeletionInv'
<1>1. /\ Others(a) /\ At(a, "deleting") /\ At(a, "removed")' /\ call'[a].sub = call[a].sub
      /\ IsAccount(call[a].sub) /\ account' = NoAccount /\ subs' = subs
      /\ user' = user /\ token' = token
  BY RemoveAccountDoes
<1>2. buried' = buried /\ overlaps \subseteq overlaps'
  BY <1>1, Recorded
<1>3. \A s : ~IsAccount(s)'
  BY <1>1 DEF IsAccount
<1>4. \A b \in Admins : b # a =>
        /\ At(b, "deleting")' => At(b, "deleting") /\ call'[b].sub = call[b].sub
        /\ At(b, "removed")' => At(b, "removed") /\ call'[b].sub = call[b].sub
        /\ At(b, "created")' => At(b, "created") /\ call'[b].sub = call[b].sub
  BY <1>1, OthersStay
<1>5. IsUser(call[a].sub) /\ (user.deleted \/ "restored" \in overlaps) /\ call[a].sub \notin buried
  BY <1>1 DEF DeletionInv, SubsInv
<1>6. \A b \in Admins : ~At(b, "removed")
  BY <1>1, <1>5 DEF DeletionInv, IsUser
<1>7. ~At(a, "created")' /\ ~At(a, "deleting")'
  BY <1>1 DEF At
<1>8. SubsInv'
  BY <1>1, <1>2, <1>3, <1>4, <1>7 DEF SubsInv, Deletes
<1>9. DeletionInv'
  BY <1>1, <1>2, <1>3, <1>4, <1>5, <1>6 DEF DeletionInv, IsUser
<1> QED
  BY <1>8, <1>9

LEMMA DeletionCommits ==
  ASSUME TypeOK, MCNext, SubsInv, DeletionInv, NEW a \in Admins, CommitHardDelete(a)
  PROVE  SubsInv' /\ DeletionInv' /\ user' = NoUser /\ user # NoUser /\ IsUser(call[a].sub)
         /\ (user.deleted \/ "restored" \in overlaps)
<1>1. /\ Others(a) /\ At(a, "removed") /\ call'[a] = Idle /\ CognitoKept /\ token' = token
      /\ IF IsUser(call[a].sub) THEN user' = NoUser /\ rows' = {} ELSE user' = user /\ rows' = rows
  BY CommitHardDeleteDoes
<1>2. /\ IsUser(call[a].sub) /\ ~IsAccount(call[a].sub) /\ (user.deleted \/ "restored" \in overlaps)
      /\ \A b \in Admins : At(b, "removed") => b = a
  BY <1>1 DEF DeletionInv
<1>3. user' = NoUser /\ user # NoUser /\ user.sub = call[a].sub
  BY <1>1, <1>2 DEF IsUser
<1>4. buried' = buried \cup {user.sub}
  BY <1>3, Recorded
<1>5. \A s : IsAccount(s)' <=> IsAccount(s)
  BY <1>1 DEF IsAccount, CognitoKept
<1>6. SubsKept /\ ~At(a, "removed")'
  BY <1>1, OthersStay DEF SubsKept, At
<1>7. \A b \in Admins : ~At(b, "removed")' /\ ~(At(b, "deleting") /\ IsAccount(call[b].sub))'
  BY <1>2, <1>3, <1>5, <1>6 DEF DeletionInv, SubsKept, IsUser
<1>8. SubsInv'
  BY <1>1, <1>2, <1>3, <1>4, <1>5, <1>6 DEF SubsInv, SubsKept, CognitoKept, Deletes
<1> QED
  BY <1>2, <1>3, <1>7, <1>8 DEF DeletionInv

LEMMA DeletionInit == MCInit => SubsInv /\ DeletionInv
BY DEF MCInit, Init, SubsInv, DeletionInv, Deletes, At

LEMMA DeletionStep ==
  ASSUME BaseInv, SubsInv, DeletionInv, [MCNext]_<<vars, history>>
  PROVE  SubsInv' /\ DeletionInv'
<1> USE DEF BaseInv
<1>1. CASE UNCHANGED <<vars, history>>
  BY <1>1 DEF vars, history, SubsInv, DeletionInv, Deletes, At, IsUser, IsAccount
<1>2. CASE MCNext
  <2> USE <1>2
  <2>1. ASSUME NEW a \in Admins, Others(a), ~Deletes(a)', ~At(a, "created")' PROVE SubsKept
    BY <2>1, OthersStay DEF SubsKept, Deletes
  <2>2. ASSUME NEW a \in Admins,
               \/ \E caller \in Callers : Create(a, caller) \/ Manage(a, caller)
               \/ CreateAccountFails(a) /\ CognitoKept
               \/ CreateReplyLost(a) /\ CognitoKept
               \/ SeedRole(a) \/ Flush(a) \/ Tell(a) \/ TellFails(a) \/ CommitRoles(a)
               \/ RemoveFails(a) \/ RemoveReplyLost(a) \/ HandlerDies(a)
        PROVE  SubsInv' /\ DeletionInv'
    <3>1. /\ Others(a) /\ ~Deletes(a)' /\ ~At(a, "created")' /\ token' = token /\ subs' = subs
          /\ account' = NoAccount \/ (account # NoAccount /\ account'.sub = account.sub)
          /\ UserKept
      <4>1. CASE \E caller \in Callers : Create(a, caller)
        BY <4>1, BeginCreateDoes, KeptByEquality DEF Create, Deletes, At, CognitoKept
      <4>2. CASE \E caller \in Callers : Manage(a, caller)
        BY <4>2, BeginRolesDoes, KeptByEquality DEF Manage, Deletes, At, CognitoKept
      <4>3. CASE (CreateAccountFails(a) \/ CreateReplyLost(a)) /\ CognitoKept
        BY <4>3, CreateEndsDoes, KeptByEquality DEF Deletes, At, CognitoKept
      <4>4. CASE SeedRole(a)
        BY <4>4, SeedRoleDoes DEF SeedsGovernance, Deletes, At, CognitoKept
      <4>5. CASE Flush(a)
        BY <4>5, FlushDoes, KeptByEquality DEF Deletes, At, CognitoKept
      <4>6. CASE Tell(a) \/ TellFails(a)
        BY <4>6, TellDoes, KeptByEquality DEF Deletes, At
      <4>7. CASE CommitRoles(a)
        BY <4>7, RowsCommit, CommitRolesDoes DEF Deletes, At, CognitoKept
      <4>8. CASE RemoveFails(a) \/ RemoveReplyLost(a)
        BY <4>8, RemoveEndsDoes, KeptByEquality DEF Deletes, At, CognitoKept
      <4>9. CASE HandlerDies(a)
        BY <4>9, HandlerDiesDoes, KeptByEquality DEF Deletes, At, CognitoKept
      <4> QED
        BY <2>2, <4>1, <4>2, <4>3, <4>4, <4>5, <4>6, <4>7, <4>8, <4>9
    <3> QED
      BY <2>1, <3>1, DeletionFrame
  <2>3. ASSUME NEW a \in Admins, BeginHardDelete(a) PROVE SubsInv' /\ DeletionInv'
    <3>1. /\ Others(a) /\ call[a] = Idle
          /\ At(a, "deleting")' /\ user # NoUser /\ user.deleted /\ call'[a].sub = user.sub
          /\ CognitoKept /\ user' = user /\ token' = token
      BY <2>3, BeginHardDeleteDoes
    <3>2. buried' = buried /\ overlaps \subseteq overlaps'
      BY <3>1, Recorded
    <3>3. \A s : (IsAccount(s)' <=> IsAccount(s)) /\ (IsUser(s)' <=> IsUser(s))
      BY <3>1 DEF IsAccount, IsUser, CognitoKept
    <3>4. \A b \in Admins : b # a =>
            /\ At(b, "deleting")' => At(b, "deleting") /\ call'[b].sub = call[b].sub
            /\ At(b, "removed")' => At(b, "removed") /\ call'[b].sub = call[b].sub
            /\ At(b, "created")' => At(b, "created") /\ call'[b].sub = call[b].sub
      BY <3>1, OthersStay
    <3>5. ~At(a, "removed")' /\ ~At(a, "created")'
      BY <3>1 DEF At
    <3>6. SubsInv'
      BY <3>1, <3>2, <3>3, <3>4, <3>5 DEF SubsInv, CognitoKept, Deletes
    <3>7. DeletionInv'
      BY <3>1, <3>2, <3>3, <3>4, <3>5 DEF DeletionInv, IsUser
    <3> QED
      BY <3>6, <3>7
  <2>4. ASSUME NEW a \in Admins,
               CreateAccount(a) \/ ((CreateAccountFails(a) \/ CreateReplyLost(a)) /\ ~CognitoKept)
        PROVE  SubsInv' /\ DeletionInv'
    <3>1. /\ Others(a) /\ At(a, "creating") /\ Created(a) /\ token' = token /\ user' = user
          /\ call'[a] = Idle \/ (At(a, "created")' /\ call'[a].sub = subs')
      BY <2>4, CreateAccountDoes, CreateEndsDoes
    <3> QED
      BY <3>1, DeletionNewAccount
  <2>5. ASSUME NEW a \in Admins, CommitUser(a) PROVE SubsInv' /\ DeletionInv'
    <3>1. Others(a) /\ At(a, "created") /\ CognitoKept /\ token' = token
      BY <2>5, CommitUserDoes
    <3>2. ~Deletes(a)' /\ ~At(a, "created")'
      BY <2>5, CommitUserDoes DEF Deletes, At
    <3>3. SubsKept
      BY <2>1, <3>1, <3>2
    <3>4. CASE user = NoUser
      <4>1. user' # NoUser /\ user'.sub = call[a].sub /\ call[a].sub <= subs
        BY <2>5, <3>1, <3>4, CommitUserDoes DEF SubsInv
      <4> QED
        BY <3>1, <3>3, <3>4, <4>1, DeletionNewUser
    <3>5. CASE user # NoUser
      BY <2>5, <3>1, <3>3, <3>5, CommitUserDoes, KeptByEquality, DeletionFrame DEF CognitoKept
    <3> QED
      BY <3>4, <3>5
  <2>6. ASSUME (\E caller \in Callers : SoftDelete(caller)) \/ Restore \/ ListUsers
        PROVE  SubsInv' /\ DeletionInv'
    <3>1. UserKept /\ CognitoKept /\ token' = token /\ call' = call
      BY <2>6, UserStepDoes
    <3> QED
      BY <3>1, DeletionFrame DEF CognitoKept, SubsKept, At
  <2>7. ASSUME NEW d \in Devices, Login(d) \/ Expire(d) PROVE SubsInv' /\ DeletionInv'
    <3>1. /\ CognitoKept /\ UserKept /\ call' = call
          /\ \A e \in Devices : token'[e] # NoToken =>
               token'[e] = token[e] \/ (account # NoAccount /\ token'[e] = account)
      BY <2>7, TokenStepDoes, KeptByEquality
    <3> QED
      BY <3>1, DeletionFrame DEF CognitoKept, SubsKept, At
  <2>8. ASSUME NEW d \in Devices, Request(d) PROVE SubsInv' /\ DeletionInv'
    <3>1. token[d] # NoToken /\ CognitoKept /\ token' = token /\ call' = call
      BY <2>8, RequestDoes
    <3>2. SubsKept
      BY <3>1 DEF SubsKept, At
    <3>3. CASE user = NoUser
      BY <2>8, <3>1, <3>2, <3>3, RequestDoes, DeletionNewUser DEF SubsInv
    <3>4. CASE user # NoUser
      BY <2>8, <3>1, <3>2, <3>4, RequestDoes, DeletionFrame DEF CognitoKept
    <3> QED
      BY <3>3, <3>4
  <2> QED
    BY <2>2, <2>3, <2>4, <2>5, <2>6, <2>7, <2>8, DeletionRemoves, DeletionCommits
       DEF MCNext, Next, Starts, Continues, Fails
<1> QED
  BY <1>1, <1>2

LifeInv == BaseInv /\ SubsInv /\ DeletionInv

LEMMA LifeInvariant == MCSpec => []LifeInv
<1>1. MCInit => LifeInv
  BY BaseInit, DeletionInit DEF LifeInv
<1>2. LifeInv /\ [MCNext]_<<vars, history>> => LifeInv'
  BY BaseStep, DeletionStep DEF LifeInv
<1> QED
  BY <1>1, <1>2, PTL DEF MCSpec

\* Deletion is a two-step process whoever overlaps whom and whatever fails: hard_delete_user
\* checks is_deleted before it calls Cognito and commits after it, and it is Cognito, which lets
\* one handler only delete an account, that keeps the check true until the commit.  A token that
\* makes the row again does not, since by then the account is gone.
THEOREM DeletedInTwoSteps == MCSpec => TwoStepDeletion
<1>1. LifeInv /\ LifeInv' /\ [MCNext]_<<vars, history>>
        => [user # NoUser /\ user' = NoUser => user.deleted \/ "restored" \in overlaps]_<<vars, history>>
  <2> SUFFICES ASSUME LifeInv, MCNext, user # NoUser, user' = NoUser
               PROVE  user.deleted \/ "restored" \in overlaps
    BY DEF LifeInv
  <2> USE DEF LifeInv, BaseInv
  <2>1. ~UserKept
    BY DEF UserKept
  <2>2. \A a \in Admins : ~Starts(a)
    BY <2>1, BeginCreateDoes, BeginRolesDoes, BeginHardDeleteDoes DEF Starts, Create, Manage
  <2>3. \A a \in Admins : ~Fails(a)
    BY <2>1, CreateEndsDoes, TellDoes, RemoveEndsDoes, HandlerDiesDoes DEF Fails
  <2>4. \A a \in Admins : /\ ~CreateAccount(a) /\ ~CreateAccountFails(a) /\ ~Flush(a) /\ ~Tell(a)
                          /\ ~RemoveAccount(a) /\ ~RemoveFails(a)
    BY <2>1, CreateAccountDoes, CreateEndsDoes, FlushDoes, TellDoes, RemoveAccountDoes, RemoveEndsDoes
  <2>5. \A a \in Admins : ~CommitUser(a) /\ ~SeedRole(a) /\ ~CommitRoles(a)
    BY <2>1, CommitUserDoes, SeedRoleDoes, CommitRolesDoes DEF SeedsGovernance
  <2>6. /\ ~(\E caller \in Callers : SoftDelete(caller)) /\ ~Restore /\ ~ListUsers
        /\ \A d \in Devices : ~Login(d) /\ ~Expire(d) /\ ~Request(d)
    BY <2>1, UserStepDoes, TokenStepDoes, RequestDoes
  <2>7. \E a \in Admins : CommitHardDelete(a)
    BY <2>2, <2>3, <2>4, <2>5, <2>6 DEF MCNext, Next, Continues
  <2> QED
    BY <2>7, DeletionCommits
<1> QED
  BY <1>1, LifeInvariant, PTL DEF MCSpec, TwoStepDeletion

-----------------------------------------------------------------------------
(* One row for each role *)

AssignsNew(a) == (At(a, "loaded") \/ Writing(a)) /\ call[a].op = "assign" /\ call[a].entry = NoEntry

OnePerRole(rs) == \A q, r \in rs : q.role = r.role => q = r

\* A handler that will insert a row has found none, and nobody else has inserted one.
InsertsInv ==
  "inserts" \notin overlaps =>
    /\ OnePerRole(rows)
    /\ \A a \in Admins : AssignsNew(a) => EntriesOf(call[a].role) = {}
    /\ \A a \in Admins : At(a, "seeding") /\ IsUser(call[a].sub) => EntriesOf(call[a].role) = {}

LEMMA ChangedOnePerRole ==
  ASSUME RowsInv, NEW a \in Admins, call[a] \in RolesCall, OnePerRole(rows),
         Replaces(a) => call[a].entry \in EntriesOf(call[a].role),
         call[a].op = "assign" /\ call[a].entry = NoEntry => EntriesOf(call[a].role) = {},
         NEW id
  PROVE  OnePerRole(Changed(a, id))
<1>1. CASE call[a].op = "revoke"
  BY <1>1 DEF Changed, OnePerRole
<1>2. CASE call[a].op = "assign" /\ call[a].entry = NoEntry
  <2>1. \A q \in rows : q.role # call[a].role
    BY <1>2 DEF EntriesOf
  <2> QED
    BY <1>2, <2>1, RowForIs DEF Changed, OnePerRole
<1>3. CASE call[a].op = "assign" /\ call[a].entry # NoEntry
  <2>1. PICK q \in rows : q.role = call[a].role /\ q.id = call[a].entry
    BY <1>3 DEF EntriesOf, Replaces
  <2>2. \A p \in rows : p.id # call[a].entry => p.role # call[a].role
    BY <2>1 DEF OnePerRole
  <2> QED
    BY <1>3, <2>2, RowForIs DEF Changed, OnePerRole
<1> QED
  BY <1>1, <1>2, <1>3 DEF RolesCall

\* Without governance rows there is nothing to say.
LEMMA NoRows == rows' = {} => InsertsInv'
BY DEF InsertsInv, OnePerRole, EntriesOf

\* A step that brings no new role.
LEMMA InsertsFrame ==
  ASSUME MCNext, InsertsInv,
         "inserts" \notin overlaps' => OnePerRole(rows'),
         \A r : EntriesOf(r) = {} => EntriesOf(r)' = {},
         \A b \in Admins : AssignsNew(b)' =>
           (AssignsNew(b) /\ call'[b].role = call[b].role) \/ EntriesOf(call'[b].role) = {},
         \A b \in Admins : At(b, "seeding")' /\ IsUser(call[b].sub)' =>
           At(b, "seeding") /\ IsUser(call[b].sub) /\ call'[b].role = call[b].role
  PROVE  InsertsInv'
<1> SUFFICES ASSUME "inserts" \notin overlaps' PROVE InsertsInv'
  BY DEF InsertsInv
<1>1. "inserts" \notin overlaps
  BY Recorded
<1>2. \A b \in Admins : AssignsNew(b)' => EntriesOf(call'[b].role) = {}
  BY <1>1 DEF InsertsInv
<1>3. \A b \in Admins : At(b, "seeding")' /\ IsUser(call[b].sub)' => EntriesOf(call'[b].role) = {}
  BY <1>1 DEF InsertsInv
<1>4. \A b \in Admins : EntriesOf(call'[b].role) = {} => EntriesOf(call[b].role)' = {}
  BY DEF EntriesOf
<1> QED
  BY <1>2, <1>3, <1>4 DEF InsertsInv

LEMMA SameRows == rows' = rows => \A r : EntriesOf(r) = {} => EntriesOf(r)' = {}
BY DEF EntriesOf

LEMMA NotAssigning ==
  ASSUME NEW a, At(a, "seeding") \/ Creates(a) \/ Deletes(a) \/ call[a] = Idle
  PROVE  ~AssignsNew(a)
BY DEF AssignsNew, At, Writing, Creates, Deletes

\* The only handler that inserts a row of the role adds it.
LEMMA InsertsAdds ==
  ASSUME MCNext, InsertsInv, NEW a \in Admins, Others(a), Inserts(a), call'[a] = Idle,
         "inserts" \notin overlaps' => OnePerRole(rows')
  PROVE  InsertsInv'
<1> SUFFICES ASSUME "inserts" \notin overlaps' PROVE InsertsInv'
  BY DEF InsertsInv
<1>1. \A b \in Admins : b # a => ~Inserts(b)
  BY Recorded DEF InsertsOverlap
<1>2. \A b \in Admins : ~Inserts(b)'
  <2>1. ~Inserts(a)'
    BY DEF Inserts, HandlesRoles
  <2> QED
    BY <1>1, <2>1, OthersStay
<1>3. \A b \in Admins : ~AssignsNew(b)' /\ ~At(b, "seeding")'
  BY <1>2 DEF AssignsNew, Inserts, HandlesRoles, At, Writing
<1> QED
  BY <1>3 DEF InsertsInv

LEMMA InsertsSeed ==
  ASSUME BaseInv, MCNext, InsertsInv, NEW a \in Admins, SeedRole(a)
  PROVE  InsertsInv'
<1> USE DEF BaseInv
<1>1. /\ At(a, "seeding") /\ Others(a) /\ call'[a] = Idle
      /\ IsUser(call[a].sub) => \E id \in FreshIds : rows' = rows \cup {RowFor(id, call[a].role, call[a].club)}
      /\ ~IsUser(call[a].sub) => rows' = rows
  BY SeedRoleDoes
<1>2. Inserts(a)
  BY <1>1 DEF Inserts, HandlesRoles, At
<1>3. ASSUME "inserts" \notin overlaps' PROVE OnePerRole(rows')
  <2>1. OnePerRole(rows) /\ (IsUser(call[a].sub) => EntriesOf(call[a].role) = {})
    BY <1>1, <1>3, Recorded DEF InsertsInv
  <2>2. CASE IsUser(call[a].sub)
    <3>1. \A q \in rows : q.role # call[a].role
      BY <2>1, <2>2 DEF EntriesOf
    <3> QED
      BY <1>1, <2>1, <2>2, <3>1, RowForIs DEF OnePerRole
  <2> QED
    BY <1>1, <2>1, <2>2
<1> QED
  BY <1>1, <1>2, <1>3, InsertsAdds

LEMMA InsertsCommit ==
  ASSUME BaseInv, MCNext, InsertsInv, NEW a \in Admins, CommitRoles(a)
  PROVE  InsertsInv'
<1> USE DEF BaseInv
<1>1. user # NoUser
  BY RowsCommit
<1>2. /\ Others(a) /\ At(a, "told") /\ call'[a] = Idle /\ UserKept
      /\ \E id \in FreshIds \cup {NoEntry} :
           /\ (id = NoEntry) = (call[a].op = "revoke" \/ call[a].entry # NoEntry)
           /\ rows' = Changed(a, id)
  BY <1>1, CommitRolesDoes
<1>3. call[a] \in RolesCall /\ (Replaces(a) => call[a].entry \in EntriesOf(call[a].role))
  BY <1>2, CallCases DEF RowsInv, Writing
<1>4. ASSUME "inserts" \notin overlaps' PROVE OnePerRole(rows')
  <2>1. OnePerRole(rows) /\ (AssignsNew(a) => EntriesOf(call[a].role) = {})
    BY <1>4, Recorded DEF InsertsInv
  <2>2. call[a].op = "assign" /\ call[a].entry = NoEntry => EntriesOf(call[a].role) = {}
    BY <1>2, <2>1 DEF AssignsNew, Writing
  <2> QED
    BY <1>2, <1>3, <2>1, <2>2, ChangedOnePerRole
<1>5. CASE call[a].op = "assign" /\ call[a].entry = NoEntry
  <2>1. Inserts(a)
    BY <1>2, <1>5 DEF Inserts, HandlesRoles, At
  <2> QED
    BY <1>2, <1>4, <2>1, InsertsAdds
<1>6. CASE call[a].op = "revoke" \/ call[a].entry # NoEntry
  <2>1. \A r : EntriesOf(r) = {} => EntriesOf(r)' = {}
    <3> SUFFICES ASSUME NEW r, EntriesOf(r) = {}, NEW q \in rows', q.role = r PROVE FALSE
      BY DEF EntriesOf
    <3>1. q \notin rows
      BY DEF EntriesOf
    <3>2. call[a].op # "revoke" /\ q = RowFor(call[a].entry, call[a].role, call[a].club)
      BY <1>2, <1>6, <3>1 DEF Changed
    <3>3. Replaces(a) /\ q.role = call[a].role
      BY <1>3, <1>6, <3>2, RowForIs DEF Replaces, RolesCall
    <3> QED
      BY <1>3, <3>3
  <2>2. ~AssignsNew(a)' /\ ~At(a, "seeding")'
    BY <1>2 DEF AssignsNew, At, Writing
  <2>3. \A b \in Admins : /\ AssignsNew(b)' => AssignsNew(b) /\ call'[b].role = call[b].role
                          /\ At(b, "seeding")' /\ IsUser(call[b].sub)' =>
                               At(b, "seeding") /\ IsUser(call[b].sub) /\ call'[b].role = call[b].role
    BY <1>2, <2>2, OthersStay DEF AssignsNew, UserKept, IsUser
  <2> QED
    BY <1>4, <2>1, <2>3, InsertsFrame
<1> QED
  BY <1>3, <1>5, <1>6 DEF RolesCall

\* A step that changes neither the rows nor whose users row it is.
LEMMA InsertsQuiet ==
  ASSUME TypeOK, MCNext, InsertsInv, UserKept, rows' = rows, NEW a \in Admins, Others(a),
         At(a, "seeding")' => At(a, "seeding") /\ call'[a].sub = call[a].sub /\ call'[a].role = call[a].role,
         AssignsNew(a)' =>
           (AssignsNew(a) /\ call'[a].role = call[a].role) \/ EntriesOf(call'[a].role) = {}
  PROVE  InsertsInv'
<1>1. \A b \in Admins : /\ AssignsNew(b)' => \/ AssignsNew(b) /\ call'[b].role = call[b].role
                                            \/ EntriesOf(call'[b].role) = {}
                        /\ At(b, "seeding")' /\ IsUser(call[b].sub)' =>
                             At(b, "seeding") /\ IsUser(call[b].sub) /\ call'[b].role = call[b].role
  BY OthersStay DEF AssignsNew, UserKept, IsUser
<1>2. "inserts" \notin overlaps' => OnePerRole(rows')
  BY Recorded DEF InsertsInv
<1> QED
  BY <1>1, <1>2, InsertsFrame, SameRows

LEMMA InsertsStay ==
  ASSUME TypeOK, MCNext, InsertsInv, UserKept, rows' = rows, call' = call
  PROVE  InsertsInv'
<1>1. \A b \in Admins : /\ AssignsNew(b)' => AssignsNew(b) /\ call'[b].role = call[b].role
                        /\ At(b, "seeding")' /\ IsUser(call[b].sub)' =>
                             At(b, "seeding") /\ IsUser(call[b].sub) /\ call'[b].role = call[b].role
  BY DEF AssignsNew, Writing, At, UserKept, IsUser
<1>2. "inserts" \notin overlaps' => OnePerRole(rows')
  BY Recorded DEF InsertsInv
<1> QED
  BY <1>1, <1>2, InsertsFrame, SameRows

LEMMA InsertsInit == MCInit => InsertsInv
BY DEF MCInit, Init, InsertsInv, OnePerRole, EntriesOf

LEMMA InsertsStep ==
  ASSUME LifeInv, InsertsInv, [MCNext]_<<vars, history>>
  PROVE  InsertsInv'
<1> USE DEF BaseInv, LifeInv
<1>1. CASE UNCHANGED <<vars, history>>
  BY <1>1 DEF vars, history, InsertsInv, AssignsNew, Writing, EntriesOf, At, IsUser
<1>2. CASE MCNext
  <2> USE <1>2
  <2>1. ASSUME NEW a \in Admins,
               \/ \E caller \in Callers : Create(a, caller)
               \/ BeginHardDelete(a) \/ CreateAccount(a) \/ CreateAccountFails(a) \/ CreateReplyLost(a)
               \/ RemoveAccount(a) \/ RemoveFails(a) \/ RemoveReplyLost(a) \/ HandlerDies(a)
        PROVE  InsertsInv'
    <3>1. /\ Others(a) /\ user' = user /\ rows' = rows
          /\ (Creates(a) \/ Deletes(a) \/ call[a] = Idle)'
      BY <2>1, BeginCreateDoes, BeginHardDeleteDoes, CreateAccountDoes, CreateEndsDoes,
         RemoveAccountDoes, RemoveEndsDoes, HandlerDiesDoes DEF Create, Creates, Deletes
    <3>2. ~AssignsNew(a)' /\ ~At(a, "seeding")'
      BY <3>1 DEF AssignsNew, At, Writing, Creates, Deletes
    <3> QED
      BY <3>1, <3>2, InsertsQuiet, KeptByEquality
  <2>2. ASSUME NEW a \in Admins, \E caller \in Callers : Manage(a, caller) PROVE InsertsInv'
    <3>1. /\ Others(a) /\ user' = user /\ rows' = rows /\ At(a, "loaded")'
          /\ call'[a].op = "assign" /\ call'[a].entry = NoEntry => EntriesOf(call'[a].role) = {}
      BY <2>2, BeginRolesDoes DEF Manage
    <3>2. ~At(a, "seeding")' /\ (AssignsNew(a)' => EntriesOf(call'[a].role) = {})
      BY <3>1 DEF AssignsNew, At
    <3> QED
      BY <3>1, <3>2, InsertsQuiet, KeptByEquality
  <2>3. ASSUME NEW a \in Admins, Flush(a) \/ Tell(a) \/ TellFails(a) PROVE InsertsInv'
    <3>1. /\ Others(a) /\ user' = user /\ rows' = rows /\ (At(a, "loaded") \/ At(a, "flushed"))
          /\ call'[a] = Idle \/ (Writing(a)' /\ SameChange(a))
      BY <2>3, FlushDoes, TellDoes DEF Writing
    <3>2. ~At(a, "seeding")' /\ (AssignsNew(a)' => AssignsNew(a) /\ call'[a].role = call[a].role)
      BY <3>1 DEF AssignsNew, At, Writing, SameChange
    <3> QED
      BY <3>1, <3>2, InsertsQuiet, KeptByEquality
  <2>4. ASSUME NEW a \in Admins, CommitUser(a) PROVE InsertsInv'
    <3>1. rows' = rows /\ Others(a)
      BY <2>4, CommitUserDoes
    <3>2. CASE user = NoUser
      BY <3>1, <3>2, NoRows DEF RowsInv
    <3>3. CASE user # NoUser
      <4>1. user' = user /\ call'[a] = Idle
        BY <2>4, <3>3, CommitUserDoes
      <4>2. ~AssignsNew(a)' /\ ~At(a, "seeding")'
        BY <4>1 DEF AssignsNew, At, Writing
      <4> QED
        BY <3>1, <4>1, <4>2, InsertsQuiet, KeptByEquality
    <3> QED
      BY <3>2, <3>3
  <2>5. ASSUME NEW a \in Admins, CommitHardDelete(a) PROVE InsertsInv'
    <3>1. rows' = {}
      BY <2>5, CommitHardDeleteDoes, DeletionCommits
    <3> QED
      BY <3>1, NoRows
  <2>6. ASSUME \/ (\E caller \in Callers : SoftDelete(caller)) \/ Restore \/ ListUsers
               \/ \E d \in Devices : Login(d) \/ Expire(d) \/ Request(d)
        PROVE  InsertsInv'
    <3>1. rows' = rows /\ call' = call /\ (user # NoUser => UserKept)
      <4>1. CASE (\E caller \in Callers : SoftDelete(caller)) \/ Restore \/ ListUsers
        BY <4>1, UserStepDoes
      <4>2. CASE \E d \in Devices : Login(d) \/ Expire(d)
        BY <4>2, TokenStepDoes, KeptByEquality
      <4>3. CASE \E d \in Devices : Request(d)
        BY <4>3, RequestDoes
      <4> QED
        BY <2>6, <4>1, <4>2, <4>3
    <3>2. CASE user = NoUser
      BY <3>1, <3>2, NoRows DEF RowsInv
    <3> QED
      BY <3>1, <3>2, InsertsStay
  <2> QED
    BY <2>1, <2>2, <2>3, <2>4, <2>5, <2>6, InsertsSeed, InsertsCommit
       DEF MCNext, Next, Starts, Continues, Fails
<1> QED
  BY <1>1, <1>2

\* A user never holds a governance role twice, though no constraint of the database says so: of
\* the handlers that look for a row before they insert one (assign_governance_role and
\* create_user), whatever else runs beside them, the first that is alone finds what was there.
THEOREM RolesHeldOnce == MCSpec => []OneRowPerRole
<1>1. InsertsInv => OneRowPerRole
  BY DEF InsertsInv, OnePerRole, OneRowPerRole
<1>2. MCInit => LifeInv /\ InsertsInv
  BY BaseInit, DeletionInit, InsertsInit DEF LifeInv
<1>3. LifeInv /\ InsertsInv /\ [MCNext]_<<vars, history>> => (LifeInv /\ InsertsInv)'
  BY BaseStep, DeletionStep, InsertsStep DEF LifeInv
<1> QED
  BY <1>1, <1>2, <1>3, PTL DEF MCSpec

-----------------------------------------------------------------------------
(* An account has its user *)

Removed(s) == \E a \in Admins : At(a, "removed") /\ call[a].sub = s
Known(s) == IsAccount(s) \/ s \in buried \/ Removed(s)

\* Users and tokens are of the account that there is, or of one that was or is being deleted;
\* an account without a user is being created.
HasUserInv ==
  faults = 0 /\ "created" \notin overlaps =>
    /\ user # NoUser => Known(user.sub)
    /\ \A d \in Devices : token[d] # NoToken => Known(token[d].sub)
    /\ \A a \in Admins : At(a, "created") => IsAccount(call[a].sub)
    /\ account # NoAccount =>
         \/ \E a \in Admins : At(a, "created") /\ call[a].sub = account.sub
         \/ user # NoUser /\ user.sub \in {account.sub} \cup buried

AccountStays == /\ account' = NoAccount <=> account = NoAccount
                /\ account # NoAccount => account'.sub = account.sub

\* Creations and deletions that are under way neither go on nor end.
CallsStay == \A b \in Admins :
  /\ At(b, "created")' <=> At(b, "created")
  /\ At(b, "removed")' <=> At(b, "removed")
  /\ At(b, "created") \/ At(b, "removed") => call'[b].sub = call[b].sub

LEMMA HasUserFrame ==
  ASSUME MCNext, HasUserInv, AccountStays, UserKept, CallsStay, faults' = 0 => faults = 0,
         \A d \in Devices : token'[d] # NoToken =>
           \/ token[d] # NoToken /\ token'[d] = token[d]
           \/ account # NoAccount /\ token'[d] = account
  PROVE  HasUserInv'
<1> SUFFICES ASSUME faults' = 0, "created" \notin overlaps' PROVE HasUserInv'
  BY DEF HasUserInv
<1>1. faults = 0 /\ "created" \notin overlaps /\ buried' = buried
  BY Recorded DEF UserKept
<1>2. \A s : IsAccount(s)' <=> IsAccount(s)
  BY DEF IsAccount, AccountStays
<1>3. \A s : Removed(s)' <=> Removed(s)
  BY DEF Removed, CallsStay
<1>5. user' # NoUser => Known(user.sub)'
  BY <1>1, <1>2, <1>3, SMTT(30) DEF HasUserInv, UserKept, Known, IsAccount, Removed
<1>6. ASSUME NEW d \in Devices, token'[d] # NoToken PROVE Known(token[d].sub)'
  <2>1. CASE token[d] # NoToken /\ token'[d] = token[d]
    BY <1>1, <1>2, <1>3, <2>1 DEF HasUserInv, Known, IsAccount, Removed
  <2>2. CASE account # NoAccount /\ token'[d] = account
    BY <2>2 DEF Known, IsAccount, AccountStays
  <2> QED
    BY <1>6, <2>1, <2>2
<1>7. ASSUME NEW a \in Admins, At(a, "created")' PROVE IsAccount(call[a].sub)'
  BY <1>1, <1>2, <1>7 DEF HasUserInv, CallsStay, IsAccount
<1>8. account' # NoAccount =>
        \/ \E a \in Admins : At(a, "created")' /\ call'[a].sub = account'.sub
        \/ user' # NoUser /\ user'.sub \in {account'.sub} \cup buried'
  BY <1>1 DEF HasUserInv, CallsStay, AccountStays, UserKept
<1> QED
  BY <1>5, <1>6, <1>7, <1>8 DEF HasUserInv

\* The account is made by the only handler that creates it; the user is still missing.
LEMMA HasUserCreates ==
  ASSUME TypeOK, MCNext, HasUserInv, NEW a \in Admins, CreateAccount(a)
  PROVE  HasUserInv'
<1> SUFFICES ASSUME faults' = 0, "created" \notin overlaps' PROVE HasUserInv'
  BY DEF HasUserInv
<1>1. /\ Others(a) /\ At(a, "creating") /\ At(a, "created")' /\ call'[a].sub = subs' /\ Created(a)
      /\ user' = user /\ token' = token /\ faults' = faults
  BY CreateAccountDoes
<1>2. account = NoAccount /\ account' # NoAccount /\ account'.sub = subs'
  BY <1>1, CreatedDoes
<1>3. faults = 0 /\ "created" \notin overlaps /\ buried' = buried
  BY <1>1, Recorded
<1>4. \A s : ~IsAccount(s)
  BY <1>2 DEF IsAccount
<1>5. \A b \in Admins : At(b, "removed") => At(b, "removed")' /\ call'[b].sub = call[b].sub
  BY <1>1, OthersStay DEF At
<1>6. user' # NoUser => Known(user.sub)'
  BY <1>1, <1>3, <1>4, <1>5 DEF HasUserInv, Known, Removed
<1>7. \A d \in Devices : token'[d] # NoToken => Known(token[d].sub)'
  BY <1>1, <1>3, <1>4, <1>5 DEF HasUserInv, Known, Removed
<1>8. \A b \in Admins : At(b, "created")' => IsAccount(call[b].sub)'
  <2>1. \A b \in Admins : At(b, "created")' => b = a
    BY <1>1, <1>3, <1>4, OthersStay DEF HasUserInv
  <2> QED
    BY <1>1, <1>2, <2>1 DEF IsAccount
<1>9. \E b \in Admins : At(b, "created")' /\ call'[b].sub = account'.sub
  BY <1>1, <1>2
<1> QED
  BY <1>6, <1>7, <1>8, <1>9 DEF HasUserInv

\* The users row is inserted, or there is one by now: of the account, or of a token.
LEMMA HasUserCommits ==
  ASSUME TypeOK, MCNext, HasUserInv, NEW a \in Admins, CommitUser(a)
  PROVE  HasUserInv'
<1> SUFFICES ASSUME faults' = 0, "created" \notin overlaps' PROVE HasUserInv'
  BY DEF HasUserInv
<1>1. /\ Others(a) /\ At(a, "created") /\ ~At(a, "created")' /\ ~At(a, "removed")'
      /\ CognitoKept /\ token' = token /\ faults' = faults
      /\ user # NoUser => user' = user
      /\ user = NoUser => user' # NoUser /\ user'.sub = call[a].sub
  BY CommitUserDoes DEF At
<1>2. faults = 0 /\ "created" \notin overlaps /\ buried' = buried
  BY <1>1, Recorded
<1>3. \A b \in Admins : ~At(b, "removed")
  BY <1>1, Recorded DEF CreatedWhileDeleted, Creates, Deletes
<1>4. \A b \in Admins : At(b, "created")' => At(b, "created") /\ call'[b].sub = call[b].sub
  BY <1>1, OthersStay
<1>5. IsAccount(call[a].sub)
  BY <1>1, <1>2 DEF HasUserInv
<1>6. \A s : (IsAccount(s)' <=> IsAccount(s)) /\ ~Removed(s)
  BY <1>1, <1>3 DEF IsAccount, CognitoKept, Removed
<1>7. \A d \in Devices : token'[d] # NoToken => Known(token[d].sub)'
  BY <1>1, <1>2, <1>6 DEF HasUserInv, Known, IsAccount
<1>8. \A b \in Admins : At(b, "created")' => IsAccount(call[b].sub)'
  BY <1>2, <1>4, <1>6 DEF HasUserInv, IsAccount
<1>9. user' # NoUser /\ user'.sub \in {account.sub} \cup buried
  <2>1. CASE user = NoUser
    BY <1>1, <1>5, <2>1 DEF IsAccount
  <2>2. CASE user # NoUser
    BY <1>1, <1>2, <1>6, <2>2 DEF HasUserInv, Known, IsAccount
  <2> QED
    BY <2>1, <2>2
<1>10. Known(user.sub)'
  BY <1>1, <1>2, <1>5, <1>9 DEF Known, IsAccount, CognitoKept
<1> QED
  BY <1>1, <1>2, <1>7, <1>8, <1>9, <1>10 DEF HasUserInv, CognitoKept

LEMMA HasUserRemoves ==
  ASSUME TypeOK, MCNext, HasUserInv, NEW a \in Admins, RemoveAccount(a)
  PROVE  HasUserInv'
<1> SUFFICES ASSUME faults' = 0, "created" \notin overlaps' PROVE HasUserInv'
  BY DEF HasUserInv
<1>1. /\ Others(a) /\ At(a, "deleting") /\ At(a, "removed")' /\ call'[a].sub = call[a].sub
      /\ IsAccount(call[a].sub) /\ account' = NoAccount
      /\ user' = user /\ token' = token /\ faults' = faults
  BY RemoveAccountDoes
<1>2. faults = 0 /\ "created" \notin overlaps /\ buried' = buried
  BY <1>1, Recorded
<1>3. \A b \in Admins : ~At(b, "created")
  BY <1>1, Recorded DEF CreatedWhileDeleted, Creates, Deletes
<1>4. \A b \in Admins : ~At(b, "created")'
  BY <1>1, <1>3, OthersStay DEF At
<1>5. \A b \in Admins : At(b, "removed") => At(b, "removed")' /\ call'[b].sub = call[b].sub
  BY <1>1, OthersStay DEF At
<1>6. user' # NoUser => Known(user.sub)'
  BY <1>1, <1>2, <1>5 DEF HasUserInv, Known, Removed, IsAccount
<1>7. \A d \in Devices : token'[d] # NoToken => Known(token[d].sub)'
  BY <1>1, <1>2, <1>5 DEF HasUserInv, Known, Removed, IsAccount
<1> QED
  BY <1>1, <1>4, <1>6, <1>7 DEF HasUserInv

LEMMA HasUserBuries ==
  ASSUME TypeOK, MCNext, SubsInv, DeletionInv, HasUserInv, NEW a \in Admins, CommitHardDelete(a)
  PROVE  HasUserInv'
<1> SUFFICES ASSUME faults' = 0, "created" \notin overlaps' PROVE HasUserInv'
  BY DEF HasUserInv
<1>1. /\ Others(a) /\ At(a, "removed") /\ call'[a] = Idle /\ CognitoKept /\ token' = token /\ faults' = faults
      /\ user' = NoUser /\ user # NoUser /\ user.sub = call[a].sub
  BY CommitHardDeleteDoes, DeletionCommits DEF IsUser
<1>2. faults = 0 /\ "created" \notin overlaps /\ buried' = buried \cup {call[a].sub}
  BY <1>1, Recorded
<1>3. \A b \in Admins : ~At(b, "created")
  BY <1>1, Recorded DEF CreatedWhileDeleted, Creates, Deletes
<1>4. \A b \in Admins : ~At(b, "created")'
  BY <1>1, <1>3, OthersStay DEF At
<1>5. account = NoAccount
  BY <1>1, <1>2, <1>3 DEF HasUserInv, DeletionInv, IsAccount
<1>6. \A s : Known(s) => s \in buried'
  BY <1>1, <1>2, <1>5 DEF Known, IsAccount, Removed, DeletionInv
<1>7. \A d \in Devices : token'[d] # NoToken => Known(token[d].sub)'
  BY <1>1, <1>2, <1>6 DEF HasUserInv, Known
<1> QED
  BY <1>1, <1>4, <1>5, <1>7 DEF HasUserInv, CognitoKept

\* The first request after a creation, or with a token of a user who was deleted.
LEMMA HasUserRequests ==
  ASSUME TypeOK, MCNext, HasUserInv, user = NoUser, NEW d \in Devices, Request(d)
  PROVE  HasUserInv'
<1> SUFFICES ASSUME faults' = 0, "created" \notin overlaps' PROVE HasUserInv'
  BY DEF HasUserInv
<1>1. /\ token[d] # NoToken /\ user' # NoUser /\ user'.sub = token[d].sub
      /\ CognitoKept /\ token' = token /\ call' = call /\ faults' = faults
  BY RequestDoes
<1>2. faults = 0 /\ "created" \notin overlaps /\ buried' = buried
  BY <1>1, Recorded
<1>3. \A s : (IsAccount(s)' <=> IsAccount(s)) /\ (Removed(s)' <=> Removed(s))
  BY <1>1 DEF IsAccount, CognitoKept, Removed, At
<1>4. Known(user.sub)' /\ \A e \in Devices : token'[e] # NoToken => Known(token[e].sub)'
  BY <1>1, <1>2, <1>3 DEF HasUserInv, Known, IsAccount, Removed
<1>5. \A b \in Admins : At(b, "created")' => IsAccount(call[b].sub)'
  BY <1>1, <1>2, <1>3 DEF HasUserInv, IsAccount, At
<1>6. account' # NoAccount => \E b \in Admins : At(b, "created")' /\ call'[b].sub = account'.sub
  BY <1>1, <1>2 DEF HasUserInv, CognitoKept, At
<1> QED
  BY <1>4, <1>5, <1>6 DEF HasUserInv

LEMMA HasUserInit == MCInit => HasUserInv
BY DEF MCInit, Init, HasUserInv, At

LEMMA HasUserStep ==
  ASSUME LifeInv, HasUserInv, [MCNext]_<<vars, history>>
  PROVE  HasUserInv'
<1> USE DEF BaseInv, LifeInv
<1>1. CASE UNCHANGED <<vars, history>>
  BY <1>1 DEF vars, history, HasUserInv, Known, IsAccount, Removed, At
<1>2. CASE MCNext
  <2> USE <1>2
  <2>1. ASSUME faults' = faults \/ Fault, faults' = 0 PROVE faults = 0 /\ ~Fault
    BY <2>1 DEF Fault, TypeOK
  <2>2. ASSUME faults' # 0 PROVE HasUserInv'
    BY <2>2 DEF HasUserInv
  <2>3. ASSUME NEW a \in Admins, Others(a),
               ~At(a, "created") /\ ~At(a, "created")' /\ ~At(a, "removed") /\ ~At(a, "removed")'
        PROVE  CallsStay
    BY <2>3, OthersStay DEF CallsStay
  <2>4. ASSUME NEW a \in Admins,
               \/ \E caller \in Callers : Create(a, caller) \/ Manage(a, caller)
               \/ BeginHardDelete(a) \/ CreateAccountFails(a) \/ CreateReplyLost(a)
               \/ SeedRole(a) \/ Flush(a) \/ Tell(a) \/ TellFails(a) \/ CommitRoles(a)
               \/ RemoveFails(a) \/ RemoveReplyLost(a)
        PROVE  HasUserInv'
    <3> SUFFICES ASSUME faults' = 0 PROVE HasUserInv'
      BY <2>2
    <3>1. /\ Others(a) /\ token' = token /\ faults = 0 /\ AccountStays /\ UserKept
          /\ ~At(a, "created") /\ ~At(a, "created")' /\ ~At(a, "removed") /\ ~At(a, "removed")'
      <4>1. CASE \E caller \in Callers : Create(a, caller)
        BY <4>1, BeginCreateDoes, KeptByEquality DEF Create, At, CognitoKept, AccountStays
      <4>2. CASE \E caller \in Callers : Manage(a, caller)
        BY <4>2, BeginRolesDoes, KeptByEquality DEF Manage, At, CognitoKept, AccountStays
      <4>3. CASE BeginHardDelete(a)
        BY <4>3, BeginHardDeleteDoes, KeptByEquality DEF At, CognitoKept, AccountStays
      <4>4. CASE CreateAccountFails(a) \/ CreateReplyLost(a)
        BY <2>1, <4>4, CreateEndsDoes, KeptByEquality DEF At, CognitoKept, AccountStays
      <4>5. CASE SeedRole(a)
        BY <4>5, SeedRoleDoes DEF SeedsGovernance, At, CognitoKept, AccountStays
      <4>6. CASE Flush(a)
        BY <4>6, FlushDoes, KeptByEquality DEF At, CognitoKept, AccountStays
      <4>7. CASE Tell(a) \/ TellFails(a)
        BY <2>1, <4>7, TellDoes, KeptByEquality DEF At, AccountStays
      <4>8. CASE CommitRoles(a)
        BY <4>8, RowsCommit, CommitRolesDoes DEF At, CognitoKept, AccountStays
      <4>9. CASE RemoveFails(a) \/ RemoveReplyLost(a)
        BY <2>1, <4>9, RemoveEndsDoes, KeptByEquality DEF At, CognitoKept, AccountStays
      <4> QED
        BY <2>4, <4>1, <4>2, <4>3, <4>4, <4>5, <4>6, <4>7, <4>8, <4>9
    <3> QED
      BY <2>3, <3>1, HasUserFrame
  <2>5. ASSUME NEW a \in Admins, HandlerDies(a) PROVE HasUserInv'
    <3>1. Fault
      BY <2>5, HandlerDiesDoes
    <3> QED
      BY <2>1, <2>2, <3>1
  <2>6. ASSUME \/ (\E caller \in Callers : SoftDelete(caller)) \/ Restore \/ ListUsers
               \/ \E d \in Devices : Login(d) \/ Expire(d)
        PROVE  HasUserInv'
    <3>1. /\ CognitoKept /\ UserKept /\ call' = call /\ faults' = faults
          /\ \A e \in Devices : token'[e] # NoToken =>
               token'[e] = token[e] \/ (account # NoAccount /\ token'[e] = account)
      <4>1. CASE (\E caller \in Callers : SoftDelete(caller)) \/ Restore \/ ListUsers
        BY <4>1, UserStepDoes
      <4>2. CASE \E d \in Devices : Login(d) \/ Expire(d)
        BY <4>2, TokenStepDoes, KeptByEquality
      <4> QED
        BY <2>6, <4>1, <4>2
    <3>2. CallsStay /\ AccountStays
      BY <3>1 DEF CallsStay, At, CognitoKept, AccountStays
    <3> QED
      BY <3>1, <3>2, HasUserFrame
  <2>7. ASSUME NEW d \in Devices, Request(d) PROVE HasUserInv'
    <3>1. CASE user = NoUser
      BY <2>7, <3>1, HasUserRequests
    <3>2. CASE user # NoUser
      <4>1. CognitoKept /\ UserKept /\ call' = call /\ token' = token /\ faults' = faults
        BY <2>7, <3>2, RequestDoes
      <4>2. CallsStay /\ AccountStays
        BY <4>1 DEF CallsStay, At, CognitoKept, AccountStays
      <4> QED
        BY <4>1, <4>2, HasUserFrame
    <3> QED
      BY <3>1, <3>2
  <2> QED
    BY <2>4, <2>5, <2>6, <2>7, HasUserCreates, HasUserCommits, HasUserRemoves, HasUserBuries
       DEF MCNext, Next, Starts, Continues, Fails
<1> QED
  BY <1>1, <1>2

\* No account without its user, however many accounts come and go: create_user makes the account
\* in Cognito before it commits the row, hard_delete_user deletes it before it commits, and it is
\* neither an overlap of two creations nor one of two deletions that loses the row, only one of
\* a deletion and the next creation.
THEOREM AccountsAreUsers == MCSpec => []AccountHasUser
<1>1. HasUserInv => AccountHasUser
  BY DEF HasUserInv, AccountHasUser, Settled, NobodyActs, At
<1>2. MCInit => LifeInv /\ HasUserInv
  BY BaseInit, DeletionInit, HasUserInit DEF LifeInv
<1>3. LifeInv /\ HasUserInv /\ [MCNext]_<<vars, history>> => (LifeInv /\ HasUserInv)'
  BY BaseStep, DeletionStep, HasUserStep DEF LifeInv
<1> QED
  BY <1>1, <1>2, <1>3, PTL DEF MCSpec

-----------------------------------------------------------------------------
(* Cognito and the governance rows *)

\* A role and a club are those of governance rows.
Follows(place, rs) ==
  /\ place.role \in Governance <=> rs # {}
  /\ \A r \in rs : r.role = "league_admin" => place.role # "club_admin"
  /\ \A r \in rs : r.role = "club_admin" => place.club = r.club

\* A handler that creates finds no user, and a user of its own once it has made one; one that
\* changes roles has computed what follows from the rows as they will be, whichever id the new
\* one gets, and has told Cognito so.
AgreementOf(a) ==
  /\ Creates(a) => user = NoUser
  /\ At(a, "created") => IsAccount(call[a].sub)
  /\ At(a, "created") \/ At(a, "seeding") =>
       /\ user = NoUser \/ IsUser(call[a].sub)
       /\ rows = {}
       /\ IsAccount(call[a].sub) => account.role = call[a].role /\ account.club = call[a].club
  /\ Writing(a) => \A id \in RowIds \cup {NoEntry} : Follows(call[a].new, Changed(a, id))
  /\ At(a, "told") /\ IsAccount(call[a].sub) =>
       account.role = call[a].new.role /\ account.club = call[a].new.club

Agreement ==
  /\ \A a \in Admins : AgreementOf(a)
  /\ account # NoAccount => IF user # NoUser THEN user.sub = account.sub
                            ELSE \E a \in Admins : At(a, "created") /\ call[a].sub = account.sub
  /\ account # NoAccount /\ user # NoUser =>
       \/ \E a \in Admins : At(a, "seeding") \/ At(a, "told")
       \/ Follows(account, rows)

FollowsInv == faults = 0 /\ "roles" \notin overlaps => "inserts" \notin overlaps /\ Agreement

LEMMA ComputedFollows ==
  ASSUME TypeOK, user # NoUser, NEW a \in Admins, call[a] \in RolesCall,
         OnePerRole(Changed(a, NoEntry)), NEW place,
         place.role = RoleOf(a, Changed(a, NoEntry)), place.club \in ClubsOf(a, Changed(a, NoEntry)),
         NEW id
  PROVE  Follows(place, Changed(a, id))
<1> DEFINE rs == Changed(a, NoEntry)
<1>1. \A r \in Changed(a, id) : \E q \in rs : q.role = r.role /\ q.club = r.club
  <2>1. /\ RowFor(id, call[a].role, call[a].club).role = RowFor(NoEntry, call[a].role, call[a].club).role
        /\ RowFor(id, call[a].role, call[a].club).club = RowFor(NoEntry, call[a].role, call[a].club).club
    BY DEF RowFor
  <2>2. \A r \in Changed(a, id) : r \in rs \/ (/\ r = RowFor(id, call[a].role, call[a].club)
                                            /\ RowFor(NoEntry, call[a].role, call[a].club) \in rs)
    BY DEF Changed
  <2> QED
    BY <2>1, <2>2
<1>2. rs # {} <=> Changed(a, id) # {}
  BY DEF Changed
<1>3. rs \subseteq AnyRow /\ OnePerRole(rs)
  BY ChangedType
<1>4. place.role = RoleOf(a, rs) /\ place.club \in ClubsOf(a, rs)
  OBVIOUS
<1> HIDE DEF rs
<1>5. \A r \in rs : r.role = "league_admin" => place.role # "club_admin"
  BY <1>4, RoleOfType
<1>6. \A r \in rs : r.role = "club_admin" => place.club = r.club
  BY <1>3, <1>4, ClubsOfType DEF OnePerRole
<1>7. place.role \in Governance <=> rs # {}
  BY <1>4, RoleOfType
<1> QED
  BY <1>1, <1>2, <1>5, <1>6, <1>7 DEF Follows

\* What a handler does alone disturbs no other.
LEMMA Alone ==
  ASSUME MCNext, "roles" \notin overlaps', NEW a \in Admins, HandlesRoles(a), Others(a),
         NEW b \in Admins, b # a
  PROVE  /\ ~At(b, "created") /\ ~At(b, "seeding") /\ ~At(b, "told")
         /\ AgreementOf(b)'
<1>1. ~HandlesRoles(b) /\ ~HandlesRoles(b)'
  BY Recorded, OthersStay DEF RolesOverlap
<1> QED
  BY <1>1 DEF HandlesRoles, At, AgreementOf, Creates, Writing

\* Neither before nor after the step has the handler done one half of its work.
Outside(a) ==
  /\ ~At(a, "created") /\ ~At(a, "seeding") /\ ~At(a, "told")
  /\ ~At(a, "created")' /\ ~At(a, "seeding")' /\ ~At(a, "told")'
  /\ Creates(a)' => user = NoUser
  /\ Writing(a)' => \A id \in RowIds \cup {NoEntry} : Follows(call[a].new, Changed(a, id))'

LEMMA AgreementFrame ==
  ASSUME Agreement, CognitoKept, UserKept, rows' = rows,
         \A b \in Admins : call'[b] = call[b] \/ Outside(b)
  PROVE  Agreement'
<1>1. \A s : (IsUser(s)' <=> IsUser(s)) /\ (IsAccount(s)' <=> IsAccount(s))
  BY DEF IsUser, IsAccount, UserKept, CognitoKept
<1>2. ASSUME NEW b \in Admins PROVE AgreementOf(b)'
  <2>1. CASE call'[b] = call[b]
    <3>1. \A id : Changed(b, id)' = Changed(b, id)
      BY <2>1 DEF Changed
    <3>2. \A l : At(b, l)' <=> At(b, l)
      BY <2>1 DEF At
    <3>3. AgreementOf(b)
      BY DEF Agreement
    <3>4. Writing(b)' => \A id \in RowIds \cup {NoEntry} : Follows(call[b].new, Changed(b, id))'
      BY <2>1, <3>1, <3>2, <3>3 DEF AgreementOf, Writing, Follows
    <3> QED
      BY <1>1, <2>1, <3>2, <3>3, <3>4 DEF AgreementOf, Creates, UserKept, CognitoKept, IsUser, IsAccount
  <2>2. CASE Outside(b)
    BY <2>2 DEF Outside, AgreementOf, UserKept, At, Writing
  <2> QED
    BY <2>1, <2>2
<1>3. \A b \in Admins :
        /\ At(b, "created") => At(b, "created")' /\ call'[b].sub = call[b].sub
        /\ At(b, "seeding") \/ At(b, "told") => At(b, "seeding")' \/ At(b, "told")'
  BY DEF Outside, At
<1>4. account' # NoAccount => IF user' # NoUser THEN user'.sub = account'.sub
                              ELSE \E b \in Admins : At(b, "created")' /\ call'[b].sub = account'.sub
  BY <1>3 DEF Agreement, CognitoKept, UserKept
<1>5. account' # NoAccount /\ user' # NoUser =>
        \/ \E b \in Admins : At(b, "seeding")' \/ At(b, "told")'
        \/ Follows(account, rows)'
  BY <1>3 DEF Agreement, CognitoKept, UserKept, Follows
<1> QED
  BY <1>2, <1>4, <1>5 DEF Agreement

\* The account of a handler that creates: nobody else has one, and there is no user yet.
LEMMA AgreementCreates ==
  ASSUME BaseInv, MCNext, Agreement, "roles" \notin overlaps', NEW a \in Admins, CreateAccount(a)
  PROVE  Agreement'
<1> USE DEF BaseInv
<1>1. /\ Others(a) /\ At(a, "creating") /\ At(a, "created")' /\ call'[a].sub = subs'
      /\ call'[a].role = call[a].role /\ call'[a].club = call[a].club
      /\ Created(a) /\ user' = user /\ rows' = rows
  BY CreateAccountDoes
<1>2. /\ account' # NoAccount /\ account'.sub = subs'
      /\ account'.role = call[a].role /\ account'.club = call[a].club
  BY <1>1, CreatedDoes
<1>3. user = NoUser /\ rows = {} /\ HandlesRoles(a)
  BY <1>1 DEF Agreement, AgreementOf, Creates, RowsInv, HandlesRoles, At
<1>4. AgreementOf(a)'
  BY <1>1, <1>2, <1>3 DEF AgreementOf, IsAccount, At, Writing
<1> QED
  BY <1>1, <1>2, <1>3, <1>4, Alone DEF Agreement

\* The users row of the new account.
LEMMA AgreementCommits ==
  ASSUME BaseInv, MCNext, Agreement, "roles" \notin overlaps', NEW a \in Admins, CommitUser(a)
  PROVE  Agreement'
<1> USE DEF BaseInv
<1>1. At(a, "created") /\ Others(a) /\ CognitoKept /\ rows' = rows
  BY CommitUserDoes
<1>2. /\ user = NoUser /\ rows = {} /\ HandlesRoles(a) /\ IsAccount(call[a].sub)
      /\ account.role = call[a].role /\ account.club = call[a].club
  BY <1>1 DEF Agreement, AgreementOf, Creates, HandlesRoles, At
<1>3. /\ user' # NoUser /\ user'.sub = call[a].sub
      /\ call[a].role \in Governance =>
           /\ At(a, "seeding")' /\ call'[a].sub = call[a].sub
           /\ call'[a].role = call[a].role /\ call'[a].club = call[a].club
      /\ call[a].role \notin Governance => call'[a] = Idle
  BY <1>2, CommitUserDoes
<1>4. user'.sub = account'.sub
  BY <1>1, <1>2, <1>3 DEF IsAccount, CognitoKept
<1>5. CASE call[a].role \in Governance
  <2>1. AgreementOf(a)'
    BY <1>1, <1>2, <1>3, <1>5 DEF AgreementOf, IsUser, CognitoKept, At, Writing, Creates
  <2> QED
    BY <1>1, <1>3, <1>4, <1>5, <1>2, <2>1, Alone DEF Agreement
<1>6. CASE call[a].role \notin Governance
  <2>1. AgreementOf(a)'
    BY <1>3, <1>6 DEF AgreementOf, At, Writing, Creates
  <2>2. Follows(account, rows)'
    BY <1>1, <1>2, <1>6 DEF Follows, CognitoKept
  <2> QED
    BY <1>1, <1>3, <1>4, <1>2, <2>1, <2>2, Alone DEF Agreement
<1> QED
  BY <1>5, <1>6

\* The first governance row is the one that the account was made with.
LEMMA AgreementSeeds ==
  ASSUME BaseInv, MCNext, Agreement, "roles" \notin overlaps', NEW a \in Admins, SeedRole(a)
  PROVE  Agreement'
<1> USE DEF BaseInv
<1>1. /\ At(a, "seeding") /\ Others(a) /\ call'[a] = Idle /\ CognitoKept /\ UserKept
      /\ IsUser(call[a].sub) => \E id \in FreshIds : rows' = rows \cup {RowFor(id, call[a].role, call[a].club)}
      /\ ~IsUser(call[a].sub) => rows' = rows
  BY SeedRoleDoes DEF SeedsGovernance
<1>2. /\ HandlesRoles(a) /\ (user = NoUser \/ IsUser(call[a].sub)) /\ rows = {}
      /\ IsAccount(call[a].sub) => account.role = call[a].role /\ account.club = call[a].club
  BY <1>1 DEF Agreement, AgreementOf, HandlesRoles, At
<1>3. AgreementOf(a)'
  BY <1>1 DEF AgreementOf, At, Writing, Creates
<1>4. \A b \in Admins : ~At(b, "created")
  BY <1>1, <1>2, Alone DEF At
<1>5. CASE account = NoAccount
  BY <1>1, <1>2, <1>3, <1>5, Alone DEF Agreement, CognitoKept
<1>6. CASE account # NoAccount
  <2>1. user # NoUser /\ user.sub = account.sub /\ user' # NoUser /\ user'.sub = account'.sub
    BY <1>1, <1>4, <1>6 DEF Agreement, UserKept, CognitoKept
  <2>2. IsUser(call[a].sub) /\ IsAccount(call[a].sub) /\ call[a].role \in Governance
    BY <1>1, <1>2, <1>6, <2>1 DEF IsUser, IsAccount, SeedsGovernance
  <2>3. PICK id \in FreshIds : rows' = {RowFor(id, call[a].role, call[a].club)}
    BY <1>1, <1>2, <2>2
  <2>4. Follows(account', rows')
    BY <1>1, <1>2, <2>2, <2>3 DEF Follows, RowFor, CognitoKept
  <2> QED
    BY <1>1, <1>2, <1>3, <2>1, <2>4, Alone DEF Agreement
<1> QED
  BY <1>5, <1>6

\* The role and the club are computed from the rows as they will be.
LEMMA AgreementFlushes ==
  ASSUME BaseInv, MCNext, InsertsInv, "inserts" \notin overlaps, Agreement, NEW a \in Admins, Flush(a)
  PROVE  Agreement'
<1> USE DEF BaseInv
<1>1. /\ At(a, "loaded") /\ Others(a) /\ CognitoKept /\ user' = user /\ rows' = rows
      /\ \/ call'[a] = Idle
         \/ /\ At(a, "flushed")' /\ SameChange(a) /\ IsUser(call[a].sub)
            /\ Replaces(a) => call[a].entry \in EntriesOf(call[a].role)
            /\ call'[a].new.role = RoleOf(a, Changed(a, NoEntry))
            /\ call'[a].new.club \in ClubsOf(a, Changed(a, NoEntry))
  BY FlushDoes
<1>2. CASE call'[a] = Idle
  <2>1. Outside(a)
    BY <1>1, <1>2 DEF Outside, At, Writing, Creates
  <2> QED
    BY <1>1, <2>1, AgreementFrame, KeptByEquality DEF Others
<1>3. CASE call'[a] # Idle
  <2>1. call[a] \in RolesCall
    BY <1>1, CallCases
  <2>2. call[a].op = "assign" /\ call[a].entry = NoEntry => EntriesOf(call[a].role) = {}
    BY <1>1 DEF InsertsInv, AssignsNew
  <2>3. OnePerRole(Changed(a, NoEntry))
    BY <1>1, <1>3, <2>1, <2>2, ChangedOnePerRole DEF InsertsInv
  <2>4. \A id : Follows(call'[a].new, Changed(a, id))
    BY <1>1, <1>3, <2>1, <2>3, ComputedFollows DEF IsUser
  <2>5. \A id : Changed(a, id)' = Changed(a, id)
    BY <1>1, <1>3 DEF SameChange, Changed
  <2>6. Outside(a)
    BY <1>1, <1>3, <2>4, <2>5 DEF Outside, At, Creates, Follows
  <2> QED
    BY <1>1, <2>6, AgreementFrame, KeptByEquality DEF Others
<1> QED
  BY <1>2, <1>3

LEMMA AgreementTells ==
  ASSUME BaseInv, MCNext, Agreement, "roles" \notin overlaps', NEW a \in Admins,
         Tell(a) \/ TellFails(a), faults' = faults
  PROVE  Agreement'
<1> USE DEF BaseInv
<1>1. /\ At(a, "flushed") /\ At(a, "told")' /\ Others(a) /\ SameChange(a) /\ call'[a].new = call[a].new
      /\ user' = user /\ rows' = rows
      /\ account' = NoAccount <=> account = NoAccount
      /\ account # NoAccount => account'.sub = account.sub
      /\ IsAccount(call[a].sub) => account'.role = call[a].new.role /\ account'.club = call[a].new.club
  BY TellDoes
<1>2. HandlesRoles(a) /\ IsUser(call[a].sub)
  BY <1>1 DEF HandlesRoles, At, RowsInv, Writing
<1>3. \A id \in RowIds \cup {NoEntry} : Follows(call[a].new, Changed(a, id))
  BY <1>1 DEF Agreement, AgreementOf, Writing
<1>4. \A id : Changed(a, id)' = Changed(a, id)
  BY <1>1 DEF SameChange, Changed
<1>5. \A id \in RowIds \cup {NoEntry} : Follows(call[a].new, Changed(a, id))'
  BY <1>1, <1>3, <1>4 DEF Follows
<1>6. IsAccount(call[a].sub)' => IsAccount(call[a].sub)
  BY <1>1 DEF IsAccount, SameChange
<1>7. AgreementOf(a)'
  BY <1>1, <1>5, <1>6 DEF AgreementOf, At, Creates
<1>8. account' # NoAccount => user' # NoUser /\ user'.sub = account'.sub
  BY <1>1, <1>2 DEF Agreement, IsUser
<1> QED
  BY <1>1, <1>2, <1>7, <1>8, Alone DEF Agreement

\* What Cognito was told comes true.
LEMMA AgreementCommitsRoles ==
  ASSUME BaseInv, MCNext, Agreement, "roles" \notin overlaps', NEW a \in Admins, CommitRoles(a)
  PROVE  Agreement'
<1> USE DEF BaseInv
<1>1. user # NoUser
  BY RowsCommit
<1>2. /\ At(a, "told") /\ Others(a) /\ call'[a] = Idle /\ CognitoKept /\ UserKept
      /\ \E id \in FreshIds \cup {NoEntry} : rows' = Changed(a, id)
  BY <1>1, CommitRolesDoes
<1>3. PICK id \in RowIds \cup {NoEntry} : rows' = Changed(a, id)
  BY <1>2 DEF FreshIds
<1>4. HandlesRoles(a) /\ IsUser(call[a].sub)
  BY <1>2 DEF HandlesRoles, At, RowsInv, Writing
<1>5. /\ Follows(call[a].new, rows')
      /\ IsAccount(call[a].sub) => account.role = call[a].new.role /\ account.club = call[a].new.club
  BY <1>2, <1>3 DEF Agreement, AgreementOf, Writing
<1>6. AgreementOf(a)'
  BY <1>2 DEF AgreementOf, At, Creates, Writing
<1>7. account # NoAccount => user.sub = account.sub
  BY <1>1 DEF Agreement
<1>8. account # NoAccount => Follows(account, rows')
  BY <1>4, <1>5, <1>7 DEF IsUser, IsAccount, Follows
<1>9. account' # NoAccount => user' # NoUser /\ user'.sub = account'.sub /\ Follows(account', rows')
  BY <1>1, <1>2, <1>7, <1>8 DEF UserKept, CognitoKept
<1> QED
  BY <1>2, <1>4, <1>6, <1>9, Alone DEF Agreement

\* Once the account is gone there is nothing to agree with.
LEMMA AgreementRemoves ==
  ASSUME LifeInv, MCNext, Agreement, NEW a \in Admins, RemoveAccount(a) \/ CommitHardDelete(a)
  PROVE  Agreement'
<1> USE DEF LifeInv, BaseInv
<1>1. /\ Others(a) /\ (At(a, "removed")' \/ call'[a] = Idle)
      /\ user # NoUser /\ account' = NoAccount
      /\ \/ user' = user /\ rows' = rows
         \/ user' = NoUser /\ rows' = {} /\ \A b \in Admins : ~Writing(b)
  <2>1. CASE RemoveAccount(a)
    BY <2>1, RemoveAccountDoes DEF DeletionInv, IsUser
  <2>2. CASE CommitHardDelete(a)
    <3>1. IsUser(call[a].sub) /\ user # NoUser /\ user.sub = call[a].sub /\ At(a, "removed")
      BY <2>2, DeletionCommits, CommitHardDeleteDoes DEF IsUser
    <3>2. account = NoAccount
      BY <3>1 DEF Agreement, DeletionInv, IsAccount
    <3> QED
      BY <2>2, <3>1, <3>2, CommitHardDeleteDoes DEF CognitoKept
  <2> QED
    BY <2>1, <2>2
<1>2. \A s : ~IsAccount(s)'
  BY <1>1 DEF IsAccount
<1>3. \A b \in Admins : ~Creates(b)' /\ ~At(b, "created")'
  <2>1. \A b \in Admins : ~Creates(b)
    BY <1>1 DEF Agreement, AgreementOf
  <2>2. ~Creates(a)' /\ ~At(a, "created")'
    BY <1>1 DEF Creates, At
  <2> QED
    BY <1>1, <2>1, <2>2, OthersStay DEF Creates
<1>4. ASSUME NEW b \in Admins, At(b, "seeding")' PROVE (user = NoUser \/ IsUser(call[b].sub))' /\ rows' = {}
  <2>1. b # a
    BY <1>1, <1>4 DEF At
  <2>2. At(b, "seeding") /\ call'[b] = call[b]
    BY <1>1, <1>4, <2>1, OthersStay
  <2> QED
    BY <1>1, <2>2 DEF Agreement, AgreementOf, IsUser
<1>5. ASSUME NEW b \in Admins, Writing(b)'
      PROVE  \A id \in RowIds \cup {NoEntry} : Follows(call[b].new, Changed(b, id))'
  <2>1. b # a
    BY <1>1, <1>5 DEF Writing, At
  <2>2. Writing(b) /\ call'[b] = call[b]
    BY <1>1, <1>5, <2>1, OthersStay
  <2>3. rows' = rows /\ \A id \in RowIds \cup {NoEntry} : Follows(call[b].new, Changed(b, id))
    BY <1>1, <2>2 DEF Agreement, AgreementOf
  <2>4. \A id : Changed(b, id)' = Changed(b, id)
    BY <2>2, <2>3 DEF Changed
  <2> QED
    BY <2>2, <2>3, <2>4 DEF Follows
<1>6. \A b \in Admins : AgreementOf(b)'
  BY <1>2, <1>3, <1>4, <1>5 DEF AgreementOf
<1> QED
  BY <1>1, <1>6 DEF Agreement

\* A request makes the users row while nobody changes roles: there is no account.
LEMMA AgreementRequests ==
  ASSUME TypeOK, MCNext, Agreement, "roles" \notin overlaps', user = NoUser, NEW d \in Devices, Request(d)
  PROVE  Agreement'
<1>1. user' # NoUser /\ CognitoKept /\ call' = call
  BY RequestDoes
<1>2. \A b \in Admins : ~HandlesRoles(b)
  BY <1>1, Recorded DEF RolesOverlap
<1>3. \A b \in Admins : ~At(b, "created") /\ AgreementOf(b)'
  BY <1>1, <1>2 DEF HandlesRoles, At, AgreementOf, Creates, Writing
<1>4. account' = NoAccount
  BY <1>1, <1>3 DEF Agreement, CognitoKept
<1> QED
  BY <1>3, <1>4 DEF Agreement

LEMMA AgreementInit == MCInit => FollowsInv
BY DEF MCInit, Init, FollowsInv, Agreement, AgreementOf, Creates, Writing, At

LEMMA FollowsStep ==
  ASSUME LifeInv, InsertsInv, FollowsInv, [MCNext]_<<vars, history>>
  PROVE  FollowsInv'
<1> USE DEF BaseInv, LifeInv
<1>1. CASE UNCHANGED <<vars, history>>
  <2>1. \A b \in Admins : call'[b] = call[b]
    BY <1>1 DEF vars
  <2>2. CognitoKept /\ UserKept /\ rows' = rows /\ faults' = faults /\ overlaps' = overlaps
    BY <1>1, KeptByEquality DEF vars, history, CognitoKept
  <2> QED
    BY <2>1, <2>2, AgreementFrame DEF FollowsInv
<1>2. CASE MCNext
  <2> USE <1>2
  <2> SUFFICES ASSUME faults' = 0, "roles" \notin overlaps' PROVE FollowsInv'
    BY DEF FollowsInv
  <2>1. ~Fault
    BY DEF Fault, TypeOK
  <2>2. ASSUME faults' = faults, Agreement => Agreement' PROVE FollowsInv'
    <3>1. Agreement /\ "inserts" \notin overlaps
      BY <2>2, Recorded DEF FollowsInv
    <3>2. "inserts" \notin overlaps'
      <4>1. ~InsertsOverlap
        BY Recorded DEF RolesOverlap, InsertsOverlap, Inserts
      <4> QED
        BY <3>1, <4>1 DEF MCNext, Overlap
    <3> QED
      BY <2>2, <3>1, <3>2 DEF FollowsInv
  <2>3. ASSUME NEW a \in Admins,
               \/ \E caller \in Callers : Create(a, caller) \/ Manage(a, caller)
               \/ BeginHardDelete(a) \/ CreateAccountFails(a) \/ CreateReplyLost(a)
               \/ RemoveFails(a) \/ RemoveReplyLost(a)
        PROVE  FollowsInv'
    <3>1. /\ Others(a) /\ CognitoKept /\ UserKept /\ rows' = rows /\ faults' = faults /\ Outside(a)
      <4>1. CASE \E caller \in Callers : Create(a, caller)
        BY <4>1, BeginCreateDoes, KeptByEquality DEF Create, Outside, At, Writing
      <4>2. CASE \E caller \in Callers : Manage(a, caller)
        BY <4>2, BeginRolesDoes, KeptByEquality DEF Manage, Outside, At, Writing, Creates
      <4>3. CASE BeginHardDelete(a)
        BY <4>3, BeginHardDeleteDoes, KeptByEquality DEF Outside, At, Writing, Creates
      <4>4. CASE CreateAccountFails(a) \/ CreateReplyLost(a)
        BY <2>1, <4>4, CreateEndsDoes, KeptByEquality DEF Outside, At, Writing, Creates
      <4>5. CASE RemoveFails(a) \/ RemoveReplyLost(a)
        BY <2>1, <4>5, RemoveEndsDoes, KeptByEquality DEF Outside, At, Writing, Creates
      <4> QED
        BY <2>3, <4>1, <4>2, <4>3, <4>4, <4>5
    <3>2. \A b \in Admins : call'[b] = call[b] \/ Outside(b)
      BY <3>1 DEF Others
    <3> QED
      BY <2>2, <3>1, <3>2, AgreementFrame
  <2>4. ASSUME NEW a \in Admins, CreateAccount(a) \/ CommitUser(a) \/ SeedRole(a) PROVE FollowsInv'
    <3>1. faults' = faults
      BY <2>4, CreateAccountDoes, CommitUserDoes, SeedRoleDoes
    <3> QED
      BY <2>2, <2>4, <3>1, AgreementCreates, AgreementCommits, AgreementSeeds
  <2>5. ASSUME NEW a \in Admins, Flush(a) PROVE FollowsInv'
    <3>1. faults' = faults
      BY <2>5, FlushDoes
    <3>2. "roles" \notin overlaps
      BY Recorded
    <3> QED
      BY <2>2, <2>5, <3>1, <3>2, AgreementFlushes DEF FollowsInv
  <2>6. ASSUME NEW a \in Admins, Tell(a) \/ TellFails(a) PROVE FollowsInv'
    <3>1. faults' = faults
      BY <2>1, <2>6, TellDoes
    <3> QED
      BY <2>2, <2>6, <3>1, AgreementTells
  <2>7. ASSUME NEW a \in Admins, CommitRoles(a) PROVE FollowsInv'
    <3>1. faults' = faults
      BY <2>7, RowsCommit, CommitRolesDoes
    <3> QED
      BY <2>2, <2>7, <3>1, AgreementCommitsRoles
  <2>8. ASSUME NEW a \in Admins, RemoveAccount(a) \/ CommitHardDelete(a) PROVE FollowsInv'
    <3>1. faults' = faults
      BY <2>8, RemoveAccountDoes, CommitHardDeleteDoes
    <3> QED
      BY <2>2, <2>8, <3>1, AgreementRemoves
  <2>9. ASSUME \/ (\E caller \in Callers : SoftDelete(caller)) \/ Restore \/ ListUsers
               \/ \E d \in Devices : Login(d) \/ Expire(d) \/ Request(d)
        PROVE  FollowsInv'
    <3>1. CASE \E d \in Devices : Request(d) /\ user = NoUser
      BY <2>2, <3>1, RequestDoes, AgreementRequests
    <3>2. CASE ~\E d \in Devices : Request(d) /\ user = NoUser
      <4>1. CognitoKept /\ UserKept /\ rows' = rows /\ call' = call /\ faults' = faults
        <5>1. CASE (\E caller \in Callers : SoftDelete(caller)) \/ Restore \/ ListUsers
          BY <5>1, UserStepDoes
        <5>2. CASE \E d \in Devices : Login(d) \/ Expire(d)
          BY <5>2, TokenStepDoes, KeptByEquality
        <5>3. CASE \E d \in Devices : Request(d)
          BY <3>2, <5>3, RequestDoes
        <5> QED
          BY <2>9, <5>1, <5>2, <5>3
      <4> QED
        BY <2>2, <4>1, AgreementFrame
    <3> QED
      BY <3>1, <3>2
  <2>10. \A a \in Admins : ~HandlerDies(a)
    BY <2>1, HandlerDiesDoes
  <2> QED
    BY <2>3, <2>4, <2>5, <2>6, <2>7, <2>8, <2>9, <2>10 DEF MCNext, Next, Starts, Continues, Fails
<1> QED
  BY <1>1, <1>2

\* Cognito, whose attributes every token carries, says what the governance rows say: create_user,
\* assign_governance_role and revoke_governance_role tell Cognito before they commit, each computes
\* the role and the club from the rows it is going to commit, and that no two of them overlap is
\* all it takes, for deletions and requests may run beside them at any step.
THEOREM CognitoFollowsRows == MCSpec => []AccountFollowsRows
<1>1. FollowsInv => AccountFollowsRows
  BY DEF FollowsInv, Agreement, Follows, AccountFollowsRows, Settled, NobodyActs, At, IsUser
<1>2. MCInit => LifeInv /\ InsertsInv /\ FollowsInv
  BY BaseInit, DeletionInit, InsertsInit, AgreementInit DEF LifeInv
<1>3. LifeInv /\ InsertsInv /\ FollowsInv /\ [MCNext]_<<vars, history>>
        => (LifeInv /\ InsertsInv /\ FollowsInv)'
  BY BaseStep, DeletionStep, InsertsStep, FollowsStep DEF LifeInv
<1> QED
  BY <1>1, <1>2, <1>3, PTL DEF MCSpec
=============================================================================
