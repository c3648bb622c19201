----------------------------- MODULE MCAccounts -----------------------------
(***************************************************************************)
(* A small instance of Accounts, with its history: whether handlers have   *)
(* overlapped, and which users were deleted for good.                      *)
(***************************************************************************)
EXTENDS Accounts, FiniteSets, TLC

CONSTANTS a1, a2, d1, club1, row1, row2

SuperAdmin == [role |-> "super_admin", club |-> NoClub]
LeagueAdmin == [role |-> "league_admin", club |-> NoClub]
ClubAdmin == [role |-> "club_admin", club |-> club1]
MCCallers == {SuperAdmin, LeagueAdmin, ClubAdmin}
\* The others may do less, and reach no other states.
MCSuperAdmin == {SuperAdmin}

Symmetry == Permutations(Admins) \cup Permutations(Devices) \cup Permutations(RowIds)

\* overlaps: which kinds of overlap there have been, see Overlap.
VARIABLES overlaps, buried

history == <<overlaps, buried>>

HandlesRoles(a) == call[a] # Idle /\ call[a].at \notin {"deleting", "removed"}
Inserts(a) == /\ HandlesRoles(a)
              /\ \/ call[a].at \in {"creating", "created", "seeding"}
                 \/ call[a].op = "assign" /\ call[a].entry = NoEntry

Creates(a) == At(a, "creating") \/ At(a, "created")
Deletes(a) == At(a, "deleting") \/ At(a, "removed")

\* Two handlers that insert a governance row.
InsertsOverlap == \E a, b \in Admins : a # b /\ Inserts(a) /\ Inserts(b)

\* Two handlers that change roles, or one and the user's first request.
RolesOverlap ==
  \/ \E a, b \in Admins : a # b /\ HandlesRoles(a) /\ HandlesRoles(b)
  \/ /\ user = NoUser /\ user' # NoUser /\ call' = call
     /\ \E a \in Admins : HandlesRoles(a)

\* A hard deletion and a restoration.
RestoredWhileDeleted ==
  /\ user # NoUser /\ user' # NoUser /\ user.deleted /\ ~user'.deleted
  /\ \E a \in Admins : Deletes(a)

\* A hard deletion and the creation of the next account.
CreatedWhileDeleted == \E a, b \in Admins : Creates(a) /\ Deletes(b)

Overlap == {k \in {"inserts", "roles", "restored", "created"} :
              \/ k = "inserts" /\ InsertsOverlap
              \/ k = "roles" /\ RolesOverlap
              \/ k = "restored" /\ RestoredWhileDeleted
              \/ k = "created" /\ CreatedWhileDeleted}

MCInit == Init /\ overlaps = {} /\ buried = {}
MCNext ==
  /\ Next
  /\ overlaps' = overlaps \cup Overlap
  /\ buried' = IF user # NoUser /\ user' = NoUser THEN buried \cup {user.sub} ELSE buried
MCSpec == MCInit /\ [][MCNext]_<<vars, history>>
MCFairSpec == MCSpec /\ Fairness

\* Once two kinds of overlap that properties excuse have come together, or all the accounts have
\* come and gone, nothing more is explored.
StillClaimed == Cardinality(overlaps \ {"roles"}) < 2 /\ buried # Subs

Settled == NobodyActs /\ faults = 0

-----------------------------------------------------------------------------
(* Properties *)

\* The role and the club in Cognito, which every token carries, are those of the governance
\* rows: no governance role without a row, and the club of a club_admin row if there is one;
\* unless handlers that change roles have overlapped or failed halfway.
AccountFollowsRows ==
  Settled /\ "roles" \notin overlaps /\ account # NoAccount /\ IsUser(account.sub)
    => /\ account.role \in Governance <=> rows # {}
       /\ \A r \in rows : r.role = "league_admin" => account.role # "club_admin"
       /\ \A r \in rows : r.role = "club_admin" => account.club = r.club

\* A user has one row at most for each governance role, which no constraint ensures, unless two
\* handlers that insert one have overlapped.
OneRowPerRole ==
  "inserts" \notin overlaps => \A q, r \in rows : q.role = r.role => q = r

\* Every account in Cognito has its users row, whatever handlers and requests overlap, unless a
\* token of a user who was deleted for good has made a row again, or an account was created
\* while its predecessor was being deleted: then the row of the old one still has the email
\* address when the row of the new one is inserted, and is gone afterwards.
AccountHasUser ==
  Settled /\ "created" \notin overlaps /\ account # NoAccount => user # NoUser /\ user.sub \in {account.sub} \cup buried

\* "an intentional two-step process": a users row is deleted only while it is soft-deleted,
\* unless it was restored while the deletion was in progress.
TwoStepDeletion ==
  [][user # NoUser /\ user' = NoUser => user.deleted \/ "restored" \in overlaps]_<<vars, history>>
=============================================================================
