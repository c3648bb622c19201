----------------------------- MODULE ClubSeason -----------------------------
(***************************************************************************)
(* One club in one season: its profile and the review of it, its staff, and*)
(* the unlock requests by which league admins of other clubs let a late    *)
(* submission pass (app/services/club_season_service.py).  Every query of  *)
(* the service is restricted to one club and season.                       *)
(*                                                                         *)
(* Requests run in threads with sessions of their own, READ COMMITTED.  A  *)
(* Begin action loads rows and checks the guards; submit and approve read  *)
(* again after their first flush (a Flush action); the Commit action writes*)
(* the columns that the handler changed.                                   *)
(***************************************************************************)
EXTENDS Integers, FiniteSets

CONSTANTS Threads, Users, Clubs, RequestIds, StaffIds,
          LeagueAdmins,   \* require_league_admin_or_above; the other users are the club's admins
          ClubOf,         \* club in the token of a user, NoClub if none
          MinApprovals,   \* MIN_APPROVALS (2)
          MaxStaff,       \* MAX_STAFF_PER_CLUB_SEASON (10)
          NoClub, NoRow, NoTxn

ASSUME ClubSeasonAssumption ==
  /\ LeagueAdmins \subseteq Users
  /\ NoClub \notin Clubs /\ ClubOf \in [Users -> Clubs \cup {NoClub}]
  /\ MinApprovals \in Nat \ {0} /\ MaxStaff \in Nat

ProfileStatus == {"draft", "submitted", "reviewed", "approved", "returned", "resubmitted"}
Profile == [status : ProfileStatus, late : BOOLEAN]
UnlockRequest == [by : Users, status : {"pending", "approved", "rejected"}]
Approval == [request : RequestIds, by : Users, club : Clubs]

ASSUME NullAssumption == NoRow \notin Profile \cup UnlockRequest

VARIABLES windowOpen,   \* is_registration_window_open(season)
          squadReady,   \* MIN_PLAYERS_PER_CLUB_SEASON requests are accepted
          profile, unlock, approvals, staff, txn

vars == <<windowOpen, squadReady, profile, unlock, approvals, staff, txn>>
environment == <<windowOpen, squadReady>>

Init == /\ windowOpen = TRUE /\ squadReady = FALSE
        /\ profile = NoRow
        /\ unlock = [k \in RequestIds |-> NoRow]
        /\ approvals = {} /\ staff = {}
        /\ txn = [t \in Threads |-> NoTxn]

\* The window opens and closes with the clock, and when the season is edited.
WindowChanges == /\ windowOpen' = ~windowOpen
                 /\ UNCHANGED <<squadReady, profile, unlock, approvals, staff, txn>>

\* The last accepted request that the squad needs; accepted requests stay.
SquadCompletes == /\ ~squadReady /\ squadReady' = TRUE
                  /\ UNCHANGED <<windowOpen, profile, unlock, approvals, staff, txn>>

-----------------------------------------------------------------------------
(* Sessions *)

Begin(t, work) == /\ txn[t] = NoTxn
                  /\ txn' = [txn EXCEPT ![t] = work]
                  /\ UNCHANGED <<environment, profile, unlock, approvals, staff>>
Running(t, op) == txn[t] # NoTxn /\ txn[t].op = op
Flush(t, work) == /\ txn' = [txn EXCEPT ![t] = work]
                  /\ UNCHANGED <<environment, profile, unlock, approvals, staff>>
End(t) == txn' = [txn EXCEPT ![t] = NoTxn]

\* The request fails (a constraint, two rows where the code expects one), or its process dies.
Rollback(t) == /\ txn[t] # NoTxn /\ End(t)
               /\ UNCHANGED <<environment, profile, unlock, approvals, staff>>

\* submit_profile flushes its update of the profile before it goes on reading: the row stays
\* locked, and the updates of other sessions wait, until it commits.
ProfileFree(t) == \A o \in Threads \ {t} : ~Running(o, "submitted")

-----------------------------------------------------------------------------
(* Unlock requests *)

WithStatus(s) == {k \in RequestIds : unlock[k] # NoRow /\ unlock[k].status = s}

\* POST /club-unlock-requests/ reads nothing.
CreateUnlockRequest(u, k) ==
  /\ unlock[k] = NoRow
  /\ unlock' = [unlock EXCEPT ![k] = [by |-> u, status |-> "pending"]]
  /\ UNCHANGED <<environment, profile, approvals, staff, txn>>

ApprovalsOf(k) == {a \in approvals : a.request = k}
ClubsBehind(A) == {a.club : a \in A}

\* Mutant: the request's own author decides, too.
AnyoneDecides(u, k) == u \in LeagueAdmins /\ k \in WithStatus("pending")

MayDecide(u, k) == u \in LeagueAdmins /\ k \in WithStatus("pending") /\ unlock[k].by # u

NotYetApproved(u, k) == \A a \in ApprovalsOf(k) : a.by # u /\ a.club # ClubOf[u]

BeginApprove(t, u, k) ==
  /\ MayDecide(u, k) /\ ClubOf[u] # NoClub /\ NotYetApproved(u, k)
  /\ Begin(t, [op |-> "approve", by |-> u, request |-> k])

\* Mutant: a late profile of any status is approved.
AnyLate == profile # NoRow /\ profile.late

Awaiting == /\ profile # NoRow /\ profile.late
            /\ profile.status \in {"submitted", "resubmitted"}

\* Mutant: one club more is needed.
QuorumExceeded(k, u) ==
  Cardinality(ClubsBehind(ApprovalsOf(k)) \cup {ClubOf[u]}) > MinApprovals

\* The session inserts its approval and counts the clubs among the approvals it sees: the
\* committed ones and its own.  With a quorum it loads the late profile.
Quorum(k, u) == Cardinality(ClubsBehind(ApprovalsOf(k)) \cup {ClubOf[u]}) >= MinApprovals

FlushApprove(t) ==
  /\ Running(t, "approve")
  /\ LET k == txn[t].request
         u == txn[t].by
         auto == Quorum(k, u) /\ Awaiting
     IN  Flush(t, [op |-> "approved", by |-> u, request |-> k, quorum |-> Quorum(k, u),
                   auto |-> auto, saw |-> IF auto THEN profile ELSE NoRow])

\* uq_unlock_approval_request_approver refuses a second approval of the same user.
CommitApprove(t) ==
  /\ Running(t, "approved")
  /\ LET k == txn[t].request  u == txn[t].by IN
       /\ \A a \in ApprovalsOf(k) : a.by # u
       /\ txn[t].auto => ProfileFree(t)
       /\ approvals' = approvals \cup {[request |-> k, by |-> u, club |-> ClubOf[u]]}
       /\ unlock' = IF txn[t].quorum THEN [unlock EXCEPT ![k].status = "approved"] ELSE unlock
       /\ profile' = IF txn[t].auto THEN [profile EXCEPT !.status = "approved"] ELSE profile
  /\ End(t)
  /\ UNCHANGED <<environment, staff>>

BeginReject(t, u, k) ==
  /\ MayDecide(u, k)
  /\ Begin(t, [op |-> "reject", request |-> k])

CommitReject(t) ==
  /\ Running(t, "reject")
  /\ unlock' = [unlock EXCEPT ![txn[t].request].status = "rejected"]
  /\ End(t)
  /\ UNCHANGED <<environment, profile, approvals, staff>>

-----------------------------------------------------------------------------
(* The profile *)

\* uq_club_season_profile refuses a second one.
CreateProfile ==
  /\ profile = NoRow
  /\ profile' = [status |-> "draft", late |-> FALSE]
  /\ UNCHANGED <<environment, unlock, approvals, staff, txn>>

BeginSubmit(t, u) ==
  /\ profile # NoRow /\ profile.status \in {"draft", "returned", "reviewed"}
  /\ squadReady
  /\ Begin(t, [op |-> "submit", by |-> u, late |-> ~windowOpen, wasLate |-> profile.late,
               status |-> IF profile.status = "draft" THEN "submitted" ELSE "resubmitted"])

\* _ensure_unlock_request: scalar_one_or_none fails if there are two.
NeedsRequest(late) == late /\ WithStatus("pending") = {}

FlushSubmit(t) ==
  /\ Running(t, "submit") /\ ProfileFree(t)
  /\ txn[t].late => Cardinality(WithStatus("pending")) <= 1
  /\ Flush(t, [op |-> "submitted", by |-> txn[t].by, late |-> txn[t].late,
               wasLate |-> txn[t].wasLate, status |-> txn[t].status,
               request |-> NeedsRequest(txn[t].late)])

\* is_late is written only if it differs from what was loaded.
CommitSubmit(t, k) ==
  /\ Running(t, "submitted")
  /\ profile' = [status |-> txn[t].status,
                 late |-> IF txn[t].late # txn[t].wasLate THEN txn[t].late ELSE profile.late]
  /\ IF txn[t].request
     THEN /\ unlock[k] = NoRow
          /\ unlock' = [unlock EXCEPT ![k] = [by |-> txn[t].by, status |-> "pending"]]
     ELSE UNCHANGED unlock
  /\ End(t)
  /\ UNCHANGED <<environment, approvals, staff>>

\* Mutant: a profile need not be reviewed.
UnreviewedTransitions(status) ==
  CASE status \in {"submitted", "resubmitted"} -> {"reviewed", "approved", "returned"}
    [] status = "reviewed"                     -> {"approved", "returned"}
    [] OTHER                                   -> {}

\* What a league admin may do with a profile of this status (valid_from).
Transitions(status) ==
  CASE status \in {"submitted", "resubmitted"} -> {"reviewed", "returned"}
    [] status = "reviewed"                     -> {"approved", "returned"}
    [] OTHER                                   -> {}

BeginTransition(t, target) ==
  /\ profile # NoRow /\ target \in Transitions(profile.status)
  /\ Begin(t, [op |-> "transition", target |-> target, saw |-> profile])

CommitTransition(t) ==
  /\ Running(t, "transition") /\ ProfileFree(t)
  /\ profile' = [profile EXCEPT !.status = txn[t].target]
  /\ End(t)
  /\ UNCHANGED <<environment, unlock, approvals, staff>>

-----------------------------------------------------------------------------
(* Staff *)

\* _has_active_unlock fails if two requests are approved.
StaffMayChange == windowOpen \/ Cardinality(WithStatus("approved")) = 1

HasRoom == Cardinality(staff) < MaxStaff

BeginAddStaff(t) ==
  /\ StaffMayChange /\ HasRoom
  /\ Begin(t, [op |-> "add_staff"])

CommitAddStaff(t, s) ==
  /\ Running(t, "add_staff") /\ s \notin staff
  /\ staff' = staff \cup {s}
  /\ End(t)
  /\ UNCHANGED <<environment, profile, unlock, approvals>>

BeginRemoveStaff(t, s) ==
  /\ s \in staff /\ StaffMayChange
  /\ Begin(t, [op |-> "remove_staff", staff |-> s])

CommitRemoveStaff(t) ==
  /\ Running(t, "remove_staff") /\ txn[t].staff \in staff
  /\ staff' = staff \ {txn[t].staff}
  /\ End(t)
  /\ UNCHANGED <<environment, profile, unlock, approvals>>

-----------------------------------------------------------------------------
UnlockStep(t) == \/ \E u \in Users, k \in RequestIds : BeginApprove(t, u, k) \/ BeginReject(t, u, k)
                 \/ FlushApprove(t) \/ CommitApprove(t) \/ CommitReject(t)

ProfileStep(t) == \/ \E u \in Users : BeginSubmit(t, u)
                  \/ FlushSubmit(t)
                  \/ \E k \in RequestIds : CommitSubmit(t, k)
                  \/ \E target \in ProfileStatus : BeginTransition(t, target)
                  \/ CommitTransition(t)

StaffStep(t) == \/ BeginAddStaff(t) \/ CommitRemoveStaff(t)
                \/ \E s \in StaffIds : CommitAddStaff(t, s) \/ BeginRemoveStaff(t, s)

Next == \/ WindowChanges \/ SquadCompletes \/ CreateProfile
        \/ \E u \in Users, k \in RequestIds : CreateUnlockRequest(u, k)
        \/ \E t \in Threads : UnlockStep(t) \/ ProfileStep(t) \/ StaffStep(t) \/ Rollback(t)

Spec == Init /\ [][Next]_vars

-----------------------------------------------------------------------------
(* Properties that hold whatever the interleaving *)

TxnType == [op : {"approve"}, by : Users, request : RequestIds]
      \cup [op : {"approved"}, by : Users, request : RequestIds, quorum : BOOLEAN,
            auto : BOOLEAN, saw : Profile \cup {NoRow}]
      \cup [op : {"reject"}, request : RequestIds]
      \cup [op : {"submit"}, by : Users, late : BOOLEAN, wasLate : BOOLEAN,
            status : {"submitted", "resubmitted"}]
      \cup [op : {"submitted"}, by : Users, late : BOOLEAN, wasLate : BOOLEAN,
            status : {"submitted", "resubmitted"}, request : BOOLEAN]
      \cup [op : {"transition"}, target : {"reviewed", "approved", "returned"}, saw : Profile]
      \cup [op : {"add_staff"}] \cup [op : {"remove_staff"}, staff : StaffIds]

TypeOK ==
  /\ windowOpen \in BOOLEAN /\ squadReady \in BOOLEAN
  /\ profile \in Profile \cup {NoRow}
  /\ unlock \in [RequestIds -> UnlockRequest \cup {NoRow}]
  /\ approvals \subseteq Approval
  /\ staff \subseteq StaffIds
  /\ txn \in [Threads -> TxnType \cup {NoTxn}]

ClubsFor(k) == {a.club : a \in {b \in approvals : b.request = k}}

\* An unlock request is approved only by users of MinApprovals different clubs, none of whom
\* made it (decide_unlock_request).
ApprovedByQuorum ==
  \A k \in RequestIds : unlock[k] # NoRow /\ unlock[k].status = "approved" =>
     /\ Cardinality(ClubsFor(k)) >= MinApprovals
     /\ \A a \in approvals : a.request = k => a.by # unlock[k].by

\* A profile is approved only by the commit of a request that had loaded it: reviewed, or late and
\* waiting for its review, by the request that brings an unlock request its quorum and approves it
\* (transition_profile, _auto_approve_late_profile).  That it is no longer as it was loaded is the
\* subject of the lifecycle.
ApprovalStep ==
  profile # NoRow /\ profile.status # "approved" /\ profile'.status = "approved" =>
     \E t \in Threads :
        /\ txn[t] # NoTxn /\ txn'[t] = NoTxn /\ txn[t].op \in {"transition", "approved"}
        /\ \/ txn[t].op = "transition" /\ txn[t].saw.status = "reviewed"
           \/ /\ txn[t].op = "approved"
              /\ txn[t].saw.late /\ txn[t].saw.status \in {"submitted", "resubmitted"}
              /\ unlock'[txn[t].request].status = "approved"
              /\ LET behind == {a \in approvals' : a.request = txn[t].request}
                 IN  Cardinality(ClubsBehind(behind)) >= MinApprovals
ProfileApproval == [][ApprovalStep]_vars

-----------------------------------------------------------------------------
(* Promises that two requests in progress at once can break in a race *)

\* The lifecycle of models/club_season.py, with the submissions that submit_profile allows
\* from reviewed and the automatic approval of a late profile that waits for its review.
LifecycleStep ==
  profile # NoRow /\ profile'.status # profile.status =>
     <<profile.status, profile'.status>> \in
        {<<"draft", "submitted">>, <<"returned", "resubmitted">>, <<"reviewed", "resubmitted">>,
         <<"reviewed", "approved">>, <<"reviewed", "returned">>}
        \cup {"submitted", "resubmitted"} \X ({"reviewed", "returned"}
                                            \cup IF profile.late THEN {"approved"} ELSE {})

\* "A rejection by any approver is final", and so is an approval.
DecisionStands(k) ==
  unlock[k] # NoRow /\ unlock[k].status # "pending" => unlock'[k] = unlock[k]

\* "When distinct approving clubs >= MIN_APPROVALS the request becomes APPROVED".
QuorumDecides(k) ==
  unlock[k] # NoRow /\ unlock[k].status = "pending" => Cardinality(ClubsFor(k)) < MinApprovals

\* A late submission that waits for its approval has a request that is still to be decided,
\* or one that was rejected: it is never forgotten.
LateSubmissionTracked ==
  profile # NoRow /\ profile.late /\ profile.status \in {"submitted", "resubmitted"} =>
     \E k \in RequestIds : unlock[k] # NoRow /\ unlock[k].status \in {"pending", "rejected"}

\* At most MaxStaff people on the staff (add_staff).
StaffWithinCap == Cardinality(staff) <= MaxStaff
=============================================================================
