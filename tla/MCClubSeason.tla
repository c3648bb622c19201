---------------------------- MODULE MCClubSeason ----------------------------
(***************************************************************************)
(* A small instance of ClubSeason, with a history variable that tells which*)
(* requests in progress at the same time raced about the profile, the staff*)
(* or an unlock request.                                                   *)
(***************************************************************************)
EXTENDS ClubSeason, TLC

CONSTANTS t1, t2, u1, u2, u3, u4, c1, c2, c3, k1, k2, s1, s2

\* u1 is the admin of the club, c3; u2 and u3 are league admins with clubs of their own, u4
\* is one without a club.
MCClubOf == u1 :> c3 @@ u2 :> c1 @@ u3 :> c2 @@ u4 :> NoClub
MCClubOfThree == u1 :> c3 @@ u2 :> c1 @@ u3 :> c2

\* The two league admins change places together with their clubs.
SwapAdmins == u2 :> u3 @@ u3 :> u2 @@ c1 :> c2 @@ c2 :> c1

Symmetry == Permutations(Threads) \cup Permutations(RequestIds) \cup Permutations(StaffIds)
            \cup {SwapAdmins}

VARIABLE races   \* the kind of each race there ever was, and what it was about

Works(t, ops) == txn[t] # NoTxn /\ txn[t].op \in ops

\* Two approvals of k are flushed, and neither counts the other.
ApprovedTwice(k, t, u) == /\ Works(t, {"approved"}) /\ Works(u, {"approved"})
                          /\ txn[t].request = k /\ txn[u].request = k

\* k is being rejected and approved.
RejectedWhileApproved(k, t, u) == /\ Works(t, {"reject"}) /\ Works(u, {"approve", "approved"})
                                  /\ txn[t].request = k /\ txn[u].request = k

\* The status that a request is going to give the profile.
Submits(t) == Works(t, {"submit", "submitted"})
Leads(t) == Submits(t) \/ Works(t, {"transition"}) \/ (Works(t, {"approved"}) /\ txn[t].auto)
Goal(t) == CASE Submits(t)               -> txn[t].status
             [] Works(t, {"transition"}) -> txn[t].target
             [] OTHER                    -> "approved"

\* Two requests lead the profile to different statuses.
LedApart(t, u) == Leads(t) /\ Leads(u) /\ Goal(t) # Goal(u)

\* A profile is submitted while an unlock request gets its last approval.
SubmittedWhileUnlocked(t, u) == Submits(t) /\ Works(u, {"approved"}) /\ txn[u].quorum

\* Two people are added to the staff.
AddedTwice(t, u) == Works(t, {"add_staff"}) /\ Works(u, {"add_staff"})

RacesOf(t, u) ==
  {<<"approved twice", k>> : k \in {j \in RequestIds : ApprovedTwice(j, t, u)}}
  \cup {<<"rejected while approved", k>> :
           k \in {j \in RequestIds : RejectedWhileApproved(j, t, u)}}
  \cup (IF LedApart(t, u) THEN {<<"led apart", "profile">>} ELSE {})
  \cup (IF SubmittedWhileUnlocked(t, u) THEN {<<"submitted while unlocked", "profile">>} ELSE {})
  \cup (IF AddedTwice(t, u) THEN {<<"added twice", "staff">>} ELSE {})

InProgress == {t \in Threads : txn[t] # NoTxn}
Racing == UNION {UNION {RacesOf(t, u) : u \in InProgress \ {t}} : t \in InProgress}

MCInit == Init /\ races = {}
MCNext == Next /\ races' = races \cup Racing'
MCSpec == MCInit /\ [][MCNext]_<<vars, races>>

Unraced(kind, x) == <<kind, x>> \notin races

\* The profile goes through its lifecycle unless two requests led it apart, and a decided unlock
\* request stays as it is unless it was being rejected and approved at once.
LifecycleUnlessRaced ==
  [][/\ Unraced("led apart", "profile") => LifecycleStep
     /\ \A k \in RequestIds : Unraced("rejected while approved", k) => DecisionStands(k)]_vars

\* A quorum decides the request unless two approvals of it were counted at once; a late submission
\* is tracked by an unlock request unless one got its last approval while the profile was being
\* submitted; and the staff keeps within its cap unless two people were added at once.
PromisesUnlessRaced ==
  /\ \A k \in RequestIds : Unraced("approved twice", k) => QuorumDecides(k)
  /\ Unraced("submitted while unlocked", "profile") => LateSubmissionTracked
  /\ Unraced("added twice", "staff") => StaffWithinCap

-----------------------------------------------------------------------------
(* Bounds of the run *)

\* The staff and the profile share the window and the unlock requests but never read or write
\* each other: the staff is explored before there is a profile.
StaffApart ==
  profile # NoRow =>
     /\ staff = {} /\ Unraced("added twice", "staff")
     /\ \A t \in Threads : ~Running(t, "add_staff") /\ ~Running(t, "remove_staff")

\* The club's own admin submits the profile.
OwnSubmission == \A t \in Threads : Submits(t) => txn[t].by = u1

\* What follows a second race is left to the proofs.
OneRace == Cardinality(races) <= 1
=============================================================================
