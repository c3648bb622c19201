--------------------------- MODULE SquadSubmission ---------------------------
(***************************************************************************)
(* The squad list of one club in one season as its pages see it: the squad *)
(* segment of frontend/app/dashboard/clubs/[id]/page.tsx, open in several  *)
(* tabs or for several admins of the club, and the submissions page of the *)
(* league admins.  The pages show the profiles of their caches, however    *)
(* old; the server's handlers are one step each (module ClubSeason has     *)
(* their interleavings).                                                   *)
(***************************************************************************)
EXTENDS Naturals

CONSTANTS ClubPages, LeaguePages,
          MaxRounds,  \* bound on the submissions
          NoRow, Unloaded, NoAction

VARIABLES profile,  \* the row: [status, late] or NoRow
          round,    \* the submissions so far
          club,     \* per page of the club: what it shows, its dialog, its mutation
          league    \* per page of a league admin: what it shows, of which round, and its dialog

vars == <<profile, round, club, league>>

Status == {"draft", "submitted", "resubmitted", "reviewed", "approved", "returned"}
Decisions == {"reviewed", "approved", "returned"}

TypeOK ==
  /\ profile \in [status : Status, late : BOOLEAN] \cup {NoRow}
  /\ round \in 0..MaxRounds
  /\ club \in [ClubPages -> [shown : Status \cup {NoRow, Unloaded}, warning : BOOLEAN,
                             step : {"idle", "create", "list", "submit"}]]
  /\ league \in [LeaguePages -> [shown : Status \cup {NoRow, Unloaded}, round : 0..MaxRounds,
                                 action : Decisions \cup {NoAction}]]

Init ==
  /\ profile = NoRow /\ round = 0
  /\ club = [p \in ClubPages |-> [shown |-> Unloaded, warning |-> FALSE, step |-> "idle"]]
  /\ league = [q \in LeaguePages |-> [shown |-> Unloaded, round |-> 0, action |-> NoAction]]

-----------------------------------------------------------------------------
\* The page of the club

Goto(p, step) == club' = [club EXCEPT ![p].step = step]
Current == IF profile = NoRow THEN NoRow ELSE profile.status

\* Mutant: the list is fetched once.
FirstLoad(p) ==
  /\ club[p].shown = Unloaded
  /\ club' = [club EXCEPT ![p].shown = Current]
  /\ UNCHANGED <<profile, round, league>>

\* The ["profiles"] query answers, the first time or after it was stale or invalidated.
Load(p) ==
  /\ club' = [club EXCEPT ![p].shown = Current]
  /\ UNCHANGED <<profile, round, league>>

\* An empty list looks like one that is not there yet.
NoProfile(p) == club[p].shown \in {NoRow, Unloaded}
Offered(p) == NoProfile(p) \/ club[p].shown \in {"draft", "returned"}

FirstStep(p) == IF NoProfile(p) THEN "create" ELSE "submit"

\* The button.  Whether the window is open was computed when the page was last rendered.
Click(p, open) ==
  /\ Offered(p) /\ club[p].step = "idle" /\ ~club[p].warning
  /\ IF open THEN Goto(p, FirstStep(p)) ELSE club' = [club EXCEPT ![p].warning = TRUE]
  /\ UNCHANGED <<profile, round, league>>

SubmitAnyway(p) ==
  /\ club[p].warning /\ club[p].step = "idle"
  /\ club' = [club EXCEPT ![p].warning = FALSE, ![p].step = FirstStep(p)]
  /\ UNCHANGED <<profile, round, league>>

Dismiss(p) ==
  /\ club[p].warning
  /\ club' = [club EXCEPT ![p].warning = FALSE]
  /\ UNCHANGED <<profile, round, league>>

\* POST /club-season-profiles/ answers 409 if there is one.
Create(p) ==
  /\ club[p].step = "create"
  /\ IF profile = NoRow
     THEN profile' = [status |-> "draft", late |-> FALSE] /\ Goto(p, "list")
     ELSE Goto(p, "idle") /\ UNCHANGED profile
  /\ UNCHANGED <<round, league>>

List(p) ==
  /\ club[p].step = "list"
  /\ Goto(p, IF profile = NoRow THEN "idle" ELSE "submit")
  /\ UNCHANGED <<profile, round, league>>

\* POST .../submit/, from more states than the button is offered in.
Submittable == {"draft", "returned", "reviewed"}

Submit(p, late) ==
  /\ club[p].step = "submit"
  /\ IF profile # NoRow /\ profile.status \in Submittable
     THEN /\ round < MaxRounds /\ round' = round + 1
          /\ profile' = [status |-> IF profile.status = "draft" THEN "submitted" ELSE "resubmitted",
                         late |-> late]
     ELSE UNCHANGED <<profile, round>>
  /\ Goto(p, "idle")
  /\ UNCHANGED league

\* The request or its answer is lost, or too few players are registered.
Fail(p) ==
  /\ club[p].step # "idle"
  /\ Goto(p, "idle")
  /\ UNCHANGED <<profile, round, league>>

LoseCreated(p) ==
  /\ club[p].step = "create" /\ profile = NoRow
  /\ profile' = [status |-> "draft", late |-> FALSE]
  /\ Goto(p, "idle")
  /\ UNCHANGED <<round, league>>

-----------------------------------------------------------------------------
\* The page of a league admin

LoadLeague(q) ==
  /\ league' = [league EXCEPT ![q].shown = Current, ![q].round = round]
  /\ UNCHANGED <<profile, round, club>>

canReview(q) == league[q].shown \in {"submitted", "resubmitted"}
canApprove(q) == league[q].shown = "reviewed"
canReturn(q) == league[q].shown \in {"submitted", "resubmitted", "reviewed"}

Open(q, target) ==
  /\ CASE target = "reviewed" -> canReview(q)
       [] target = "approved" -> canApprove(q)
       [] target = "returned" -> canReturn(q)
  /\ league[q].action = NoAction
  /\ league' = [league EXCEPT ![q].action = target]
  /\ UNCHANGED <<profile, round, club>>

\* Mutant: a dialog closes only when its request succeeds.
StaysOpen(q) == FALSE

Cancel(q) ==
  /\ league[q].action # NoAction
  /\ league' = [league EXCEPT ![q].action = NoAction]
  /\ UNCHANGED <<profile, round, club>>

\* Mutant: a submission is approved without a review.
HastyTransitions(status) ==
  IF status \in {"submitted", "resubmitted", "reviewed"} THEN Decisions ELSE {}

\* valid_from of POST .../transition/.
Transitions(status) ==
  CASE status \in {"submitted", "resubmitted"} -> {"reviewed", "returned"}
    [] status = "reviewed"                     -> {"approved", "returned"}
    [] OTHER                                   -> {}

\* Success closes the dialog; after an error it stays open.
Decide(q) ==
  /\ league[q].action # NoAction
  /\ IF profile # NoRow /\ league[q].action \in Transitions(profile.status)
     THEN /\ profile' = [profile EXCEPT !.status = league[q].action]
          /\ league' = [league EXCEPT ![q].action = NoAction]
     ELSE UNCHANGED <<profile, league>>
  /\ UNCHANGED <<round, club>>

\* The answer is lost.
LoseDecided(q) ==
  /\ league[q].action # NoAction
  /\ profile # NoRow /\ league[q].action \in Transitions(profile.status)
  /\ profile' = [profile EXCEPT !.status = league[q].action]
  /\ UNCHANGED <<round, club, league>>

\* Two clubs approve the unlock request of a late submission (unlock requests page).
Unlock ==
  /\ profile # NoRow /\ profile.late /\ profile.status \in {"submitted", "resubmitted"}
  /\ profile' = [profile EXCEPT !.status = "approved"]
  /\ UNCHANGED <<round, club, league>>

-----------------------------------------------------------------------------
ClubNext ==
  \E p \in ClubPages : \/ Load(p) \/ SubmitAnyway(p) \/ Dismiss(p)
                       \/ Create(p) \/ LoseCreated(p) \/ List(p) \/ Fail(p)
                       \/ \E yes \in BOOLEAN : Click(p, yes) \/ Submit(p, yes)

Next ==
  \/ ClubNext
  \/ \E q \in LeaguePages : \/ LoadLeague(q) \/ Cancel(q) \/ Decide(q) \/ LoseDecided(q)
                            \/ \E target \in Decisions : Open(q, target)
  \/ Unlock

Spec == Init /\ [][Next]_vars

\* Somebody at a page of the club and somebody at a page of the league keep trying; lists are
\* fetched again, and not every request fails.
ClubTries(p) ==
  /\ WF_vars(Load(p)) /\ WF_vars(\E open \in BOOLEAN : Click(p, open))
  /\ SF_vars(SubmitAnyway(p)) /\ SF_vars(Create(p))
  /\ SF_vars(List(p)) /\ SF_vars(\E late \in BOOLEAN : Submit(p, late))
LeagueTries(q) ==
  /\ WF_vars(LoadLeague(q))
  /\ WF_vars(\E target \in Decisions : Open(q, target))
  /\ SF_vars(Decide(q)) /\ WF_vars(Cancel(q))
Fairness == /\ \A p \in ClubPages : ClubTries(p)
            /\ \A q \in LeaguePages : LeagueTries(q)

FairSpec == Spec /\ Fairness

-----------------------------------------------------------------------------
Unsubmitted == profile = NoRow \/ profile.status \in {"draft", "returned"}
Submitted == profile # NoRow /\ profile.status \in {"submitted", "resubmitted"}
Decided == profile # NoRow /\ profile.status \in {"approved", "returned"}

\* The three requests of a submission may fail between any two of them, and meet another page's:
\* a club that tries again gets its squad submitted, whatever an earlier attempt left behind.
SquadGetsSubmitted == (Unsubmitted /\ round < MaxRounds) ~> ~Unsubmitted

\* The buttons of a page that may be out of date are enough for the league to decide.
SubmissionsAreDecided == Submitted ~> Decided
=============================================================================
