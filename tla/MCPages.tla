------------------------------- MODULE MCPages -------------------------------
(***************************************************************************)
(* What the pages of the dashboard show, the forms of their dialogs, the   *)
(* submission of squads, and the lists of what waits for a decision:       *)
(* QueryCache with the entries of MCQueryCache, Dialogs, MCSquadSubmission *)
(* and Worklists.  They share no state, so that not their product but their*)
(* sum is explored: a behaviour follows the part that it has drawn, and the*)
(* others keep their initial state.  Writes, calls and pages of the club   *)
(* are the same two model values, which may be swapped, and so may the     *)
(* clubs.                                                                  *)
(***************************************************************************)
EXTENDS MCQueryCache, Worklists

CONSTANTS Targets, Own, Fields, Values, Empty, Calls, NoTarget, NoCall, NoValue,
          ClubPages, LeaguePages, MaxRounds, NoRow, Unloaded, NoAction

VARIABLES part,
          kind, row, list, open, form, author, saved, call, meant, early,
          profile, round, club, league, unseen, rash

Dialog == INSTANCE Dialogs
Squad == INSTANCE MCSquadSubmission

ASSUME PagesAssumption ==
  Empty \in Values /\ MaxRounds \in Nat /\ NoAction \notin Squad!Decisions

dialogVars == <<kind, row, list, open, form, author, saved, call, meant, early>>
squadVars == <<profile, round, club, league, unseen, rash>>

ADialog == CHOOSE k \in Dialog!AllDialogs : TRUE

\* Only the part that is followed is given an entry.
PagesInit ==
  /\ part \in {"cache", "dialogs", "squad", "lists"}
  /\ IF part = "cache" THEN Init
     ELSE /\ entry = NoData /\ place = NoData /\ data = NoData /\ fetch = NoFetch
          /\ write = [w \in Writes |-> NoWrite]
  /\ IF part = "dialogs" THEN TRUE ELSE kind = ADialog
  /\ IF part = "lists" THEN TRUE
     ELSE clubOf = [p \in Players |-> NoClub]
  /\ Dialog!Init /\ Squad!MCInit /\ ListsInit

PagesNext ==
  /\ UNCHANGED part
  /\ \/ part = "cache" /\ Next /\ UNCHANGED <<dialogVars, squadVars, listVars>>
     \/ part = "dialogs" /\ Dialog!Next /\ UNCHANGED <<vars, squadVars, listVars>>
     \/ part = "squad" /\ Squad!MCNext /\ UNCHANGED <<vars, dialogVars, listVars>>
     \/ part = "lists" /\ ListsNext /\ UNCHANGED <<vars, dialogVars, squadVars>>

pageVars == <<part, vars, dialogVars, squadVars, listVars>>

PagesSpec == PagesInit /\ [][PagesNext]_pageVars

PageSymmetry == Symmetry \cup Permutations(Clubs)

\* Bound of the lists: the rows that are pending at a time.
FewRows == Cardinality(invites) + Cardinality(requests) <= 2

-----------------------------------------------------------------------------
\* Dialogs: saving a form puts nothing back to what it was before an earlier save by the user.
OwnSavesStand == Dialog!OwnSavesStand

\* Dialogs: what was added with one submission is not added again by the next.
NotSubmittedAgain == Dialog!NotSubmittedAgain

\* Dialogs: what was given for one row is not submitted for another, by the dialogs of a row.
TypedForTarget == Dialog!TypedForTarget

\* Squads: the league approves the submission that its page shows.
ApprovesWhatWasShown == Squad!ApprovesWhatWasShown
=============================================================================
