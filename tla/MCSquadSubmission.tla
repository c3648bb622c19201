-------------------------- MODULE MCSquadSubmission --------------------------
(***************************************************************************)
(* SquadSubmission with two history variables: unseen, the pages of league *)
(* admins that have decided and not fetched the list since, and rash, that *)
(* one of them opened a dialog then, or that an answer to a decision was   *)
(* lost.                                                                   *)
(***************************************************************************)
EXTENDS SquadSubmission

VARIABLES unseen, rash

MCInit == Init /\ unseen = {} /\ rash = FALSE

Loads(q) == LoadLeague(q) /\ unseen' = unseen \ {q} /\ UNCHANGED rash
Opens(q) == /\ \E target \in Decisions : Open(q, target)
            /\ rash' = (rash \/ q \in unseen) /\ UNCHANGED unseen
Decides(q) == Decide(q) /\ unseen' = unseen \cup {q} /\ UNCHANGED rash
Loses(q) == LoseDecided(q) /\ rash' = TRUE /\ UNCHANGED unseen

MCNext ==
  \/ \E q \in LeaguePages : Loads(q) \/ Opens(q) \/ Decides(q) \/ Loses(q)
  \/ (ClubNext \/ Unlock \/ \E q \in LeaguePages : Cancel(q)) /\ UNCHANGED <<unseen, rash>>

MCSpec == MCInit /\ [][MCNext]_<<vars, unseen, rash>>

\* A league admin who works alone, in one tab, and lets the list come back between two decisions,
\* approves the submission that the page shows (or a late one is unlocked), not one that the club
\* made since, although the club may resubmit what is being reviewed.
ApprovesWhatWasShown ==
  [][(profile' # NoRow /\ profile'.status = "approved" /\ Current # "approved")
       => \/ rash
          \/ profile.late /\ Submitted
          \/ \E q \in LeaguePages : league[q].action = "approved" /\ league[q].round = round]_vars
=============================================================================
