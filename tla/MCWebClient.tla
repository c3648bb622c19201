----------------------------- MODULE MCWebClient -----------------------------
(***************************************************************************)
(* The web client beside the pages of MCPages: the notifications that are  *)
(* polled (QueryCache), the submission of a squad by a club and a league   *)
(* that keep trying (SquadSubmission), and the forms with a file           *)
(* (DocumentUpload).  They share no state, so that not their product but   *)
(* their sum is explored: a behaviour follows the part that it has drawn,  *)
(* and in the others, where fairness is assumed, there is nothing left to  *)
(* be done.                                                                *)
(***************************************************************************)
EXTENDS Pages, DocumentUpload

CONSTANTS Writes, Entries, NoData, NoFetch, NoWrite,
          ClubPages, LeaguePages, MaxRounds, NoRow, Unloaded, NoAction

\* The notifications of every kind of viewer.
MCEntries ==
  {EntryOf(v, "notifications") : v \in {SuperAdmin, LeagueAdmin, ClubAdmin, Member, FreePlayer}}

VARIABLES part,
          entry, open, data, fetch, write,
          profile, round, clubPage, leaguePage

Notices == INSTANCE QueryCache WITH place <- open
Squad == INSTANCE SquadSubmission WITH club <- clubPage, league <- leaguePage

noticesVars == <<entry, open, data, fetch, write>>
squadVars == <<profile, round, clubPage, leaguePage>>

Parts == {"notices", "squad", "upload"}

\* Only the part that is followed has a choice of initial states.  The notifications that are
\* not followed are shown nowhere, a squad that is not followed is approved.
Follows(p) == part = p
AFlow == CHOOSE f \in Flows : TRUE

ClientInit ==
  /\ part \in Parts
  /\ IF Follows("notices") THEN Notices!Init
     ELSE /\ entry = [places |-> {}, framed |-> FALSE, polled |-> FALSE, impatient |-> FALSE]
          /\ open = NoData /\ data = NoData /\ fetch = NoFetch
          /\ write = [w \in Writes |-> NoWrite]
  /\ IF Follows("squad") THEN Squad!Init
     ELSE /\ profile = [status |-> "approved", late |-> FALSE] /\ round = 1
          /\ clubPage = [p \in ClubPages |-> [shown |-> "approved", warning |-> FALSE, step |-> "idle"]]
          /\ leaguePage = [q \in LeaguePages |->
                             [shown |-> "approved", round |-> 1, action |-> NoAction]]
  /\ Follows("upload") \/ flow = AFlow
  /\ Init

ClientNext ==
  /\ UNCHANGED part
  /\ \/ Follows("notices") /\ Notices!Next
        /\ UNCHANGED <<squadVars, vars>>
     \/ Follows("squad") /\ Squad!Next
        /\ UNCHANGED <<noticesVars, vars>>
     \/ Follows("upload") /\ Next
        /\ UNCHANGED <<noticesVars, squadVars>>

ClientSpec ==
  /\ ClientInit
  /\ [][ClientNext]_<<part, noticesVars, squadVars, vars>>
  /\ Notices!Fairness /\ Squad!Fairness

-----------------------------------------------------------------------------
\* QueryCache: what happens elsewhere shows in the notifications in the end.
NoticesShown == Notices!NoticesShown

\* SquadSubmission: a club that keeps trying gets its squad submitted, whatever requests of
\* earlier attempts failed.
SquadGetsSubmitted == Squad!SquadGetsSubmitted

\* SquadSubmission: the buttons of a page that may be out of date are enough for the league to
\* decide.
SubmissionsAreDecided == Squad!SubmissionsAreDecided
=============================================================================
