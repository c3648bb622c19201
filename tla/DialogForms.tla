----------------------------- MODULE DialogForms -----------------------------
(***************************************************************************)
(* The dialogs of the dashboard, by what keeps, empties and closes them.   *)
(***************************************************************************)
Ways == {"overlay", "cancel"}

\* Who mounts the form and who the mutation; whether a submission overwrites the fields of its
\* target, and whether it omits the fields that are empty, which the API then leaves as they are;
\* what empties the form and what closes the dialog, besides the user; and the ways of closing it
\* that are barred while a request is under way.
Kind == [form : {"page", "target"}, mutation : {"page", "target"}, edits : BOOLEAN, omits : BOOLEAN,
         empties : SUBSET {"success", "overlay"}, closes : SUBSET {"success", "error"},
         barred : SUBSET Ways]

PageForm(empties) ==
  [form |-> "page", mutation |-> "page", edits |-> FALSE, omits |-> FALSE,
   empties |-> empties, closes |-> {"success"}, barred |-> {}]
TargetForm(mutation, barred) ==
  [form |-> "target", mutation |-> mutation, edits |-> FALSE, omits |-> FALSE,
   empties |-> {}, closes |-> {"success"}, barred |-> barred]
Edits(form) == [form EXCEPT !.edits = TRUE]

\* Short name, e-mail address and telephone; the other fields are sent as those of the league are.
EditClubDialog == [Edits(PageForm({})) EXCEPT !.omits = TRUE]

\* Mutant: the form goes back to the values it was mounted with, as the forms below do.
EditLeagueInfoReset == Edits(PageForm({"success"}))
EditLeagueInfoDialog == Edits(PageForm({}))
EditNameDialog == Edits(PageForm({}))
EditSeasonDialog == Edits(TargetForm("target", {}))

\* Mutant: the form is not emptied.
CreateUserKept == PageForm({})
CreateUserDialog == PageForm({"success"})
CreateSeasonDialog == PageForm({"success"})
CreateClubDialog == PageForm({"success"})
CreateRegistrationDialog == PageForm({"success"})
AddStaffDialog == PageForm({"success"})
AddClubStaffDialog == PageForm({"success"})
AddDocDialog == PageForm({"success", "overlay"})
InviteDialog == PageForm({"success"})
AssignRoleDialog == PageForm({"success"})
RevokeRoleDialog == PageForm({"success", "overlay"})

ArchiveSeasonDialog == TargetForm("target", {})
DeleteSeasonDialog == [TargetForm("target", {}) EXCEPT !.closes = {"success", "error"}]

\* Mutant: the page mounts the dialog, as it does for roles.
TransitionOfPage == PageForm({"success"})
TransitionDialog == TargetForm("target", {})
ConfirmDialog == TargetForm("page", {"cancel"})

ReleaseDialog == TargetForm("target", Ways)
UploadDocumentDialog == TargetForm("target", Ways)

RowDialogs == {EditSeasonDialog, ArchiveSeasonDialog, DeleteSeasonDialog, TransitionDialog,
               ConfirmDialog, ReleaseDialog, UploadDocumentDialog}

AllDialogs ==
  RowDialogs \cup
  {EditClubDialog, EditLeagueInfoDialog, EditNameDialog, CreateUserDialog, CreateSeasonDialog,
   CreateClubDialog, CreateRegistrationDialog, AddStaffDialog, AddClubStaffDialog, AddDocDialog,
   InviteDialog, AssignRoleDialog, RevokeRoleDialog}
=============================================================================
