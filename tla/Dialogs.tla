------------------------------- MODULE Dialogs -------------------------------
(***************************************************************************)
(* The dialogs of the dashboard: what becomes of a form between the click  *)
(* that opens it and the answer to its submission.  A dialog that the page *)
(* always mounts keeps its form, and its mutation, while it is closed; one *)
(* that is mounted for a target starts over each time, although requests of*)
(* an earlier one may still be under way.  A behaviour follows one dialog  *)
(* of one page.                                                            *)
(***************************************************************************)
EXTENDS DialogForms

CONSTANTS Targets,  \* what the dialog can be opened for: a user, a season, ...
          Own,      \* the one that the page is about: the club, the league, the player
          Fields, Values, Empty,
          Calls,    \* requests under way
          NoTarget, NoCall, NoValue

-----------------------------------------------------------------------------
VARIABLES kind,   \* fixed
          row,    \* per target: its fields on the server
          list,   \* the copy of row in the cache of the page
          open,   \* the target of the dialog, or NoTarget
          form,   \* its fields
          author, \* per field: the target that the dialog was open for when it was filled in
          saved,  \* history: the form is as it was when a submission of it succeeded
          call,   \* per call, or NoCall: what is submitted; whether it is the dialog that is
                  \* open, or its mutation, that waits for the answer
          meant,  \* history: what the user saved last, until somebody else changed it
          early   \* history: a form took its fields from a list that did not show that yet, or
                  \* was submitted while an earlier submission was under way

vars == <<kind, row, list, open, form, author, saved, call, meant, early>>

Form == [Fields -> Values]
Author == [Fields -> Targets \cup {NoTarget}]
Call == [target : Targets, form : Form, author : Author,
         again : BOOLEAN, here : BOOLEAN, mine : BOOLEAN, at : {"sent", "committed"}]

TypeOK ==
  /\ kind \in Kind
  /\ row \in [Targets -> Form] /\ list \in [Targets -> Form]
  /\ open \in Targets \cup {NoTarget}
  /\ form \in Form /\ author \in Author /\ saved \in BOOLEAN
  /\ call \in [Calls -> Call \cup {NoCall}]
  /\ meant \in [Targets -> [Fields -> Values \cup {NoValue}]] /\ early \in BOOLEAN

Blank == [f \in Fields |-> Empty]
Nobody == [f \in Fields |-> NoTarget]

Init ==
  /\ kind \in AllDialogs
  /\ row = [t \in Targets |-> Blank] /\ list = row
  /\ open = NoTarget /\ form = Blank /\ author = Nobody /\ saved = FALSE
  /\ call = [c \in Calls |-> NoCall]
  /\ meant = [t \in Targets |-> [f \in Fields |-> NoValue]] /\ early = FALSE

-----------------------------------------------------------------------------
\* The form takes the fields of a target that it edits from the list.
Defaults(t) == IF kind.edits THEN list[t] ELSE Blank

\* The user has emptied the field and saved the form, which did not say so.
Omitted(t, f) == kind.omits /\ meant[t][f] = Empty

Behind(t) ==
  \/ \E c \in Calls : call[c] # NoCall /\ call[c].target = t
  \/ \E f \in Fields : meant[t][f] \notin {NoValue, list[t][f]} /\ ~Omitted(t, f)

Mount(t) == /\ form' = Defaults(t) /\ author' = Nobody /\ saved' = FALSE
            /\ early' = (early \/ (kind.edits /\ Behind(t)))

Open(t) ==
  /\ open = NoTarget
  /\ kind.edits /\ kind.form = "page" => t = Own
  /\ open' = t
  /\ IF kind.form = "target" THEN Mount(t) ELSE UNCHANGED <<form, author, saved, early>>
  /\ UNCHANGED <<kind, row, list, call, meant>>

Type(f, v) ==
  /\ open # NoTarget
  /\ form' = [form EXCEPT ![f] = v] /\ author' = [author EXCEPT ![f] = open]
  /\ saved' = FALSE
  /\ UNCHANGED <<kind, row, list, open, call, meant, early>>

Busy == \E c \in Calls : call[c] # NoCall /\ call[c].mine

\* Its requests go on.
Left(unmounted) ==
  [c \in Calls |-> IF call[c] = NoCall THEN NoCall
                   ELSE [call[c] EXCEPT !.here = FALSE, !.mine = @ /\ ~unmounted]]

Emptied(event) ==
  IF kind.form = "target" \/ event \in kind.empties THEN form' = Blank /\ author' = Nobody /\ saved' = FALSE
  ELSE UNCHANGED <<form, author>> /\ saved' = (event = "success" \/ saved)

Close(way) ==
  /\ open # NoTarget /\ (Busy => way \notin kind.barred)
  /\ open' = NoTarget
  /\ Emptied(way)
  /\ call' = Left(kind.mutation = "target")
  /\ UNCHANGED <<kind, row, list, meant, early>>

\* Another page and back: everything is mounted anew.
Remount(t) ==
  /\ open = NoTarget
  /\ kind.edits => t = Own
  /\ IF kind.form = "page" THEN Mount(t) ELSE UNCHANGED <<form, author, saved, early>>
  /\ call' = Left(TRUE)
  /\ UNCHANGED <<kind, row, list, open, meant>>

-----------------------------------------------------------------------------
\* isPending, or a state of its own, disables the button.
Submit(c) ==
  /\ open # NoTarget /\ ~Busy /\ call[c] = NoCall
  /\ call' = [call EXCEPT ![c] = [target |-> open, form |-> form, author |-> author,
                                  again |-> saved, here |-> TRUE, mine |-> TRUE, at |-> "sent"]]
  /\ early' = (early \/ (kind.edits /\ \E d \in Calls : call[d] # NoCall))
  /\ UNCHANGED <<kind, row, list, open, form, author, saved, meant>>

\* All fields of the form that it sends are saved, whichever the user has filled in.
Saved(c) ==
  LET t == call[c].target
      sent == [f \in Fields |-> IF kind.omits /\ call[c].form[f] = Empty THEN row[t][f]
                                ELSE call[c].form[f]]
  IN  /\ row' = [row EXCEPT ![t] = sent]
      /\ meant' = [meant EXCEPT ![t] = [f \in Fields |-> IF call[c].author[f] = t
                                                         THEN call[c].form[f] ELSE @[f]]]

Commit(c) ==
  /\ call[c] # NoCall /\ call[c].at = "sent"
  /\ call' = [call EXCEPT ![c].at = "committed"]
  /\ IF kind.edits THEN Saved(c) ELSE UNCHANGED <<row, meant>>
  /\ UNCHANGED <<kind, list, open, form, author, saved, early>>

\* The callback closes the dialog and empties the form, whatever they are used for by now.
Ends(c, event) ==
  /\ call' = [[d \in Calls |-> IF event \in kind.closes THEN Left(kind.mutation = "target")[d]
                               ELSE call[d]] EXCEPT ![c] = NoCall]
  /\ open' = IF event \in kind.closes THEN NoTarget ELSE open
  /\ IF event \in kind.closes THEN Emptied(event) ELSE UNCHANGED <<form, author, saved>>
  /\ UNCHANGED <<kind, row, list, meant, early>>

Answer(c) == call[c] # NoCall /\ call[c].at = "committed" /\ Ends(c, "success")
Fail(c) == call[c] # NoCall /\ Ends(c, "error")

\* The list is fetched, at the latest because it was invalidated.
Load == /\ list' = row
        /\ UNCHANGED <<kind, row, open, form, author, saved, call, meant, early>>

\* Another admin.
Foreign(t, f, v) ==
  /\ kind.edits /\ row[t][f] # v
  /\ row' = [row EXCEPT ![t][f] = v] /\ meant' = [meant EXCEPT ![t][f] = NoValue]
  /\ UNCHANGED <<kind, list, open, form, author, saved, call, early>>

Next ==
  \/ Load
  \/ \E t \in Targets : Open(t) \/ Remount(t)
  \/ \E f \in Fields, v \in Values : Type(f, v) \/ \E t \in Targets : Foreign(t, f, v)
  \/ \E way \in Ways : Close(way)
  \/ \E c \in Calls : Submit(c) \/ Commit(c) \/ Answer(c) \/ Fail(c)

Spec == Init /\ [][Next]_vars

-----------------------------------------------------------------------------
\* Saving a form puts none of its other fields back to what it was before an earlier save: the
\* dialogs of the club, the league and the name are mounted with the page and go on from their
\* own fields, that of a season must not be opened before the list came back.  Not saved at all is
\* that the user has emptied a field which the form of the club omits when it is empty.
OwnSavesStand ==
  early \/ \A t \in Targets, f \in Fields :
             meant[t][f] \in {NoValue, row[t][f]} \/ Omitted(t, f)

\* What was added with one submission that was answered is not added again by the next: the form
\* is empty by then, although the user may have closed the dialog and opened it meanwhile.
NotSubmittedAgain == kind.edits \/ \A c \in Calls : call[c] # NoCall => ~call[c].again

\* A comment, a reason or a file that was given for one row is not submitted for another, by the
\* dialogs that are mounted for a row.
TypedForTarget ==
  kind \in RowDialogs =>
    \A c \in Calls, f \in Fields :
      call[c] # NoCall => call[c].author[f] \in {NoTarget, call[c].target}
=============================================================================
