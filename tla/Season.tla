------------------------------- MODULE Season -------------------------------
(***************************************************************************)
(* A season row and the status computed from it.  No status is stored: the *)
(* property in app/models/season.py compares the dates of the row with the *)
(* clock each time it is read, so a season changes status without a write. *)
(***************************************************************************)
EXTENDS Integers

CONSTANT NoDate  \* season_end_date is nullable

ASSUME NoDateAssumption == NoDate \notin Int

FieldType == [registration_open_at  |-> Nat,
              registration_close_at |-> Nat,
              season_end_date       |-> Nat \cup {NoDate},
              max_squad_size        |-> Nat,
              is_archived           |-> BOOLEAN]

SeasonRow == [registration_open_at  : Nat,
              registration_close_at : Nat,
              season_end_date       : Nat \cup {NoDate},
              max_squad_size        : Nat,
              is_archived           : BOOLEAN]

\* A partial update: the fields that a SeasonUpdate body sets, and no other.
IsPatch(patch) ==
  /\ DOMAIN patch \subseteq DOMAIN FieldType
  /\ \A f \in DOMAIN patch : patch[f] \in FieldType[f]

Status(row, now) ==
  IF row.is_archived                       THEN "archived"
  ELSE IF now < row.registration_open_at   THEN "draft"
  ELSE IF now <= row.registration_close_at THEN "open"
  ELSE IF row.season_end_date = NoDate     THEN "active"
  ELSE IF now <= row.season_end_date       THEN "active"
  ELSE "closed"

\* The roster is locked while the season is being played.
IsLocked(row, now) == Status(row, now) = "active"

RegistrationWindowOpen(row, now) == Status(row, now) = "open"

\* SeasonCreate.check_date_order: enforced on creation, not on update.
DatesInOrder(row) ==
  /\ row.registration_open_at < row.registration_close_at
  /\ \/ row.season_end_date = NoDate
     \/ row.registration_close_at < row.season_end_date

\* The columns an UPDATE writes: those whose new value differs from the one
\* that the handler loaded.
Changed(row, patch) ==
  [f \in {g \in DOMAIN patch : patch[g] # row[g]} |-> patch[f]]

Patched(row, patch) ==
  [f \in DOMAIN row |-> IF f \in DOMAIN patch THEN patch[f] ELSE row[f]]
=============================================================================
