------------------------------ MODULE MCOutbox ------------------------------
(* Small instances of Outbox. *)
EXTENDS Outbox, TLC

CONSTANTS r1, r2, c1, w1

TwoEvents == {1, 2}
ThreeMessages == 1 .. 3
\* One type with a template and one without.
TwoTypes == {"registration.requested", "club_membership.invited"}
InviteType == {"club_membership.invited"}

Symmetry == Permutations(Relays)
=============================================================================
