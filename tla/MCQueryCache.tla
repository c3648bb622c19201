---------------------------- MODULE MCQueryCache ----------------------------
(***************************************************************************)
(* QueryCache with the entries of the keys of the pages, for each kind of  *)
(* viewer.  Entries that look alike, and places that are alike to an entry,*)
(* coincide.                                                               *)
(***************************************************************************)
EXTENDS QueryCache, Pages

CONSTANTS w1, w2

Symmetry == Permutations(Writes)

MCViewers == {SuperAdmin, LeagueAdmin, ClubAdmin, Member, FreePlayer}
MCEntries == {EntryOf(v, k) : v \in MCViewers, k \in DOMAIN EndpointReads}
=============================================================================
