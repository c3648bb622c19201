------------------------------ MODULE MCTokens ------------------------------
(***************************************************************************)
(* The tokens of one user and the keys they are verified with: Session as  *)
(* in MCSession and KeyCache as in MCKeyCache.  They share no state, so    *)
(* that not their product but their sum is explored: a behaviour follows   *)
(* the part that it has drawn, and the other keeps its initial state.      *)
(***************************************************************************)
EXTENDS MCSession

CONSTANTS Threads, Keys, Rotations, NoLookup, k1, k2, k3

\* k1 is replaced by k2; k3 is a key of another user pool.
MCRotations == {{k1}, {k1, k2}, {k2}}

TokensSymmetry == Permutations(ApiClients) \cup Permutations(Threads)

\* A rotation is a set of keys.
ASSUME KeysAssumption == Rotations \subseteq SUBSET Keys

VARIABLES part, published, cache, stale, lookup, lookupHistory

Keyring == INSTANCE MCKeyCache WITH history <- lookupHistory

sessionVars == <<vars, history>>
keyVars == <<published, cache, stale, lookup, lookupHistory>>

TokensInit ==
  /\ part \in {"session", "keys"}
  /\ IF part = "keys" THEN TRUE ELSE published = {k1}
  /\ MCInit /\ Keyring!MCInit

TokensNext ==
  /\ UNCHANGED part
  /\ \/ part = "session" /\ MCNext /\ UNCHANGED keyVars
     \/ part = "keys" /\ Keyring!MCNext /\ UNCHANGED sessionVars

TokensSpec == TokensInit /\ [][TokensNext]_<<part, sessionVars, keyVars>>

-----------------------------------------------------------------------------
\* KeyCache: a lookup during which no other thread refreshes the cache finds a published key.
KnownKeyFoundAlone == Keyring!KnownKeyFoundAlone
=============================================================================
