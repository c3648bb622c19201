----------------------------- MODULE MCKeyCache -----------------------------
(***************************************************************************)
(* A small instance of KeyCache, with the history of each lookup: whether  *)
(* its key has been published all the time, and whether no other thread    *)
(* has refreshed the cache in the meantime.                                *)
(***************************************************************************)
EXTENDS KeyCache

VARIABLE history

Refreshing(t) == lookup[t] # NoLookup /\ lookup[t].at \in {"fetch", "clear", "fill"}
NobodyElse(t) == \A u \in Threads \ {t} : ~Refreshing(u)

\* A lookup begins when its thread leaves NoLookup.
Begins(t) == lookup[t] = NoLookup

Follow(t) ==
  IF lookup'[t] = NoLookup THEN NoLookup
  ELSE [known    |-> (Begins(t) \/ history[t].known) /\ lookup'[t].key \in published',
        alone    |-> (Begins(t) \/ history[t].alone) /\ NobodyElse(t) /\ NobodyElse(t)']

MCInit == Init /\ history = [t \in Threads |-> NoLookup]
MCNext == Next /\ history' = [t \in Threads |-> Follow(t)]
MCSpec == MCInit /\ [][MCNext]_<<vars, history>>

\* "No lock is needed because all workers share the same cache dict": that is so of a lookup
\* during which no other thread refreshes the cache: it finds a published key, whatever
\* refreshes overlapped, failed or were overtaken before.
KnownKeyFoundAlone ==
  \A t \in Threads : At(t, "unknown") => ~history[t].known \/ ~history[t].alone
=============================================================================
