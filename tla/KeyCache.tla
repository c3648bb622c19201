------------------------------ MODULE KeyCache ------------------------------
(***************************************************************************)
(* The cache of Cognito's signing keys in app/dependencies/__init__.py: a  *)
(* dictionary and a time stamp that all request threads of a process share *)
(* without a lock.  A lookup refreshes the cache when it is empty or stale,*)
(* and once more when it does not hold the key.  A refresh fetches the keys*)
(* over HTTPS, clears the dictionary and fills it key by key; the          *)
(* interpreter may switch threads between any two of these statements.     *)
(***************************************************************************)
CONSTANTS Threads, Keys,
          Rotations,  \* sets of keys that Cognito publishes, one at a time
          NoLookup    \* a thread that looks no key up

VARIABLES published,  \* the keys that Cognito publishes now
          cache,      \* _jwks_by_kid
          stale,      \* more than _JWKS_TTL_S has passed since _jwks_fetched_at
          lookup      \* per thread

vars == <<published, cache, stale, lookup>>

\* A lookup is a record: at, the statement the thread is to execute; key; left, the keys of the
\* response it has not stored; forced, whether it is in its second refresh.
Init == /\ published \in Rotations
        /\ cache = {} /\ stale = TRUE
        /\ lookup = [t \in Threads |-> NoLookup]

At(t, label) == lookup[t] # NoLookup /\ lookup[t].at = label
Goto(t, label) == lookup' = [lookup EXCEPT ![t].at = label]

\* The process starts, and later on time passes and Cognito replaces its keys.
Age == /\ ~stale /\ stale' = TRUE
       /\ UNCHANGED <<published, cache, lookup>>

Rotate == /\ published' \in Rotations \ {published}
          /\ UNCHANGED <<cache, stale, lookup>>

\* _get_public_key(kid)
Start(t, k) ==
  /\ lookup[t] = NoLookup
  /\ lookup' = [lookup EXCEPT ![t] =
                  [at |-> IF cache = {} \/ stale THEN "fetch" ELSE "check",
                   key |-> k, left |-> {}, forced |-> FALSE]]
  /\ UNCHANGED <<published, cache, stale>>

Fetch(t) ==
  /\ At(t, "fetch")
  /\ lookup' = [lookup EXCEPT ![t].at = "clear", ![t].left = published]
  /\ UNCHANGED <<published, cache, stale>>

\* The call times out, or its response is no key set: the exception ends the request.  The
\* response is decoded after the dictionary was cleared.
Fails(t) ==
  /\ At(t, "fetch") \/ At(t, "fill")
  /\ lookup' = [lookup EXCEPT ![t].at = "failed", ![t].left = {}]
  /\ UNCHANGED <<published, cache, stale>>

Clear(t) ==
  /\ At(t, "clear") /\ Goto(t, "fill")
  /\ cache' = {}
  /\ UNCHANGED <<published, stale>>

Store(t, k) ==
  /\ At(t, "fill") /\ k \in lookup[t].left
  /\ cache' = cache \cup {k}
  /\ lookup' = [lookup EXCEPT ![t].left = @ \ {k}]
  /\ UNCHANGED <<published, stale>>

AfterRefresh(t) == IF lookup[t].forced THEN "get" ELSE "check"

\* The loop is over: the time of the fetch is noted and the refresh returns.
Refreshed(t) ==
  /\ At(t, "fill") /\ lookup[t].left = {}
  /\ stale' = FALSE
  /\ Goto(t, AfterRefresh(t))
  /\ UNCHANGED <<published, cache>>

\* Mutant: a key that is not in the cache is unknown.
NoForcedRefresh(k) == FALSE

NeedsRefresh(k) == k \notin cache

Check(t) ==
  /\ At(t, "check")
  /\ lookup' = [lookup EXCEPT ![t].at = IF NeedsRefresh(lookup[t].key) THEN "fetch" ELSE "get",
                              ![t].forced = NeedsRefresh(lookup[t].key)]
  /\ UNCHANGED <<published, cache, stale>>

Get(t) ==
  /\ At(t, "get")
  /\ Goto(t, IF lookup[t].key \in cache THEN "found" ELSE "unknown")
  /\ UNCHANGED <<published, cache, stale>>

\* The request goes on with the key, or ends with status 401 or 500.
Finish(t) ==
  /\ At(t, "found") \/ At(t, "unknown") \/ At(t, "failed")
  /\ lookup' = [lookup EXCEPT ![t] = NoLookup]
  /\ UNCHANGED <<published, cache, stale>>

Lookup(t) == \/ \E k \in Keys : Start(t, k) \/ Store(t, k)
             \/ Fetch(t) \/ Fails(t) \/ Clear(t) \/ Refreshed(t) \/ Check(t) \/ Get(t) \/ Finish(t)

Next == Age \/ Rotate \/ \E t \in Threads : Lookup(t)

Spec == Init /\ [][Next]_vars
=============================================================================
