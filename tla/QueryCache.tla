----------------------------- MODULE QueryCache -----------------------------
(***************************************************************************)
(* What one tab of the web client knows of the server: an entry of the     *)
(* TanStack query cache (components/shared/QueryProvider.tsx, with the     *)
(* useQuery and useMutation calls of the pages).  Entries are independent, *)
(* so a behaviour follows the entry of one key for one viewer.             *)
(*                                                                         *)
(* A write is one use of a mutation.  The server answers a fetch from the  *)
(* tables as they are when it reads them; "missing" are the writes to      *)
(* these tables that a fetch, or the data it brought, does not show.  A    *)
(* key stands for all keys that the code invalidates with it: ["club-staff"*)
(* club] for ["club-staff", club, season], and so on.                      *)
(***************************************************************************)
CONSTANTS Writes,
          Entries,  \* see Entry
          NoData, NoFetch, NoWrite

\* What a use of a mutation does to the entry: it writes to the tables behind the key; its
\* onSuccess invalidates the key; or reloads the application.
Kind == [writes : BOOLEAN, invalidates : BOOLEAN, reloads : BOOLEAN]

\* A page, or a part of one, is to an entry whether it watches the key, and what its mutations
\* do; an entry is the places there are, whether the frame around the pages watches the key,
\* whether a refetchInterval polls it, and whether its query has retry: false.
Place == [watches : BOOLEAN, offers : SUBSET Kind]
Entry == [places : SUBSET Place, framed : BOOLEAN, polled : BOOLEAN, impatient : BOOLEAN]

VARIABLES entry,  \* fixed
          place,  \* the page that is open
          data,   \* of the entry: [missing, late, stale] or NoData
          fetch,  \* the request under way: [at, missing, late, cause] or NoFetch
          write   \* per write: [by, own, at] or NoWrite

vars == <<entry, place, data, fetch, write>>

Causes == {"no_cookie", "refused", "down"}

Data == [missing : SUBSET Writes, late : SUBSET Writes, stale : BOOLEAN]
Fetch == [at : {"sent", "read"}, missing : SUBSET Writes, late : SUBSET Writes,
          cause : Causes \cup {"none"}]

\* own: it was offered where the key is watched.
Write == [by : Kind, own : BOOLEAN,
          at : {"sent", "committed", "answered", "failed", "foreign"}]

ASSUME QueryCacheAssumption == Entries \subseteq Entry /\ NoWrite \notin Write

TypeOK ==
  /\ entry \in Entry /\ place \in entry.places
  /\ data \in Data \cup {NoData}
  /\ fetch \in Fetch \cup {NoFetch}
  /\ write \in [Writes -> Write \cup {NoWrite}]

Started == [at |-> "sent", missing |-> {}, late |-> {}, cause |-> "none"]
Watched == entry.framed \/ place.watches
Stale == data # NoData => data.stale

Init == /\ entry \in Entries /\ place \in entry.places
        /\ data = NoData
        /\ fetch = IF Watched THEN Started ELSE NoFetch
        /\ write = [w \in Writes |-> NoWrite]

At(w, step) == write[w] # NoWrite /\ write[w].at = step
Pending(w) == At(w, "sent") \/ At(w, "committed")

-----------------------------------------------------------------------------
\* The page that opens mounts its queries: each fetches unless its data are fresh or on their way.
Navigate(p) ==
  /\ p \in entry.places /\ place' = p
  /\ fetch' = IF p.watches /\ Stale /\ fetch = NoFetch THEN Started ELSE fetch
  /\ UNCHANGED <<entry, data, write>>

\* A full reload starts with an empty cache; answers to requests under way are lost.
Emptied ==
  /\ data' = NoData
  /\ fetch' = IF Watched THEN Started ELSE NoFetch

Abandoned(w) == IF Pending(w) THEN [write[w] EXCEPT !.at = "failed"] ELSE write[w]

Reload ==
  /\ Emptied
  /\ write' = [w \in Writes |-> Abandoned(w)]
  /\ UNCHANGED <<entry, place>>

\* staleTime has passed.
Age == /\ ~Stale
       /\ data' = [data EXCEPT !.stale = TRUE]
       /\ UNCHANGED <<entry, place, fetch, write>>

\* The window gets the focus back.
Focus == /\ Watched /\ Stale /\ fetch = NoFetch
         /\ fetch' = Started
         /\ UNCHANGED <<entry, place, data, write>>

\* The refetchInterval of a mounted query passes.
Poll == /\ entry.polled /\ Watched /\ fetch = NoFetch
        /\ fetch' = Started
        /\ UNCHANGED <<entry, place, data, write>>

\* Data that no page watches are dropped in the end.
Collect == /\ data # NoData /\ ~Watched /\ fetch = NoFetch
           /\ data' = NoData
           /\ UNCHANGED <<entry, place, fetch, write>>

-----------------------------------------------------------------------------
\* A fetch: the server reads its tables, and the answer arrives or does not.
Read == /\ fetch # NoFetch /\ fetch.at = "sent"
        /\ fetch' = [fetch EXCEPT !.at = "read"]
        /\ UNCHANGED <<entry, place, data, write>>

Arrive == /\ fetch # NoFetch /\ fetch.at = "read"
          /\ data' = [missing |-> fetch.missing, late |-> fetch.late, stale |-> FALSE]
          /\ fetch' = NoFetch
          /\ UNCHANGED <<entry, place, write>>

\* One more try, unless the error says "Unauthorized": that is what the proxy answers to a
\* request without a cookie.
Retries(cause) == fetch.cause = "none" /\ cause # "no_cookie" /\ ~entry.impatient

Fail(cause) ==
  /\ fetch # NoFetch
  /\ fetch' = IF Retries(cause) THEN [Started EXCEPT !.cause = cause] ELSE NoFetch
  /\ UNCHANGED <<entry, place, data, write>>

-----------------------------------------------------------------------------
\* A mutation: sent, committed by the server, answered.
Send(w, m) ==
  /\ write[w] = NoWrite /\ m \in place.offers
  /\ write' = [write EXCEPT ![w] = [by |-> m, own |-> place.watches, at |-> "sent"]]
  /\ UNCHANGED <<entry, place, data, fetch>>

\* A write to the tables behind the key: the data, and a fetch that has read them, miss it.
Missed(w) ==
  /\ data' = IF data = NoData THEN data ELSE [data EXCEPT !.missing = @ \cup {w}]
  /\ fetch' = IF fetch = NoFetch \/ fetch.at = "sent" THEN fetch
              ELSE [fetch EXCEPT !.missing = @ \cup {w}]

Commit(w) ==
  /\ At(w, "sent")
  /\ write' = [write EXCEPT ![w].at = "committed"]
  /\ IF write[w].by.writes THEN Missed(w) ELSE UNCHANGED <<data, fetch>>
  /\ UNCHANGED <<entry, place>>

\* The server refuses, or the answer is lost: the tab shows an error and invalidates nothing.
Break(w) ==
  /\ Pending(w)
  /\ write' = [write EXCEPT ![w].at = "failed"]
  /\ UNCHANGED <<entry, place, data, fetch>>

\* Another tab, another user or a worker writes.
Foreign == [writes |-> TRUE, invalidates |-> FALSE, reloads |-> FALSE]

Other(w) ==
  /\ write[w] = NoWrite
  /\ write' = [write EXCEPT ![w] = [by |-> Foreign, own |-> FALSE, at |-> "foreign"]]
  /\ Missed(w)
  /\ UNCHANGED <<entry, place>>

\* Mutant: a fetch under way is as good as a new one.
RefetchedLazily(w) == IF fetch = NoFetch THEN Started ELSE fetch

\* invalidateQueries: a watched entry is fetched again, in place of a fetch under way if there
\* are data to show in the meantime.  A first load goes on, and so does the fetch of an entry
\* that is not watched any more.
Refetched(w) ==
  IF Watched /\ (fetch = NoFetch \/ data # NoData) THEN Started
  ELSE IF fetch = NoFetch THEN fetch ELSE [fetch EXCEPT !.late = @ \cup {w}]

\* onSuccess.
Answer(w) ==
  /\ At(w, "committed")
  /\ IF write[w].by.reloads
     THEN /\ Emptied
          /\ write' = [[u \in Writes |-> Abandoned(u)] EXCEPT ![w] = [write[w] EXCEPT !.at = "answered"]]
     ELSE /\ write' = [write EXCEPT ![w].at = "answered"]
          /\ IF write[w].by.invalidates
             THEN /\ data' = IF data = NoData THEN data ELSE [data EXCEPT !.stale = TRUE]
                  /\ fetch' = Refetched(w)
             ELSE UNCHANGED <<data, fetch>>
  /\ UNCHANGED <<entry, place>>

-----------------------------------------------------------------------------
Next == \/ Reload \/ Age \/ Focus \/ Poll \/ Collect \/ Read \/ Arrive
        \/ \E p \in entry.places : Navigate(p)
        \/ \E cause \in Causes : Fail(cause)
        \/ \E w \in Writes : \/ Commit(w) \/ Break(w) \/ Answer(w) \/ Other(w)
                             \/ \E m \in place.offers : Send(w, m)

Spec == Init /\ [][Next]_vars

\* A tab in front polls, and not every request and not every answer is lost.
Fairness ==
  WF_vars(Poll) /\ SF_vars(Read) /\ SF_vars(Arrive)

FairSpec == Spec /\ Fairness

-----------------------------------------------------------------------------
\* The entry is stale, or shows the write, or came from a fetch that was under way, and could
\* not be stopped, when the write was answered.
Shows(w) == data = NoData \/ data.stale \/ w \notin data.missing \/ w \in data.late

\* Fresh data show every answered write whose mutation invalidates the key, whatever was
\* fetched, failed, retried, left or polled in the meantime, but for data of a first load, or of a
\* load that was left, that was under way when the write was answered: invalidateQueries lets such
\* a fetch go on, and what it brings counts as fresh.
ReadYourWrites ==
  \A w \in Writes : At(w, "answered") /\ write[w].by.invalidates => Shows(w)

\* A page shows what was done on it: fresh data of any query of the page that offers a mutation
\* show each use of the mutation that was answered, with the same exception.
OwnPageShowsWrites ==
  \A w \in Writes : At(w, "answered") /\ write[w].own => Shows(w)

\* What happens elsewhere shows in the notifications, which are polled on every page.
NoticesShown ==
  \A w \in Writes : (data # NoData /\ w \in data.missing) ~> (data # NoData /\ w \notin data.missing)
=============================================================================
