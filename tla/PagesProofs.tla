----------------------------- MODULE PagesProofs -----------------------------
(***************************************************************************)
(* What the pages show and submit, for any cache entries, targets, rows,   *)
(* fields, requests and writes: the modules that MCPages puts together.    *)
(***************************************************************************)
EXTENDS MCPages, FiniteSetTheorems, TLAPS

-----------------------------------------------------------------------------
(* QueryCache *)
(***************************************************************************)
(* ReadYourWrites holds for any set of entries and any number of writes,   *)
(* and OwnPageShowsWrites if the tables are complete: a mutation that      *)
(* writes what its own page shows invalidates the key or reloads.  Neither *)
(* is inductive: that the data of the next fetch show a write needs that   *)
(* the fetch under way does.  Both leave out what a first load brings of a *)
(* write that was answered during it.                                      *)
(***************************************************************************)

\* What a fetch will bring shows the answered writes, or the fetch was under way when they were
\* answered.
FetchShows(w) == fetch = NoFetch \/ w \notin fetch.missing \/ w \in fetch.late

Answered(w) == At(w, "answered") /\ (write[w].by.invalidates \/ write[w].by.reloads)

CacheInv == /\ TypeOK
            /\ \A w \in Writes : Answered(w) => Shows(w) /\ FetchShows(w)

\* A new fetch has the type of fetches, and shows every write.
LEMMA StartedType == Started \in Fetch /\ \A w : w \notin Started.missing
BY DEF Started, Fetch

LEMMA RetryType ==
  ASSUME NEW cause \in Causes
  PROVE  LET f == [Started EXCEPT !.cause = cause]
         IN  f \in Fetch /\ \A w : w \notin f.missing
BY DEF Started, Fetch

LEMMA CacheInit == Init => CacheInv
<1> SUFFICES ASSUME Init PROVE CacheInv
  OBVIOUS
<1>1. TypeOK
  BY StartedType, QueryCacheAssumption DEF Init, TypeOK
<1>2. \A w \in Writes : ~Answered(w)
  BY DEF Init, Answered, At
<1> QED
  BY <1>1, <1>2 DEF CacheInv

-----------------------------------------------------------------------------
\* Each action keeps the types.
LEMMA CacheTypeStep == TypeOK /\ [Next]_vars => TypeOK'
<1> SUFFICES ASSUME TypeOK, [Next]_vars PROVE TypeOK'
  OBVIOUS
<1> USE DEF TypeOK
<1>1. ASSUME NEW p \in entry.places, Navigate(p) PROVE TypeOK'
  BY <1>1, StartedType DEF Navigate
<1>2. CASE Reload
  <2>1. write' \in [Writes -> Write \cup {NoWrite}]
    BY <1>2 DEF Reload, Abandoned, Pending, At, Write
  <2> QED
    BY <1>2, <2>1, StartedType DEF Reload, Emptied
<1>3. CASE Age
  BY <1>3 DEF Age, Stale, Data
<1>4. CASE Focus \/ Poll \/ Collect
  BY <1>4, StartedType DEF Focus, Poll, Collect
<1>5. CASE Read
  BY <1>5 DEF Read, Fetch
<1>6. CASE Arrive
  BY <1>6 DEF Arrive, Fetch, Data
<1>7. ASSUME NEW cause \in Causes, Fail(cause) PROVE TypeOK'
  BY <1>7, RetryType DEF Fail
<1>8. ASSUME NEW w \in Writes, Missed(w)
      PROVE  data' \in Data \cup {NoData} /\ fetch' \in Fetch \cup {NoFetch}
  BY <1>8 DEF Missed, Data, Fetch
<1>9. ASSUME NEW w \in Writes, NEW m \in place.offers, Send(w, m) PROVE TypeOK'
  BY <1>9 DEF Send, Write, Entry, Place
<1>10. ASSUME NEW w \in Writes, Commit(w) PROVE TypeOK'
  <2>1. write' \in [Writes -> Write \cup {NoWrite}]
    BY <1>10 DEF Commit, At, Write
  <2> QED
    BY <1>10, <1>8, <2>1 DEF Commit
<1>11. ASSUME NEW w \in Writes, Break(w) PROVE TypeOK'
  BY <1>11 DEF Break, Pending, At, Write
<1>12. ASSUME NEW w \in Writes, Other(w) PROVE TypeOK'
  <2>1. write' \in [Writes -> Write \cup {NoWrite}]
    BY <1>12 DEF Other, Foreign, Kind, Write
  <2> QED
    BY <1>12, <1>8, <2>1 DEF Other
<1>13. ASSUME NEW w \in Writes, Answer(w) PROVE TypeOK'
  <2>1. write' \in [Writes -> Write \cup {NoWrite}]
    <3>1. [write[w] EXCEPT !.at = "answered"] \in Write
      BY <1>13 DEF Answer, At, Write
    <3>2. \A u \in Writes : Abandoned(u) \in Write \cup {NoWrite}
      BY DEF Abandoned, Pending, At, Write
    <3>3. CASE write[w].by.reloads
      <4> DEFINE left == [u \in Writes |-> Abandoned(u)]
      <4>1. left \in [Writes -> Write \cup {NoWrite}]
        BY <3>2
      <4>2. write' = [left EXCEPT ![w] = [write[w] EXCEPT !.at = "answered"]]
        BY <1>13, <3>3 DEF Answer
      <4> HIDE DEF left
      <4> QED
        BY <3>1, <4>1, <4>2
    <3>4. CASE ~write[w].by.reloads
      BY <1>13, <3>1, <3>4 DEF Answer
    <3> QED
      BY <3>3, <3>4
  <2>2. data' \in Data \cup {NoData}
    BY <1>13 DEF Answer, Emptied, Data
  <2>3. Refetched(w) \in Fetch \cup {NoFetch}
    BY StartedType DEF Refetched, Fetch
  <2>4. fetch' \in Fetch \cup {NoFetch}
    BY <1>13, <2>3, StartedType DEF Answer, Emptied
  <2> QED
    BY <1>13, <2>1, <2>2, <2>4 DEF Answer
<1>14. CASE UNCHANGED vars
  BY <1>14 DEF vars
<1> QED
  BY <1>1, <1>2, <1>3, <1>4, <1>5, <1>6, <1>7, <1>9, <1>10, <1>11, <1>12, <1>13, <1>14 DEF Next

-----------------------------------------------------------------------------
\* A write that was answered before a step shows after it.
LEMMA AnsweredStep ==
  ASSUME CacheInv, Next, NEW w \in Writes, Answered(w)
  PROVE  Shows(w)' /\ FetchShows(w)'
<1> USE DEF Shows, FetchShows, CacheInv, TypeOK
<1>1. ASSUME NEW p \in entry.places, Navigate(p) PROVE Shows(w)' /\ FetchShows(w)'
  BY <1>1, StartedType DEF Navigate
<1>2. CASE Reload
  BY <1>2, StartedType DEF Reload, Emptied
<1>3. CASE Age
  BY <1>3 DEF Age, Stale, Data
<1>4. CASE Focus \/ Poll \/ Collect
  BY <1>4, StartedType DEF Focus, Poll, Collect
<1>5. CASE Read
  BY <1>5 DEF Read, Fetch
<1>6. CASE Arrive
  BY <1>6 DEF Arrive
<1>7. ASSUME NEW cause \in Causes, Fail(cause) PROVE Shows(w)' /\ FetchShows(w)'
  BY <1>7, RetryType DEF Fail
<1>8. ASSUME NEW u \in Writes, u # w, Missed(u) PROVE Shows(w)' /\ FetchShows(w)'
  BY <1>8 DEF Missed, Data, Fetch
<1>9. ASSUME NEW u \in Writes, NEW m \in place.offers, Send(u, m)
      PROVE  Shows(w)' /\ FetchShows(w)'
  BY <1>9 DEF Send
<1>10. ASSUME NEW u \in Writes, Commit(u) PROVE Shows(w)' /\ FetchShows(w)'
  <2>1. u # w
    BY <1>10 DEF Commit, Answered, At
  <2> QED
    BY <1>10, <1>8, <2>1 DEF Commit
<1>11. ASSUME NEW u \in Writes, Break(u) PROVE Shows(w)' /\ FetchShows(w)'
  BY <1>11 DEF Break
<1>12. ASSUME NEW u \in Writes, Other(u) PROVE Shows(w)' /\ FetchShows(w)'
  <2>1. u # w
    BY <1>12 DEF Other, Answered, At
  <2> QED
    BY <1>12, <1>8, <2>1 DEF Other
<1>13. ASSUME NEW u \in Writes, Answer(u) PROVE Shows(w)' /\ FetchShows(w)'
  <2>1. Shows(w)'
    BY <1>13 DEF Answer, Emptied, Data
  <2>2. Refetched(u) = NoFetch \/ w \notin Refetched(u).missing \/ w \in Refetched(u).late
    BY StartedType DEF Refetched, Fetch
  <2>3. FetchShows(w)'
    BY <1>13, <2>2, StartedType DEF Answer, Emptied
  <2> QED
    BY <2>1, <2>3
<1> QED
  BY <1>1, <1>2, <1>3, <1>4, <1>5, <1>6, <1>7, <1>9, <1>10, <1>11, <1>12, <1>13 DEF Next

\* A step that answers a write marks the data stale, and the fetch that goes on as late.
LEMMA AnswerStep ==
  ASSUME CacheInv, Next, NEW w \in Writes, ~Answered(w), Answered(w)'
  PROVE  Shows(w)' /\ FetchShows(w)'
<1> USE DEF CacheInv, TypeOK
<1>1. Answer(w)
  <2>1. ASSUME NEW u \in Writes, u # w, Answer(u) PROVE FALSE
    BY <2>1, ZenonT(60) DEF Answer, Answered, At, Abandoned, Pending, Write
  <2>2. \A u \in Writes : Answer(u) => u = w
    BY <2>1
  <2>3. \E u \in Writes : Answer(u)
    BY DEF Next, Navigate, Reload, Age, Focus, Poll, Collect, Read, Arrive, Fail, Send, Commit, Break,
           Other, Answered, At, Abandoned, Pending, Write
  <2> QED
    BY <2>2, <2>3
<1>2. write[w].by.invalidates \/ write[w].by.reloads
  BY <1>1 DEF Answer, Answered, At, Abandoned, Write
<1>3. Shows(w)'
  BY <1>1, <1>2 DEF Answer, Emptied, Shows, Data
<1>4. Refetched(w) = NoFetch \/ w \notin Refetched(w).missing \/ w \in Refetched(w).late
  BY StartedType DEF Refetched, Fetch
<1>5. FetchShows(w)'
  BY <1>1, <1>2, <1>4, StartedType DEF Answer, Emptied, FetchShows
<1> QED
  BY <1>3, <1>5

LEMMA CacheStep == CacheInv /\ [Next]_vars => CacheInv'
<1> SUFFICES ASSUME CacheInv, [Next]_vars PROVE CacheInv'
  OBVIOUS
<1>1. TypeOK'
  BY CacheTypeStep DEF CacheInv
<1>2. CASE Next
  BY <1>1, <1>2, AnsweredStep, AnswerStep DEF CacheInv
<1>3. CASE UNCHANGED vars
  BY <1>1, <1>3 DEF vars, CacheInv, Answered, At, Shows, FetchShows
<1> QED
  BY <1>2, <1>3

LEMMA CacheSafe == Spec => []CacheInv
BY CacheInit, CacheStep, PTL DEF Spec

-----------------------------------------------------------------------------
\* The variables keep their types, whatever entries there are.
THEOREM TypeCorrect == Spec => []TypeOK
<1>1. CacheInv => TypeOK
  BY DEF CacheInv
<1> QED
  BY <1>1, CacheSafe, PTL

\* Whatever pages, mutations and polls there are, and however fetches and writes interleave: fresh
\* data show the answered writes of mutations that invalidate the key, unless they were brought by
\* a fetch which was under way when the write was answered and which invalidateQueries does not
\* replace, that is a first load, or one of a key that no page watches any more (late).  So the only
\* fresh data that hide such a write are of that fetch, and the one after it shows the write.
THEOREM OwnWritesAreRead == Spec => []ReadYourWrites
<1>1. CacheInv => ReadYourWrites
  BY DEF CacheInv, ReadYourWrites, Answered
<1> QED
  BY <1>1, CacheSafe, PTL

-----------------------------------------------------------------------------
\* The tables are complete.
Complete ==
  \A e \in Entries : \A p \in e.places : \A m \in p.offers :
     p.watches /\ m.writes => m.invalidates \/ m.reloads

Wrote(w) == write[w] # NoWrite /\ write[w].by.writes

\* Only what was written is missing, and a write of a page to its own tables is invalidated.
OwnInv == /\ CacheInv /\ entry \in Entries
          /\ data # NoData => \A w \in data.missing : Wrote(w)
          /\ fetch # NoFetch => \A w \in fetch.missing : Wrote(w)
          /\ \A w \in Writes : Wrote(w) /\ write[w].own
                               => write[w].by.invalidates \/ write[w].by.reloads

LEMMA OwnInit == Init => OwnInv
<1> SUFFICES ASSUME Init PROVE OwnInv
  OBVIOUS
<1> QED
  BY CacheInit, StartedType DEF Init, OwnInv, Wrote

\* A step keeps what a write is.
LEMMA KeptStep ==
  ASSUME TypeOK, Next, NEW w \in Writes, write[w] # NoWrite
  PROVE  write'[w] # NoWrite /\ write'[w].by = write[w].by /\ write'[w].own = write[w].own
<1> DEFINE Kept(r) == r # NoWrite /\ r.by = write[w].by /\ r.own = write[w].own
<1>1. write[w] \in Write
  BY DEF TypeOK
<1>2. \A s \in {"sent", "committed", "answered", "failed"} : Kept([write[w] EXCEPT !.at = s])
  BY <1>1, QueryCacheAssumption DEF Write
<1>3. Kept(write[w])
  OBVIOUS
<1>4. Kept(Abandoned(w))
  BY <1>2, <1>3 DEF Abandoned
<1> HIDE DEF Kept
<1>5. ASSUME NEW u \in Writes, Commit(u) \/ Break(u) PROVE Kept(write'[w])
  BY <1>5, <1>2, <1>3 DEF Commit, Break, TypeOK
<1>6. ASSUME NEW u \in Writes, Answer(u) PROVE Kept(write'[w])
  BY <1>6, <1>2, <1>3, <1>4 DEF Answer, TypeOK
<1>7. ASSUME NEW u \in Writes, Other(u) \/ \E m \in place.offers : Send(u, m) PROVE Kept(write'[w])
  BY <1>7, <1>3 DEF Other, Send, TypeOK
<1>8. Kept(write'[w])
  BY <1>3, <1>4, <1>5, <1>6, <1>7
     DEF Next, Navigate, Reload, Age, Focus, Poll, Collect, Read, Arrive, Fail
<1> QED
  BY <1>8 DEF Kept

\* Nothing that was not written goes missing.
LEMMA MissingStep ==
  ASSUME OwnInv, Next
  PROVE  /\ data' # NoData => \A w \in data'.missing : Wrote(w)'
         /\ fetch' # NoFetch => \A w \in fetch'.missing : Wrote(w)'
<1> DEFINE Good == /\ data' # NoData => \A w \in data'.missing : Wrote(w)'
                   /\ fetch' # NoFetch => \A w \in fetch'.missing : Wrote(w)'
<1> USE DEF OwnInv, CacheInv, TypeOK
<1>1. \A w \in Writes : Wrote(w) => Wrote(w)'
  BY KeptStep DEF Wrote
<1>2. ASSUME NEW w \in Writes, Missed(w), Wrote(w)' PROVE Good
  BY <1>1, <1>2 DEF Missed, Data, Fetch
<1>3. ASSUME NEW w \in Writes, Commit(w) PROVE Good
  <2>1. write[w].by.writes => Wrote(w)'
    BY <1>1, <1>3 DEF Commit, At, Wrote
  <2>2. CASE ~write[w].by.writes
    BY <1>1, <1>3, <2>2 DEF Commit, Data, Fetch
  <2> QED
    BY <1>2, <1>3, <2>1, <2>2 DEF Commit
<1>4. ASSUME NEW w \in Writes, Other(w) PROVE Good
  <2>1. write'[w] = [by |-> Foreign, own |-> FALSE, at |-> "foreign"]
    BY <1>4 DEF Other
  <2>2. write'[w] \in Write
    BY <2>1 DEF Write, Foreign, Kind
  <2>3. write'[w].by.writes
    BY <2>1 DEF Foreign
  <2>4. write'[w] # NoWrite
    BY <2>2, QueryCacheAssumption
  <2> QED
    BY <1>2, <1>4, <2>3, <2>4 DEF Other, Wrote
<1>5. ASSUME NEW w \in Writes, Answer(w) PROVE Good
  <2>1. Refetched(w) = NoFetch \/ \A u \in Refetched(w).missing : fetch # NoFetch /\ u \in fetch.missing
    BY StartedType DEF Refetched, Fetch
  <2>2. Refetched(w) = NoFetch \/ Refetched(w) \in Fetch
    BY StartedType DEF Refetched, Fetch
  <2> QED
    BY <1>1, <1>5, <2>1, <2>2, StartedType DEF Answer, Emptied, Data, Fetch
<1>6. ASSUME NEW p \in entry.places, Navigate(p) PROVE Good
  BY <1>1, <1>6, StartedType DEF Navigate, Data, Fetch
<1>7. CASE Reload \/ Focus \/ Poll \/ Collect
  BY <1>1, <1>7, StartedType DEF Reload, Emptied, Focus, Poll, Collect, Data, Fetch
<1>8. CASE Age \/ Read \/ Arrive
  BY <1>1, <1>8 DEF Age, Stale, Read, Arrive, Data, Fetch
<1>9. ASSUME NEW cause \in Causes, Fail(cause) PROVE Good
  BY <1>1, <1>9, RetryType DEF Fail, Data, Fetch
<1>10. ASSUME NEW w \in Writes, Break(w) \/ \E m \in place.offers : Send(w, m) PROVE Good
  BY <1>1, <1>10 DEF Break, Send, Data, Fetch
<1> QED
  BY <1>3, <1>4, <1>5, <1>6, <1>7, <1>8, <1>9, <1>10 DEF Next

LEMMA OwnStep == Complete /\ OwnInv /\ [Next]_vars => OwnInv'
<1> SUFFICES ASSUME Complete, OwnInv, [Next]_vars PROVE OwnInv'
  OBVIOUS
<1>1. CacheInv' /\ entry' = entry
  BY CacheStep DEF OwnInv, vars, Next, Navigate, Reload, Age, Focus, Poll, Collect, Read, Arrive, Fail,
                 Send, Commit, Break, Other, Answer
<1>2. CASE UNCHANGED vars
  BY <1>1, <1>2 DEF OwnInv, vars, Wrote
<1>3. ASSUME Next, NEW w \in Writes, Wrote(w)', write'[w].own
      PROVE  write'[w].by.invalidates \/ write'[w].by.reloads
  <2>1. CASE write[w] # NoWrite
    BY <1>3, <2>1, KeptStep DEF OwnInv, CacheInv, Wrote
  <2>2. CASE write[w] = NoWrite
    <3>1. (\E m \in place.offers : Send(w, m)) \/ Other(w)
      BY <1>3, <2>2 DEF Next, Navigate, Reload, Age, Focus, Poll, Collect, Read, Arrive, Fail, Send,
           Commit, Break, Other, Answer, Abandoned, Pending, At, Wrote, OwnInv, CacheInv, TypeOK
    <3>2. ~Other(w)
      BY <1>3 DEF Other, OwnInv, CacheInv, TypeOK
    <3>3. PICK m \in place.offers : Send(w, m)
      BY <3>1, <3>2
    <3>4. write'[w] = [by |-> m, own |-> place.watches, at |-> "sent"]
      BY <3>3 DEF Send, OwnInv, CacheInv, TypeOK
    <3> QED
      BY <1>3, <3>4 DEF Complete, OwnInv, CacheInv, TypeOK, Wrote
  <2> QED
    BY <2>1, <2>2
<1> QED
  BY <1>1, <1>2, <1>3, MissingStep DEF OwnInv

\* Every page shows what was done on it, whatever pages and mutations there are, if each mutation
\* that writes what its own page shows invalidates the key, or reloads the application; with the
\* same exception, of data whose fetch was under way at the answer and could not be replaced.
THEOREM OwnWritesAreShown == Complete => (Spec => []OwnPageShowsWrites)
<1> SUFFICES ASSUME Complete PROVE Spec => []OwnPageShowsWrites
  OBVIOUS
<1>1. OwnInv => OwnPageShowsWrites
  BY DEF OwnInv, CacheInv, OwnPageShowsWrites, Answered, Shows, Wrote, At
<1> QED
  BY <1>1, OwnInit, OwnStep, PTL DEF Spec

-----------------------------------------------------------------------------
(* Worklists *)
(***************************************************************************)
(* What waits for a user is offered, for any players and clubs.  The pages *)
(* look into one list only: of invites if the user has no club, and else   *)
(* of requests.  That the other list holds nothing to decide is an         *)
(* invariant of the API: invites are for players without a club, but for   *)
(* those that assign_role left behind.                                     *)
(***************************************************************************)

InvitesToFree == \A r \in OfMe(invites) \ stranded : clubOf[Me] = NoClub

\* An acceptance, which needs a free player, withdraws no invite that was left behind.
LeftBehind == stranded \subseteq OfMe(invites) /\ (stranded # {} => clubOf[Me] # NoClub)

ListsInv == ListsTypeOK /\ InvitesToFree /\ LeftBehind

-----------------------------------------------------------------------------
LEMMA ListsEstablished == ListsInit => ListsInv
  BY DEF ListsInit, ListsInv, ListsTypeOK, InvitesToFree, LeftBehind, OfMe, Places, Keys

\* The clubs and the players
LEMMA InviteKeeps ==
  ASSUME ListsInv, NEW p \in Players, NEW c \in Clubs,
         Invite(p, c) \/ WithdrawInvite(p, c) \/ Request(p, c) \/ Acknowledge(p, c)
  PROVE  ListsInv'
<1>1. <<p, c>> \in Rows /\ <<p, c>>[1] = p
  BY DEF Rows
<1>2. /\ UNCHANGED <<adminOf, clubOf, spot, cache>>
      /\ invites' \subseteq Rows /\ requests' \subseteq Rows /\ registered' \subseteq Players
      /\ stranded' \subseteq invites'
  BY <1>1 DEF Invite, WithdrawInvite, Request, Acknowledge, Page, ListsInv, ListsTypeOK
<1>3. InvitesToFree' /\ LeftBehind'
  BY <1>1 DEF Invite, WithdrawInvite, Request, Acknowledge, Page, ListsInv, InvitesToFree, LeftBehind, OfMe
<1> QED
  BY <1>2, <1>3 DEF ListsInv, ListsTypeOK

LEMMA AcceptKeeps ==
  ASSUME ListsInv, NEW p \in Players, NEW c \in Clubs, Accept(p, c) PROVE ListsInv'
<1>1. /\ UNCHANGED <<adminOf, requests, registered, spot, cache, stranded>>
      /\ clubOf' = [clubOf EXCEPT ![p] = c] /\ invites' = {r \in invites : r[1] # p}
      /\ clubOf[p] = NoClub
  BY DEF Accept, Page
<1>2. clubOf' \in [Players -> Clubs \cup {NoClub}] /\ invites' \subseteq Rows
  BY <1>1 DEF ListsInv, ListsTypeOK
<1>3. CASE p = Me
  <2>1. stranded' = {} /\ OfMe(invites)' = {}
    BY <1>1, <1>3 DEF ListsInv, LeftBehind, OfMe
  <2> QED
    BY <1>1, <1>2, <2>1 DEF ListsInv, ListsTypeOK, InvitesToFree, LeftBehind
<1>4. CASE p # Me
  <2>1. clubOf'[Me] = clubOf[Me] /\ OfMe(invites)' = OfMe(invites)
    BY <1>1, <1>4, ListsAssumption DEF ListsInv, ListsTypeOK, OfMe
  <2>2. stranded' \subseteq invites'
    BY <1>1, <2>1 DEF ListsInv, LeftBehind, OfMe
  <2> QED
    BY <1>1, <1>2, <2>1, <2>2 DEF ListsInv, ListsTypeOK, InvitesToFree, LeftBehind
<1> QED
  BY <1>3, <1>4

LEMMA ReleaseKeeps == ASSUME ListsInv, NEW p \in Players, Release(p) PROVE ListsInv'
<1>1. /\ UNCHANGED <<adminOf, invites, requests, registered, spot, cache>>
      /\ clubOf' = [clubOf EXCEPT ![p] = NoClub]
      /\ stranded' = IF p = Me THEN {} ELSE stranded
  BY DEF Release, Page
<1>2. ListsTypeOK'
  BY <1>1 DEF ListsInv, ListsTypeOK
<1>3. OfMe(invites)' = OfMe(invites) /\ clubOf'[Me] = IF p = Me THEN NoClub ELSE clubOf[Me]
  BY <1>1, ListsAssumption DEF ListsInv, ListsTypeOK, OfMe
<1>4. InvitesToFree' /\ LeftBehind'
  BY <1>1, <1>3 DEF ListsInv, InvitesToFree, LeftBehind
<1> QED
  BY <1>2, <1>4 DEF ListsInv

\* Whoever joins a club as its admin leaves all invites behind.
LEMMA AssignKeeps ==
  ASSUME ListsInv, NEW p \in Players, NEW c \in Clubs, Assign(p, c) PROVE ListsInv'
<1>1. /\ UNCHANGED <<invites, requests, registered, spot, cache>>
      /\ adminOf' \in Clubs \cup {NoClub}
      /\ clubOf' = IF clubOf[p] = NoClub THEN [clubOf EXCEPT ![p] = c] ELSE clubOf
      /\ stranded' = IF p = Me /\ clubOf[p] = NoClub THEN OfMe(invites) ELSE stranded
  BY DEF Assign, Page, ListsInv, ListsTypeOK
<1>2. ListsTypeOK'
  BY <1>1 DEF ListsInv, ListsTypeOK, OfMe
<1>3. /\ OfMe(invites)' = OfMe(invites)
      /\ clubOf'[Me] = IF p = Me /\ clubOf[p] = NoClub THEN c ELSE clubOf[Me]
  BY <1>1, ListsAssumption DEF ListsInv, ListsTypeOK, OfMe
<1>4. InvitesToFree' /\ LeftBehind'
  BY <1>1, <1>3, ListsAssumption DEF ListsInv, InvitesToFree, LeftBehind
<1> QED
  BY <1>2, <1>4 DEF ListsInv

LEMMA RevokeKeeps == ASSUME ListsInv, Revoke PROVE ListsInv'
  BY DEF Revoke, Page, ListsInv, ListsTypeOK, InvitesToFree, LeftBehind, OfMe

\* The web client
LEMMA AnswerTyped == ASSUME ListsInv, NEW k \in Keys PROVE ListAnswer(k) \subseteq Rows
  BY DEF ListsInv, ListsTypeOK, ListAnswer, OfMyClub, OfMe

LEMMA VisitKeeps == ASSUME ListsInv, NEW p \in Places, Visit(p) PROVE ListsInv'
  BY DEF Visit, rowVars, ListsInv, ListsTypeOK, InvitesToFree, LeftBehind, OfMe

LEMMA ListsKept == ListsInv /\ [ListsNext]_listVars => ListsInv'
<1> SUFFICES ASSUME ListsInv, [ListsNext]_listVars PROVE ListsInv'
  OBVIOUS
<1>1. ASSUME NEW k \in Keys, FetchList(k) PROVE ListsInv'
  <2>1. \A j \in Keys : cache'[j] = Absent \/ cache'[j] \subseteq Rows
    BY <1>1, AnswerTyped DEF FetchList, ListsInv, ListsTypeOK
  <2> QED
    BY <1>1, <2>1 DEF FetchList, rowVars, ListsInv, ListsTypeOK, InvitesToFree, LeftBehind, OfMe
<1>2. CASE UNCHANGED listVars
  BY <1>2 DEF listVars, rowVars, ListsInv, ListsTypeOK, InvitesToFree, LeftBehind, OfMe
<1> QED
  BY <1>1, <1>2, InviteKeeps, AcceptKeeps, ReleaseKeeps, AssignKeeps, RevokeKeeps, VisitKeeps
  DEF ListsNext

-----------------------------------------------------------------------------
(* What is offered *)

LEMMA PendingIsAnswer ==
  ASSUME ListsInv, UpToDate, NEW k \in Enabled, k \in Keys
  PROVE  PendingRows(k) = ListAnswer(k)
<1>1. ListAnswer(k) \in SUBSET Rows
  BY AnswerTyped
<1> QED
  BY <1>1, ListsAssumption DEF UpToDate, PendingRows

\* What the API answers of the user's own, but for what is out of sight.
LEMMA RequestsAnswered ==
  ASSUME ListsInv, ~OutOfSight
  PROVE  OfMe(ListAnswer("registrations")) = OfMe(requests)
<1>1. CASE isClubAdmin
  <2>1. hasClub
    BY <1>1 DEF hasClub, myClub, isClubAdmin
  <2>2. OfMe(requests) \subseteq OfMyClub(requests)
    BY <1>1, <2>1 DEF OutOfSight, Waiting
  <2> QED
    BY <1>1, <2>2 DEF ListAnswer, OfMyClub, OfMe
<1>2. CASE ~isClubAdmin
  BY <1>2 DEF ListAnswer, OfMe
<1> QED
  BY <1>1, <1>2

LEMMA InvitesAnswered ==
  ASSUME ~hasClub
  PROVE  ListAnswer("club-memberships") = OfMe(invites)
  BY DEF hasClub, myClub, isClubAdmin, ListAnswer

LEMMA NoInvitesToMembers == ASSUME ListsInv, hasClub, ~OutOfSight PROVE OfMe(invites) = {}
<1>1. CASE isClubAdmin
  BY <1>1 DEF OutOfSight, Waiting
<1>2. CASE ~isClubAdmin
  BY <1>2 DEF OutOfSight, ListsInv, InvitesToFree, hasClub, myClub
<1> QED
  BY <1>1, <1>2

LEMMA OffersWaiting ==
  ASSUME ListsInv, UpToDate, ~OutOfSight, spot = "profile" PROVE Offered = Waiting
<1>1. CASE hasClub
  <2>1. "registrations" \in Enabled /\ "registrations" \in Keys
    BY <1>1 DEF Enabled, PlaceKeys, ProfileKeys, Keys
  <2>2. RequestsToDecide = OfMe(requests)
    BY <2>1, PendingIsAnswer, RequestsAnswered DEF RequestsToDecide
  <2> QED
    BY <1>1, <2>2, NoInvitesToMembers DEF Offered, Waiting
<1>2. CASE ~hasClub
  <2>1. "club-memberships" \in Enabled /\ "club-memberships" \in Keys
    BY <1>2 DEF Enabled, PlaceKeys, ProfileKeys, Keys
  <2>2. InvitesToDecide = OfMe(invites)
    BY <1>2, <2>1, PendingIsAnswer, InvitesAnswered DEF InvitesToDecide
  <2>3. OfMe(requests) = {}
    BY <1>2 DEF OutOfSight, Waiting
  <2> QED
    BY <1>2, <2>2, <2>3 DEF Offered, Waiting
<1> QED
  BY <1>1, <1>2

LEMMA ListsWaiting ==
  ASSUME ListsInv, UpToDate, ~OutOfSight, spot = "dashboard", NEW shown \in PendingDecisionsList
  PROVE  /\ Waiting.requests \subseteq shown \/ Cardinality(shown) = ListLimit
         /\ ~isClubAdmin => shown \subseteq Waiting.requests
<1>1. "registrations" \in Enabled /\ "registrations" \in Keys
  BY DEF Enabled, PlaceKeys, Keys
<1>2. PendingRows("registrations") = ListAnswer("registrations")
  BY <1>1, PendingIsAnswer
<1>3. Waiting.requests \subseteq ListAnswer("registrations")
  BY RequestsAnswered DEF Waiting, OfMe
<1>4. ~isClubAdmin => ListAnswer("registrations") = Waiting.requests
  BY DEF ListAnswer, Waiting
<1>5. /\ shown \subseteq ListAnswer("registrations")
      /\ shown = ListAnswer("registrations") \/ Cardinality(shown) = ListLimit
  BY <1>2 DEF PendingDecisionsList
<1> QED
  BY <1>3, <1>4, <1>5

\* What waits for the user is what the profile offers to decide, and the dashboard lists the
\* requests that wait, or as many rows as it has room for, but for those that are out of sight
\* (profile/page.tsx, DashboardHome.tsx).
THEOREM DecisionsAreOffered == ListsSpec => []DecisionsOffered
<1>1. ListsInv => DecisionsOffered
  BY OffersWaiting, ListsWaiting DEF DecisionsOffered
<1> QED
  BY <1>1, ListsEstablished, ListsKept, PTL DEF ListsSpec

-----------------------------------------------------------------------------
(* What the badge counts *)

\* The lists grow by one row at a time.
ListsFinite == IsFiniteSet(invites) /\ IsFiniteSet(requests)

LEMMA ListsStartFinite == ListsInit => ListsFinite
  BY FS_EmptySet DEF ListsInit, ListsFinite

LEMMA ListsStayFinite == ListsFinite /\ [ListsNext]_listVars => ListsFinite'
<1> SUFFICES ASSUME ListsFinite, [ListsNext]_listVars PROVE ListsFinite'
  OBVIOUS
<1>1. ASSUME NEW p \in Players, NEW c \in Clubs, Invite(p, c) \/ Request(p, c) PROVE ListsFinite'
  <2>1. IsFiniteSet(invites \cup {<<p, c>>}) /\ IsFiniteSet(requests \cup {<<p, c>>})
    BY FS_AddElement DEF ListsFinite
  <2> QED
    BY <1>1, <2>1 DEF Invite, Request, Page, ListsFinite
<1>2. ASSUME NEW p \in Players, NEW c \in Clubs,
             WithdrawInvite(p, c) \/ Accept(p, c) \/ Acknowledge(p, c)
      PROVE  ListsFinite'
  <2>1. invites' \in SUBSET invites /\ requests' \in SUBSET requests
    BY <1>2 DEF WithdrawInvite, Accept, Acknowledge, Page
  <2> QED
    BY <2>1, FS_Subset DEF ListsFinite
<1>3. (\E p \in Players : Release(p)) \/ (\E p \in Players, c \in Clubs : Assign(p, c)) \/ Revoke
      \/ (\E p \in Places : Visit(p)) \/ (\E k \in Keys : FetchList(k)) \/ UNCHANGED listVars
      => UNCHANGED <<invites, requests>>
  BY DEF Release, Assign, Revoke, Visit, FetchList, Page, listVars, rowVars
<1>4. UNCHANGED <<invites, requests>> => ListsFinite'
  BY DEF ListsFinite
<1> QED
  BY <1>1, <1>2, <1>3, <1>4 DEF ListsNext

LEMMA BadgeCounts ==
  ASSUME ListsInv, ListsFinite, UpToDate, spot = "profile", ~isClubAdmin
  PROVE  profileBadge = Cardinality(Offered.invites) + Cardinality(Offered.requests)
<1>1. CASE hasClub
  <2>1. "registrations" \in Enabled /\ "registrations" \in Keys
    BY <1>1 DEF Enabled, PlaceKeys, ProfileKeys, Keys
  <2>2. PendingRows("registrations") = OfMe(requests)
    BY <2>1, PendingIsAnswer DEF ListAnswer
  <2>3. Offered.invites = {} /\ Offered.requests = OfMe(requests)
    BY <1>1, <2>2 DEF Offered, RequestsToDecide, OfMe
  <2>4. Cardinality(OfMe(requests)) \in Nat
    BY FS_Subset, FS_CardinalityType DEF ListsFinite, OfMe
  <2> QED
    BY <1>1, <2>2, <2>3, <2>4, FS_EmptySet DEF profileBadge
<1>2. CASE ~hasClub
  <2>1. "club-memberships" \in Enabled /\ "club-memberships" \in Keys
    BY <1>2 DEF Enabled, PlaceKeys, ProfileKeys, Keys
  <2>2. PendingRows("club-memberships") = OfMe(invites)
    BY <2>1, PendingIsAnswer DEF ListAnswer
  <2>3. Offered.invites = OfMe(invites) /\ Offered.requests = {}
    BY <1>2, <2>2 DEF Offered, InvitesToDecide
  <2>4. Cardinality(OfMe(invites)) \in Nat
    BY FS_Subset, FS_CardinalityType DEF ListsFinite, OfMe
  <2> QED
    BY <1>2, <2>2, <2>3, <2>4, FS_EmptySet DEF profileBadge
<1> QED
  BY <1>1, <1>2

\* The number beside "My Profile" is the number of decisions that the profile offers to a player,
\* although badge and profile read the cache under different conditions (Sidebar.tsx, profile/page.tsx).
THEOREM BadgeIsRight == ListsSpec => []BadgeCountsDecisions
<1>1. ListsInv /\ ListsFinite => BadgeCountsDecisions
  BY BadgeCounts DEF BadgeCountsDecisions
<1> QED
  BY <1>1, ListsEstablished, ListsKept, ListsStartFinite, ListsStayFinite, PTL DEF ListsSpec

-----------------------------------------------------------------------------
(***************************************************************************)
(* Dialogs.  That a save puts nothing back is not inductive: it needs that *)
(* each field of the form, and of a submission under way, was filled in by *)
(* the user or is what was saved last, and, since fields may be filled in  *)
(* while a submission is under way, that the form still has what was       *)
(* filled in before.                                                       *)
(***************************************************************************)
Live(c) == call[c] # NoCall
Subject == IF kind.form = "page" THEN Own ELSE open

\* A form that is mounted for a row, and what was submitted with it, was filled in for that row.
FilledInFor ==
  kind.form = "target" =>
    /\ \A f \in Fields : author[f] \in {NoTarget, open}
    /\ \A c \in Calls, f \in Fields : Live(c) => call[c].author[f] \in {NoTarget, call[c].target}

\* The dialogs that add something are emptied by success, so that none is ever as saved.
NeverAgain == ~kind.edits => ~saved /\ \A c \in Calls : Live(c) => ~call[c].again

\* The dialogs that the page mounts to edit are those of what the page is about.
OnlyOwn ==
  kind.edits /\ kind.form = "page" =>
    /\ open \in {NoTarget, Own}
    /\ \A c \in Calls : Live(c) => call[c].target = Own

OneCall == \A c, d \in Calls : Live(c) /\ Live(d) => c = d

\* A field that the user has not filled in is what the user saved last, or tried to.
CallKeeps ==
  \A c \in Calls, f \in Fields :
    Live(c) /\ call[c].at = "sent" =>
      LET t == call[c].target
      IN  \/ call[c].author[f] = t \/ meant[t][f] \in {NoValue, call[c].form[f]}
          \/ Dialog!Omitted(t, f)
FormKeeps ==
  \A t \in Targets, f \in Fields :
    t = Subject => author[f] = t \/ meant[t][f] \in {NoValue, form[f]} \/ Dialog!Omitted(t, f)

\* What the user has filled in before a submission, the form still has.
CallFromForm ==
  \A c \in Calls, f \in Fields :
    Live(c) /\ call[c].target = Subject /\ call[c].author[f] = Subject => author[f] = Subject

Stands == \A t \in Targets, f \in Fields :
            meant[t][f] \in {NoValue, row[t][f]} \/ Dialog!Omitted(t, f)

EditsKept == kind.edits /\ ~early => OneCall /\ CallKeeps /\ FormKeeps /\ CallFromForm
SavesStand == early \/ Stands

DialogInv ==
  /\ Dialog!TypeOK /\ kind \in Dialog!AllDialogs
  /\ FilledInFor /\ NeverAgain /\ OnlyOwn /\ EditsKept /\ SavesStand
-----------------------------------------------------------------------------
\* What tells the dialogs apart.
LEMMA DialogKinds ==
  ASSUME NEW k \in Dialog!AllDialogs
  PROVE  /\ k \in Dialog!Kind
         /\ k.edits /\ k.form = "page" => k.empties = {}
         /\ ~k.edits /\ k.form = "page" => "success" \in k.empties
<1> DEFINE Good(d) == /\ d \in Dialog!Kind
                      /\ d.edits /\ d.form = "page" => d.empties = {}
                      /\ ~d.edits /\ d.form = "page" => "success" \in d.empties
<1>1. \A e \in SUBSET {"success", "overlay"} : "success" \in e => Good(Dialog!PageForm(e))
  BY DEF Dialog!PageForm, Dialog!Kind
<1>2. Good(Dialog!Edits(Dialog!PageForm({})))
  BY DEF Dialog!Edits, Dialog!PageForm, Dialog!Kind
<1>3. Good([Dialog!Edits(Dialog!PageForm({})) EXCEPT !.omits = TRUE])
  BY DEF Dialog!Edits, Dialog!PageForm, Dialog!Kind
<1>4. \A m \in {"page", "target"}, b \in SUBSET Dialog!Ways : Good(Dialog!TargetForm(m, b))
  BY DEF Dialog!TargetForm, Dialog!Kind
<1>5. Good(Dialog!Edits(Dialog!TargetForm("target", {})))
  BY DEF Dialog!Edits, Dialog!TargetForm, Dialog!Kind
<1>6. Good(Dialog!DeleteSeasonDialog)
  BY DEF Dialog!DeleteSeasonDialog, Dialog!TargetForm, Dialog!Kind
<1>7. {} \in SUBSET Dialog!Ways /\ {"cancel"} \in SUBSET Dialog!Ways
  BY DEF Dialog!Ways
<1> HIDE DEF Good
<1>8. \A d \in Dialog!RowDialogs : Good(d)
  BY <1>4, <1>5, <1>6, <1>7
     DEF Dialog!RowDialogs, Dialog!EditSeasonDialog, Dialog!ArchiveSeasonDialog,
         Dialog!TransitionDialog, Dialog!ConfirmDialog, Dialog!ReleaseDialog,
         Dialog!UploadDocumentDialog
<1>9. Good(k)
  BY <1>1, <1>2, <1>3, <1>8
     DEF Dialog!AllDialogs, Dialog!EditClubDialog, Dialog!EditLeagueInfoDialog,
         Dialog!EditNameDialog, Dialog!CreateUserDialog, Dialog!CreateSeasonDialog,
         Dialog!CreateClubDialog, Dialog!CreateRegistrationDialog, Dialog!AddStaffDialog,
         Dialog!AddClubStaffDialog, Dialog!AddDocDialog, Dialog!InviteDialog,
         Dialog!AssignRoleDialog, Dialog!RevokeRoleDialog
<1> QED
  BY <1>9 DEF Good

LEMMA RowDialogKinds == ASSUME NEW k \in Dialog!RowDialogs PROVE k.form = "target"
BY DEF Dialog!RowDialogs, Dialog!Ways, Dialog!TargetForm, Dialog!Edits, Dialog!EditSeasonDialog,
       Dialog!ArchiveSeasonDialog, Dialog!DeleteSeasonDialog, Dialog!TransitionDialog,
       Dialog!ConfirmDialog, Dialog!ReleaseDialog, Dialog!UploadDocumentDialog

\* Blank forms
LEMMA BlankForm ==
  /\ Dialog!Blank \in Dialog!Form /\ Dialog!Nobody \in Dialog!Author
  /\ \A f \in Fields : Dialog!Nobody[f] = NoTarget
BY PagesAssumption DEF Dialog!Blank, Dialog!Nobody, Dialog!Form, Dialog!Author

LEMMA DialogInit == Dialog!Init => DialogInv
<1> SUFFICES ASSUME Dialog!Init PROVE DialogInv
  OBVIOUS
<1>1. kind \in Dialog!Kind
  BY DialogKinds DEF Dialog!Init
<1>2. meant \in [Targets -> [Fields -> Values \cup {NoValue}]]
  BY DEF Dialog!Init
<1>3. row \in [Targets -> Dialog!Form] /\ list \in [Targets -> Dialog!Form]
  BY BlankForm DEF Dialog!Init
<1>4. Dialog!TypeOK
  BY <1>1, <1>2, <1>3, BlankForm DEF Dialog!Init, Dialog!TypeOK
<1>5. \A c \in Calls : ~Live(c)
  BY DEF Dialog!Init, Live
<1>6. \A t \in Targets, f \in Fields : meant[t][f] = NoValue
  BY DEF Dialog!Init
<1> QED
  BY <1>4, <1>5, <1>6, BlankForm
     DEF Dialog!Init, DialogInv, FilledInFor, NeverAgain, OnlyOwn, EditsKept, OneCall, CallKeeps,
         FormKeeps, CallFromForm, SavesStand, Stands, Dialog!Omitted

-----------------------------------------------------------------------------
\* What is left of the calls is submitted as it was.
CallsGoOn ==
  /\ call' \in [Calls -> Dialog!Call \cup {NoCall}]
  /\ \A c \in Calls : Live(c)' => /\ Live(c)
                                  /\ call'[c].target = call[c].target /\ call'[c].form = call[c].form
                                  /\ call'[c].author = call[c].author /\ call'[c].again = call[c].again
                                  /\ call'[c].at = call[c].at

LEMMA LeftGoOn ==
  ASSUME Dialog!TypeOK, NEW u \in BOOLEAN, NEW c \in Calls
  PROVE  /\ Dialog!Left(u)[c] \in Dialog!Call \cup {NoCall}
         /\ Dialog!Left(u)[c] # NoCall =>
              LET left == Dialog!Left(u)[c]
              IN  /\ Live(c)
                  /\ left.target = call[c].target /\ left.form = call[c].form
                  /\ left.author = call[c].author /\ left.again = call[c].again
                  /\ left.at = call[c].at
BY DEF Dialog!Left, Dialog!TypeOK, Dialog!Call, Live

LEMMA LeaveGoesOn ==
  ASSUME Dialog!TypeOK, NEW u \in BOOLEAN, call' = Dialog!Left(u) PROVE CallsGoOn
BY LeftGoOn, ZenonT(60) DEF CallsGoOn, Live, Dialog!Left

LEMMA EndsGoesOn ==
  ASSUME Dialog!TypeOK, NEW c \in Calls, NEW event, Dialog!Ends(c, event) PROVE CallsGoOn
<1> DEFINE unmounted == kind.mutation = "target"
           kept(d) == IF event \in kind.closes THEN Dialog!Left(unmounted)[d] ELSE call[d]
<1>1. call' = [[d \in Calls |-> kept(d)] EXCEPT ![c] = NoCall]
  BY DEF Dialog!Ends
<1>2. \A d \in Calls : call'[d] = IF d = c THEN NoCall ELSE kept(d)
  BY <1>1
<1>3. ASSUME NEW d \in Calls
      PROVE  /\ kept(d) \in Dialog!Call \cup {NoCall}
             /\ kept(d) # NoCall =>
                  /\ Live(d)
                  /\ kept(d).target = call[d].target /\ kept(d).form = call[d].form
                  /\ kept(d).author = call[d].author /\ kept(d).again = call[d].again
                  /\ kept(d).at = call[d].at
  BY LeftGoOn DEF Dialog!TypeOK, Live
<1>4. call' \in [Calls -> Dialog!Call \cup {NoCall}]
  <2> HIDE DEF kept
  <2> QED
    BY <1>1, <1>3
<1> HIDE DEF kept
<1> QED
  BY <1>2, <1>3, <1>4 DEF CallsGoOn, Live

-----------------------------------------------------------------------------
\* A step that only lets the calls go on.
LEMMA CallsGoOnKeeps ==
  ASSUME DialogInv, CallsGoOn,
         UNCHANGED <<kind, row, list, open, form, author, saved, meant, early>>
  PROVE  DialogInv'
<1> USE DEF DialogInv, CallsGoOn
<1>1. Dialog!TypeOK'
  BY DEF Dialog!TypeOK
<1>2. FilledInFor' /\ NeverAgain' /\ OnlyOwn' /\ SavesStand'
  BY DEF FilledInFor, NeverAgain, OnlyOwn, SavesStand, Stands, Dialog!Omitted
<1>3. EditsKept'
  BY DEF EditsKept, OneCall, CallKeeps, FormKeeps, CallFromForm, Subject, Dialog!Omitted
<1> QED
  BY <1>1, <1>2, <1>3

LEMMA LoadKeeps == ASSUME DialogInv, Dialog!Load PROVE DialogInv'
<1> USE DEF DialogInv, FilledInFor, NeverAgain, OnlyOwn, EditsKept, OneCall, CallKeeps, FormKeeps,
            CallFromForm, SavesStand, Stands, Live, Subject, Dialog!TypeOK, Dialog!Omitted
<1> QED
  BY DEF Dialog!Load

\* The form of a target that is mounted is what was saved last, or it is early.
LEMMA MountKeeps ==
  ASSUME DialogInv, NEW t \in Targets, Dialog!Mount(t), UNCHANGED <<kind, row, list, meant>>, CallsGoOn,
         Subject' = t, open' \in {open, t}, kind.form = "page" /\ kind.edits => t = Own
  PROVE  DialogInv'
<1> USE DEF DialogInv, CallsGoOn, Dialog!Mount, Dialog!TypeOK
<1>1. Dialog!Defaults(t) \in Dialog!Form
  BY BlankForm DEF Dialog!Defaults
<1>2. Dialog!TypeOK'
  BY <1>1, BlankForm
<1>3. FilledInFor' /\ NeverAgain' /\ OnlyOwn'
  BY BlankForm DEF FilledInFor, NeverAgain, OnlyOwn
<1>4. SavesStand'
  BY DEF SavesStand, Stands, Dialog!Omitted
<1>5. ASSUME kind.edits, ~early' PROVE OneCall' /\ CallKeeps' /\ FormKeeps' /\ CallFromForm'
  <2>1. ~early /\ ~Dialog!Behind(t)
    BY <1>5
  <2>2. OneCall' /\ CallKeeps'
    BY <1>5, <2>1 DEF EditsKept, OneCall, CallKeeps, Dialog!Omitted
  <2>3. FormKeeps'
    BY <1>5, <2>1 DEF FormKeeps, Dialog!Defaults, Dialog!Behind, Dialog!Omitted
  <2>4. CallFromForm'
    BY <2>1 DEF CallFromForm, Dialog!Behind, Live
  <2> QED
    BY <2>2, <2>3, <2>4
<1> QED
  BY <1>2, <1>3, <1>4, <1>5 DEF EditsKept

LEMMA OpenKeeps == ASSUME DialogInv, NEW t \in Targets, Dialog!Open(t) PROVE DialogInv'
<1>1. CallsGoOn
  BY DEF Dialog!Open, DialogInv, Dialog!TypeOK, CallsGoOn, Live
<1>2. CASE kind.form = "target"
  BY <1>1, <1>2, MountKeeps DEF Dialog!Open, Subject
<1>3. CASE kind.form # "target"
  <2>1. kind.form = "page"
    BY <1>3 DEF DialogInv, Dialog!TypeOK, Dialog!Kind
  <2>2. UNCHANGED <<kind, row, list, form, author, saved, call, meant, early>> /\ open' = t
    BY <1>3 DEF Dialog!Open
  <2>3. kind.edits => t = Own
    BY <2>1 DEF Dialog!Open
  <2> QED
    BY <2>1, <2>2, <2>3 DEF DialogInv, FilledInFor, NeverAgain, OnlyOwn, EditsKept, OneCall, CallKeeps,
       FormKeeps, CallFromForm, SavesStand, Stands, Live, Subject, Dialog!TypeOK, Dialog!Omitted
<1> QED
  BY <1>2, <1>3

LEMMA RemountKeeps == ASSUME DialogInv, NEW t \in Targets, Dialog!Remount(t) PROVE DialogInv'
<1>1. CallsGoOn
  BY LeaveGoesOn DEF Dialog!Remount, DialogInv
<1>2. CASE kind.form = "page" /\ ~kind.edits
  <2>1. /\ form' = Dialog!Blank /\ author' = Dialog!Nobody /\ saved' = FALSE
        /\ early' = early /\ UNCHANGED <<kind, row, list, open, meant>>
    BY <1>2 DEF Dialog!Remount, Dialog!Mount, Dialog!Defaults, DialogInv, Dialog!TypeOK
  <2>2. Dialog!TypeOK'
    BY <1>1, <2>1, BlankForm DEF DialogInv, Dialog!TypeOK, CallsGoOn
  <2>3. FilledInFor' /\ NeverAgain' /\ OnlyOwn'
    BY <1>1, <2>1, BlankForm DEF DialogInv, CallsGoOn, FilledInFor, NeverAgain, OnlyOwn
  <2>4. EditsKept' /\ SavesStand'
    BY <1>2, <2>1 DEF DialogInv, EditsKept, SavesStand, Stands, Dialog!Omitted
  <2> QED
    BY <2>1, <2>2, <2>3, <2>4 DEF DialogInv
<1>3. CASE kind.form = "page" /\ kind.edits
  BY <1>1, <1>3, MountKeeps DEF Dialog!Remount, Subject
<1>4. CASE kind.form # "page"
  BY <1>1, <1>4, CallsGoOnKeeps DEF Dialog!Remount
<1> QED
  BY <1>2, <1>3, <1>4

\* A dialog that closes keeps the form of a page that edits, and empties that of a target.
LEMMA ClosedKeeps ==
  ASSUME DialogInv, NEW event \in {"overlay", "cancel", "success", "error"}, Dialog!Emptied(event), open' = NoTarget,
         UNCHANGED <<kind, row, list, meant, early>>, CallsGoOn
  PROVE  DialogInv'
<1> USE DEF DialogInv, CallsGoOn
<1>1. Dialog!TypeOK'
  BY BlankForm DEF Dialog!TypeOK, Dialog!Emptied
<1>2. SavesStand'
  BY DEF SavesStand, Stands, Dialog!Omitted
<1>3. CASE kind.form = "target"
  <2>1. form' = Dialog!Blank /\ author' = Dialog!Nobody /\ saved' = FALSE
    BY <1>3 DEF Dialog!Emptied
  <2>2. FilledInFor' /\ NeverAgain' /\ OnlyOwn'
    BY <1>3, <2>1, BlankForm DEF FilledInFor, NeverAgain, OnlyOwn
  <2>3. EditsKept'
    BY <1>3, <2>1, BlankForm DEF EditsKept, OneCall, CallKeeps, FormKeeps, CallFromForm, Subject, Dialog!Omitted
  <2> QED
    BY <1>1, <1>2, <2>2, <2>3
<1>4. CASE kind.form # "target"
  <2>1. kind.form = "page"
    BY <1>4 DEF Dialog!TypeOK, Dialog!Kind
  <2>2. FilledInFor' /\ OnlyOwn'
    BY <1>4 DEF FilledInFor, OnlyOwn
  <2>3. NeverAgain'
    BY <2>1, DialogKinds DEF NeverAgain, Dialog!Emptied
  <2>4. CASE kind.edits
    <3>1. UNCHANGED <<form, author>>
      BY <1>4, <2>1, <2>4, DialogKinds DEF Dialog!Emptied
    <3>2. EditsKept'
      BY <2>1, <3>1 DEF EditsKept, OneCall, CallKeeps, FormKeeps, CallFromForm, Subject, Dialog!Omitted
    <3> QED
      BY <1>1, <1>2, <2>2, <2>3, <3>2
  <2>5. CASE ~kind.edits
    BY <1>1, <1>2, <2>2, <2>3, <2>5 DEF EditsKept
  <2> QED
    BY <2>4, <2>5
<1> QED
  BY <1>3, <1>4

LEMMA CloseKeeps == ASSUME DialogInv, NEW way \in Dialog!Ways, Dialog!Close(way) PROVE DialogInv'
<1>1. CallsGoOn
  BY LeaveGoesOn DEF Dialog!Close, DialogInv
<1> QED
  BY <1>1, ClosedKeeps DEF Dialog!Close, Dialog!Ways

LEMMA EndsKeeps ==
  ASSUME DialogInv, NEW c \in Calls, NEW event \in {"success", "error"}, Dialog!Ends(c, event)
  PROVE  DialogInv'
<1>1. CallsGoOn
  BY EndsGoesOn DEF DialogInv
<1>2. CASE event \in kind.closes
  BY <1>1, <1>2, ClosedKeeps DEF Dialog!Ends
<1>3. CASE event \notin kind.closes
  <2>1. UNCHANGED <<kind, row, list, open, form, author, saved, meant, early>>
    BY <1>3 DEF Dialog!Ends
  <2> QED
    BY <1>1, <2>1, CallsGoOnKeeps
<1> QED
  BY <1>2, <1>3

LEMMA TypeKeeps ==
  ASSUME DialogInv, NEW f \in Fields, NEW v \in Values, Dialog!Type(f, v) PROVE DialogInv'
<1> USE DEF DialogInv, Dialog!Type
<1>1. Dialog!TypeOK'
  BY DEF Dialog!TypeOK, Dialog!Form, Dialog!Author
<1>2. FilledInFor' /\ NeverAgain' /\ OnlyOwn' /\ SavesStand'
  BY DEF FilledInFor, NeverAgain, OnlyOwn, SavesStand, Stands, Live, Dialog!TypeOK, Dialog!Author, Dialog!Omitted
<1>3. EditsKept'
  <2>1. kind.edits => Subject = open /\ Subject' = open
    BY DEF Subject, OnlyOwn
  <2> QED
    BY <2>1 DEF EditsKept, OneCall, CallKeeps, FormKeeps, CallFromForm, Live, Dialog!TypeOK,
       Dialog!Form, Dialog!Author, Dialog!Omitted
<1> QED
  BY <1>1, <1>2, <1>3

LEMMA SubmitKeeps == ASSUME DialogInv, NEW c \in Calls, Dialog!Submit(c) PROVE DialogInv'
<1> DEFINE new == [target |-> open, form |-> form, author |-> author, again |-> saved,
                   here |-> TRUE, mine |-> TRUE, at |-> "sent"]
<1> USE DEF DialogInv, Dialog!Submit
<1>1. new \in Dialog!Call
  BY DEF Dialog!Call, Dialog!TypeOK
<1>2. /\ call' = [call EXCEPT ![c] = new] /\ call'[c] = new /\ ~Live(c)
      /\ \A d \in Calls : d # c => call'[d] = call[d]
  BY DEF Dialog!TypeOK, Live
<1>3. /\ new.target = open /\ new.form = form /\ new.author = author /\ new.again = saved
      /\ new.at = "sent"
  OBVIOUS
<1> HIDE DEF new
<1>4. Dialog!TypeOK'
  BY <1>1, <1>2 DEF Dialog!TypeOK
<1>5. FilledInFor' /\ NeverAgain' /\ OnlyOwn' /\ SavesStand'
  <2>1. SavesStand'
    BY DEF SavesStand, Stands, Dialog!Omitted
  <2>2. FilledInFor'
    BY <1>2, <1>3 DEF FilledInFor, Live
  <2>3. NeverAgain'
    BY <1>2, <1>3 DEF NeverAgain, Live
  <2>4. OnlyOwn'
    BY <1>2, <1>3 DEF OnlyOwn, Live
  <2> QED
    BY <2>1, <2>2, <2>3, <2>4
<1>6. EditsKept'
  <2> SUFFICES ASSUME kind.edits, ~early' PROVE OneCall' /\ CallKeeps' /\ FormKeeps' /\ CallFromForm'
    BY DEF EditsKept
  <2>1. ~early /\ \A d \in Calls : ~Live(d)
    BY DEF Live
  <2>2. \A d \in Calls : Live(d)' => d = c
    BY <1>2, <2>1 DEF Live
  <2>3. Subject = open /\ open \in Targets
    BY DEF Subject, OnlyOwn, Dialog!TypeOK
  <2> QED
    BY <1>2, <1>3, <2>1, <2>2, <2>3 DEF EditsKept, OneCall, CallKeeps, FormKeeps, CallFromForm, Subject, Dialog!Omitted
<1> QED
  BY <1>4, <1>5, <1>6

LEMMA CommitKeeps == ASSUME DialogInv, NEW c \in Calls, Dialog!Commit(c) PROVE DialogInv'
<1> DEFINE t == call[c].target
           old == call[c]
           sent == [f \in Fields |-> IF kind.omits /\ old.form[f] = Empty THEN row[t][f]
                                     ELSE old.form[f]]
<1> USE DEF DialogInv
<1>1. /\ Live(c) /\ old \in Dialog!Call /\ old.at = "sent"
      /\ call'[c] = [old EXCEPT !.at = "committed"]
      /\ \A d \in Calls : d # c => call'[d] = call[d]
  BY DEF Dialog!Commit, Dialog!TypeOK, Live
<1>2. /\ call'[c].target = old.target /\ call'[c].form = old.form /\ call'[c].author = old.author
      /\ call'[c].again = old.again /\ call'[c].at = "committed" /\ call'[c] \in Dialog!Call
  BY <1>1 DEF Dialog!Call
<1>3. call' \in [Calls -> Dialog!Call \cup {NoCall}] /\ UNCHANGED <<kind, list, open, form, author, saved, early>>
  BY <1>2 DEF Dialog!Commit, Dialog!TypeOK
<1>4. \A d \in Calls : Live(d)' => /\ Live(d) /\ call'[d].target = call[d].target
                                   /\ call'[d].form = call[d].form /\ call'[d].author = call[d].author
                                   /\ call'[d].again = call[d].again
  BY <1>1, <1>2 DEF Live
<1>5. FilledInFor' /\ NeverAgain' /\ OnlyOwn'
  BY <1>3, <1>4 DEF FilledInFor, NeverAgain, OnlyOwn
<1>6. CASE ~kind.edits
  <2>1. UNCHANGED <<row, meant>>
    BY <1>6 DEF Dialog!Commit
  <2> QED
    BY <1>3, <1>5, <1>6, <2>1 DEF EditsKept, SavesStand, Stands, Dialog!TypeOK, Dialog!Omitted
<1>7. CASE kind.edits
  <2>1. t \in Targets /\ old.form \in Dialog!Form
    BY <1>1 DEF Dialog!Call
  <2>2. /\ row' = [row EXCEPT ![t] = sent]
        /\ meant' = [meant EXCEPT ![t] = [f \in Fields |-> IF old.author[f] = t THEN old.form[f]
                                                           ELSE meant[t][f]]]
    BY <1>7, <2>1 DEF Dialog!Commit, Dialog!Saved, Dialog!TypeOK
  <2>3. [f \in Fields |-> IF old.author[f] = t THEN old.form[f] ELSE meant[t][f]]
          \in [Fields -> Values \cup {NoValue}]
    BY <2>1 DEF Dialog!TypeOK, Dialog!Form
  <2>4. sent \in Dialog!Form
    BY <2>1 DEF Dialog!TypeOK, Dialog!Form
  <2>5. Dialog!TypeOK'
    BY <1>3, <2>4, <2>1, <2>2, <2>3 DEF Dialog!TypeOK
  <2>6. \A f \in Fields : /\ row'[t][f] = IF kind.omits /\ old.form[f] = Empty THEN row[t][f]
                                          ELSE old.form[f]
                          /\ old.author[f] = t => meant'[t][f] = old.form[f]
                          /\ old.author[f] # t => meant'[t][f] = meant[t][f]
    BY <2>1, <2>2, <2>3 DEF Dialog!TypeOK
  <2>7. \A u \in Targets : u # t => row'[u] = row[u] /\ meant'[u] = meant[u]
    BY <2>1, <2>2 DEF Dialog!TypeOK
  <2> HIDE DEF t, old
  <2>8. ASSUME ~early PROVE OneCall' /\ CallKeeps' /\ FormKeeps' /\ CallFromForm' /\ Stands'
    <3>1. \A d \in Calls : Live(d)' => d = c
      BY <1>1, <1>4, <1>7, <2>8 DEF EditsKept, OneCall
    <3>2. OneCall' /\ CallKeeps' /\ CallFromForm'
      BY <1>2, <1>3, <1>4, <1>7, <2>8, <3>1 DEF EditsKept, OneCall, CallKeeps, CallFromForm, Subject, Dialog!Omitted
    <3>3. \A f \in Fields : t = Subject /\ old.author[f] = t => author[f] = t
      BY <1>1, <1>7, <2>8 DEF EditsKept, CallFromForm, t, old
    <3>4. FormKeeps'
      BY <1>3, <1>7, <2>6, <2>7, <2>8, <3>3 DEF EditsKept, FormKeeps, Subject, Dialog!Omitted
    <3>5. \A f \in Fields : old.author[f] = t \/ meant[t][f] \in {NoValue, old.form[f]}
                           \/ Dialog!Omitted(t, f)
      BY <1>1, <1>7, <2>8 DEF EditsKept, CallKeeps, t, old, Dialog!Omitted
    <3>6. Stands'
      BY <1>3, <2>6, <2>7, <2>8, <3>5 DEF SavesStand, Stands, Dialog!Omitted
    <3> QED
      BY <3>2, <3>4, <3>6
  <2> QED
    BY <1>3, <1>5, <2>5, <2>8 DEF EditsKept, SavesStand
<1> QED
  BY <1>6, <1>7

LEMMA ForeignKeeps ==
  ASSUME DialogInv, NEW t \in Targets, NEW f \in Fields, NEW v \in Values, Dialog!Foreign(t, f, v)
  PROVE  DialogInv'
<1> USE DEF DialogInv, Dialog!Foreign
<1>1. Dialog!TypeOK'
  BY DEF Dialog!TypeOK, Dialog!Form
<1>2. FilledInFor' /\ NeverAgain' /\ OnlyOwn'
  BY DEF FilledInFor, NeverAgain, OnlyOwn, Live
<1>3. meant'[t][f] = NoValue
  BY DEF Dialog!TypeOK
<1>4. \A u \in Targets, g \in Fields :
         <<u, g>> # <<t, f>> => meant'[u][g] = meant[u][g] /\ row'[u][g] = row[u][g]
  BY DEF Dialog!TypeOK, Dialog!Form
<1>5. \A u \in Targets, g \in Fields :
         meant'[u][g] = NoValue \/ (meant'[u][g] = meant[u][g] /\ row'[u][g] = row[u][g])
  BY <1>3, <1>4
<1>6. EditsKept'
  <2>1. CallKeeps => CallKeeps'
    <3>1. \A c \in Calls : Live(c) => call[c].target \in Targets
      BY DEF Dialog!TypeOK, Dialog!Call, Live
    <3> QED
      BY <1>5, <3>1 DEF CallKeeps, Live, Dialog!Omitted
  <2> QED
    BY <1>5, <2>1 DEF EditsKept, OneCall, FormKeeps, CallFromForm, Live, Subject, Dialog!Omitted
<1>7. SavesStand'
  BY <1>5 DEF SavesStand, Stands, Dialog!Omitted
<1> QED
  BY <1>1, <1>2, <1>6, <1>7

LEMMA DialogStep == DialogInv /\ [Dialog!Next]_dialogVars => DialogInv'
<1> SUFFICES ASSUME DialogInv, [Dialog!Next]_dialogVars PROVE DialogInv'
  OBVIOUS
<1>1. ASSUME NEW c \in Calls, Dialog!Answer(c) \/ Dialog!Fail(c) PROVE DialogInv'
  BY <1>1, EndsKeeps DEF Dialog!Answer, Dialog!Fail
<1>2. CASE UNCHANGED dialogVars
  BY <1>2 DEF dialogVars, DialogInv, FilledInFor, NeverAgain, OnlyOwn, EditsKept, OneCall, CallKeeps,
     FormKeeps, CallFromForm, SavesStand, Stands, Live, Subject, Dialog!TypeOK, Dialog!Omitted
<1> QED
  BY <1>1, <1>2, LoadKeeps, OpenKeeps, RemountKeeps, TypeKeeps, ForeignKeeps, CloseKeeps, SubmitKeeps,
     CommitKeeps DEF Dialog!Next

-----------------------------------------------------------------------------
\* A page follows one part; the others keep their state.
LEMMA PartsStep ==
  ASSUME [PagesNext]_pageVars
  PROVE  [Dialog!Next]_dialogVars /\ [Squad!MCNext]_squadVars
BY DEF PagesNext, pageVars

LEMMA DialogsSafe == PagesSpec => []DialogInv
<1>1. PagesInit => DialogInv
  BY DialogInit DEF PagesInit
<1>2. DialogInv /\ [PagesNext]_pageVars => DialogInv'
  BY DialogStep, PartsStep
<1> QED
  BY <1>1, <1>2, PTL DEF PagesSpec

\* The dialogs of the club, the league, a player's name and a season: a form that was not opened
\* before the list came back, nor submitted while an earlier submission was under way, restores
\* nothing that its user saved otherwise, for any number of rows, fields and other admins; but that
\* a field was emptied, the form of a club does not save (clubs/[id]/page.tsx:255).
THEOREM SavesStandTogether == PagesSpec => []OwnSavesStand
<1>1. DialogInv => OwnSavesStand
  BY DEF DialogInv, SavesStand, Stands, OwnSavesStand, Dialog!OwnSavesStand
<1> QED
  BY <1>1, DialogsSafe, PTL

\* What a dialog added, and was told so, is not what it submits next, although its callback may
\* come when the dialog has been closed and opened again (onSuccess of the dialogs that add).
THEOREM AddedOnce == PagesSpec => []NotSubmittedAgain
<1>1. DialogInv => NotSubmittedAgain
  BY DEF DialogInv, NeverAgain, NotSubmittedAgain, Dialog!NotSubmittedAgain, Live
<1> QED
  BY <1>1, DialogsSafe, PTL

\* A dialog that is mounted for a row submits for that row what was filled in for it, whatever
\* requests of earlier rows are answered meanwhile.
THEOREM RowsNotMixedUp == PagesSpec => []TypedForTarget
<1>1. DialogInv => TypedForTarget
  BY RowDialogKinds DEF DialogInv, FilledInFor, TypedForTarget, Dialog!TypedForTarget, Live
<1> QED
  BY <1>1, DialogsSafe, PTL

-----------------------------------------------------------------------------
(***************************************************************************)
(* Squad submissions, with one page of the league.  A squad that is        *)
(* reviewed may be submitted again while the dialog that approves it is    *)
(* open, and the new submission be approved only if it is reviewed first;  *)
(* that takes another dialog, and then the list again.  A second league    *)
(* admin could review it meanwhile.                                        *)
(***************************************************************************)
OneLeaguePage == \A p, q \in LeaguePages : p = q

\* Unless the league admin has acted on a list that was not fetched, a page from which what is
\* reviewed may be approved shows the submission that was reviewed.
ReviewedIsShown ==
  ~rash /\ profile # NoRow /\ profile.status = "reviewed" =>
    \A q \in LeaguePages : league[q].round = round \/ (q \in unseen /\ league[q].action = NoAction)

SquadInv == Squad!TypeOK /\ ReviewedIsShown

LEMMA SquadInit == Squad!MCInit => SquadInv
BY PagesAssumption DEF Squad!MCInit, Squad!Init, Squad!TypeOK, SquadInv, ReviewedIsShown

\* The club submits, and two clubs unlock, what is not reviewed.
LEMMA ClubKeeps ==
  ASSUME SquadInv, Squad!ClubNext \/ Squad!Unlock, UNCHANGED <<unseen, rash>> PROVE SquadInv'
<1> DEFINE Typed == club' \in [ClubPages -> [shown : Squad!Status \cup {NoRow, Unloaded}, warning : BOOLEAN,
                                            step : {"idle", "create", "list", "submit"}]]
<1> USE DEF SquadInv, Squad!TypeOK, Squad!Status
<1>1. ASSUME NEW p \in ClubPages, NEW step \in {"idle", "create", "list", "submit"}, Squad!Goto(p, step)
      PROVE  Typed
  BY <1>1 DEF Squad!Goto
<1>2. ASSUME NEW p \in ClubPages,
             \/ Squad!Load(p) \/ Squad!SubmitAnyway(p) \/ Squad!Dismiss(p) \/ Squad!List(p)
             \/ Squad!Fail(p) \/ \E yes \in BOOLEAN : Squad!Click(p, yes)
      PROVE  Typed /\ UNCHANGED <<profile, round, league>>
  <2>1. Squad!Current \in Squad!Status \cup {NoRow}
    BY DEF Squad!Current
  <2>2. Squad!Load(p) => Typed
    BY <2>1 DEF Squad!Load
  <2>3. Squad!FirstStep(p) \in {"create", "submit"}
    BY DEF Squad!FirstStep
  <2>4. Squad!SubmitAnyway(p) \/ Squad!Dismiss(p) => Typed
    <3>1. CASE Squad!Dismiss(p)
      <4>1. club' = [club EXCEPT ![p] = [club[p] EXCEPT !.warning = FALSE]]
        BY <3>1 DEF Squad!Dismiss
      <4> QED
        BY <4>1, ZenonT(60)
    <3>2. CASE Squad!SubmitAnyway(p)
      <4> DEFINE new == [club[p] EXCEPT !.warning = FALSE, !.step = Squad!FirstStep(p)]
      <4>1. new \in [shown : Squad!Status \cup {NoRow, Unloaded}, warning : BOOLEAN,
                     step : {"idle", "create", "list", "submit"}]
        BY <2>3, ZenonT(60)
      <4>2. club' = [club EXCEPT ![p] = new]
        BY <3>2 DEF Squad!SubmitAnyway
      <4> QED
        BY <4>1, <4>2
    <3> QED
      BY <3>1, <3>2
  <2>5. Squad!List(p) \/ Squad!Fail(p) => Typed
    BY <1>1 DEF Squad!List, Squad!Fail
  <2>6. ASSUME NEW yes \in BOOLEAN, Squad!Click(p, yes) PROVE Typed
    <3>1. CASE yes
      BY <1>1, <2>3, <2>6, <3>1 DEF Squad!Click
    <3>2. CASE ~yes
      BY <2>6, <3>2, ZenonT(60) DEF Squad!Click
    <3> QED
      BY <3>1, <3>2
  <2>7. UNCHANGED <<profile, round, league>>
    BY <1>2 DEF Squad!Load, Squad!SubmitAnyway, Squad!Dismiss, Squad!List, Squad!Fail, Squad!Click
  <2> QED
    BY <1>2, <2>2, <2>4, <2>5, <2>6, <2>7
<1>3. ASSUME NEW p \in ClubPages, Squad!Create(p) \/ Squad!LoseCreated(p)
      PROVE  /\ Squad!TypeOK' /\ UNCHANGED <<round, league>>
             /\ profile' = profile \/ profile'.status # "reviewed"
  <2>1. Typed
    BY <1>1, <1>3 DEF Squad!Create, Squad!LoseCreated
  <2>2. profile' = profile \/ profile' = [status |-> "draft", late |-> FALSE]
    BY <1>3 DEF Squad!Create, Squad!LoseCreated
  <2>3. UNCHANGED <<round, league>>
    BY <1>3 DEF Squad!Create, Squad!LoseCreated
  <2>4. [status |-> "draft", late |-> FALSE] \in [status : Squad!Status, late : BOOLEAN]
    OBVIOUS
  <2>5. profile' \in [status : Squad!Status, late : BOOLEAN] \cup {NoRow}
    BY <2>2, <2>4
  <2>6. profile' = profile \/ profile'.status # "reviewed"
    BY <2>2
  <2> QED
    BY <2>1, <2>3, <2>5, <2>6
<1>4. ASSUME NEW p \in ClubPages, NEW late \in BOOLEAN, Squad!Submit(p, late)
      PROVE  /\ Squad!TypeOK' /\ UNCHANGED league
             /\ UNCHANGED <<profile, round>> \/ profile'.status # "reviewed"
  BY <1>1, <1>4, PagesAssumption DEF Squad!Submit
<1>5. CASE Squad!Unlock
  BY <1>5 DEF Squad!Unlock, ReviewedIsShown
<1> QED
  BY <1>2, <1>3, <1>4, <1>5 DEF Squad!ClubNext, ReviewedIsShown

LEMMA SquadStep == OneLeaguePage /\ SquadInv /\ [Squad!MCNext]_squadVars => SquadInv'
<1> SUFFICES ASSUME OneLeaguePage, SquadInv, [Squad!MCNext]_squadVars PROVE SquadInv'
  OBVIOUS
<1> USE PagesAssumption DEF SquadInv, Squad!TypeOK, Squad!Status, Squad!Decisions, OneLeaguePage
<1>1. ASSUME NEW q \in LeaguePages, Squad!Loads(q) PROVE SquadInv'
  <2>1. Squad!Current \in Squad!Status \cup {NoRow}
    BY DEF Squad!Current
  <2> DEFINE new == [league[q] EXCEPT !.shown = Squad!Current, !.round = round]
  <2>2. /\ new \in [shown : Squad!Status \cup {NoRow, Unloaded}, round : 0..MaxRounds,
                   action : Squad!Decisions \cup {NoAction}]
        /\ new.round = round
    BY <2>1
  <2>3. league' = [league EXCEPT ![q] = new]
    BY <1>1 DEF Squad!Loads, Squad!LoadLeague
  <2> HIDE DEF new
  <2>4. Squad!TypeOK' /\ league'[q].round = round
    BY <1>1, <2>2, <2>3, ZenonT(60) DEF Squad!Loads, Squad!LoadLeague
  <2> QED
    BY <1>1, <2>4 DEF Squad!Loads, Squad!LoadLeague, ReviewedIsShown
<1>2. ASSUME NEW q \in LeaguePages, Squad!Opens(q) PROVE SquadInv'
  <2>1. PICK target \in Squad!Decisions : Squad!Open(q, target)
    BY <1>2 DEF Squad!Opens
  <2>2. league' = [league EXCEPT ![q].action = target] /\ UNCHANGED <<profile, round, club>>
    BY <2>1 DEF Squad!Open
  <2>3. Squad!TypeOK' /\ league'[q].round = league[q].round
    BY <2>2
  <2>4. ~rash' => ~rash /\ q \notin unseen
    BY <1>2 DEF Squad!Opens
  <2> QED
    BY <2>2, <2>3, <2>4 DEF ReviewedIsShown
<1>3. ASSUME NEW q \in LeaguePages, Squad!Decides(q) PROVE SquadInv'
  BY <1>3 DEF Squad!Decides, Squad!Decide, ReviewedIsShown
<1>4. ASSUME NEW q \in LeaguePages, Squad!Loses(q) PROVE SquadInv'
  BY <1>4 DEF Squad!Loses, Squad!LoseDecided, ReviewedIsShown
<1>5. ASSUME NEW q \in LeaguePages, Squad!Cancel(q), UNCHANGED <<unseen, rash>> PROVE SquadInv'
  BY <1>5 DEF Squad!Cancel, ReviewedIsShown
<1>6. CASE UNCHANGED squadVars
  BY <1>6 DEF squadVars, ReviewedIsShown
<1> QED
  BY <1>1, <1>2, <1>3, <1>4, <1>5, <1>6, ClubKeeps DEF Squad!MCNext

\* A squad becomes approved by a decision on a reviewed one, or by an unlock.
Approves ==
  (profile' # NoRow /\ profile'.status = "approved" /\ Squad!Current # "approved")
    => \/ rash
       \/ profile.late /\ Squad!Submitted
       \/ \E q \in LeaguePages : league[q].action = "approved" /\ league[q].round = round

LEMMA ApprovalStep == SquadInv /\ [Squad!MCNext]_squadVars => [Approves]_(Squad!vars)
<1> SUFFICES ASSUME SquadInv, Squad!MCNext PROVE Approves \/ UNCHANGED Squad!vars
  BY DEF squadVars, Squad!vars
<1> USE DEF SquadInv, Squad!TypeOK, Squad!Status, Squad!Decisions, Squad!Current, Approves
<1>1. ASSUME NEW q \in LeaguePages, Squad!Decide(q) \/ Squad!LoseDecided(q) PROVE Approves
  BY <1>1, PagesAssumption DEF Squad!Decide, Squad!LoseDecided, Squad!Transitions, ReviewedIsShown
<1>2. CASE Squad!Unlock
  BY <1>2 DEF Squad!Unlock, Squad!Submitted
<1>3. ASSUME NEW p \in ClubPages, NEW late \in BOOLEAN, Squad!Submit(p, late) PROVE Approves
  BY <1>3 DEF Squad!Submit
<1>4. ASSUME NEW p \in ClubPages, Squad!Create(p) \/ Squad!LoseCreated(p) PROVE Approves
  BY <1>4 DEF Squad!Create, Squad!LoseCreated
<1>5. UNCHANGED profile => Approves
  OBVIOUS
<1> QED
  BY <1>1, <1>2, <1>3, <1>4, <1>5
     DEF Squad!MCNext, Squad!Loads, Squad!LoadLeague, Squad!Opens, Squad!Open, Squad!Decides, Squad!Loses,
         Squad!Cancel, Squad!ClubNext, Squad!Load, Squad!SubmitAnyway, Squad!Dismiss, Squad!List,
         Squad!Fail, Squad!Click

\* If one league admin works in one tab, and fetches the list between two decisions, a squad is
\* approved as the page shows it, however many pages the club has open and whatever requests are
\* lost (TransitionDialog of the submissions page, POST .../submit/ of what is reviewed).
THEOREM ShownIsApproved == OneLeaguePage => (PagesSpec => ApprovesWhatWasShown)
<1> SUFFICES ASSUME OneLeaguePage PROVE PagesSpec => ApprovesWhatWasShown
  OBVIOUS
<1>1. PagesInit => SquadInv
  BY SquadInit DEF PagesInit
<1>2. SquadInv /\ [PagesNext]_pageVars => SquadInv' /\ [Approves]_(Squad!vars)
  BY SquadStep, ApprovalStep, PartsStep
<1>3. PagesSpec => [][Approves]_(Squad!vars)
  BY <1>1, <1>2, PTL DEF PagesSpec
<1> QED
  BY <1>3 DEF ApprovesWhatWasShown, Squad!ApprovesWhatWasShown, Approves
=============================================================================
