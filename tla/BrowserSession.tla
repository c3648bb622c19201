---------------------------- MODULE BrowserSession ----------------------------
(***************************************************************************)
(* The sessions of one browser: its tabs share the cookie with the ID      *)
(* token, which only the route handlers under app/api and middleware.ts    *)
(* read; each tab keeps the identity that useCurrentUser fetched in its    *)
(* query cache.  The pages of the dashboard are one page here, and the     *)
(* server's sessions are those of module Session, seen from outside: live  *)
(* or not.                                                                 *)
(***************************************************************************)
EXTENDS Naturals

CONSTANTS Tabs, Users,
          Elsewhere,  \* the tabs that are not followed: they sign in and out in the same browser
          Sessions,  \* numbered, one per login
          Calls,     \* requests to app/api/auth under way
          NoUser, NoSession, NoAsk, NoCall

VARIABLES owner,   \* of each session, or NoUser
          live,    \* the sessions whose token the server accepts
          cookie,  \* the session of fl_id_token, or NoSession
          tab,     \* per tab: the page, the identity in its cache, the request for it
          call     \* per call: the tab, what it asks, the session it carries or got

vars == <<owner, live, cookie, tab, call>>

Pages == {"login", "force_password", "dashboard"}
\* full: with the governance roles.
Identity == [user : Users, full : BOOLEAN]
Ask == [session : Sessions \cup {NoSession}]
Tab == [page : Pages, me : Identity \cup {NoUser}, stale : BOOLEAN, ask : Ask \cup {NoAsk}]
Call == [by : Tabs \cup {Elsewhere}, kind : {"login", "logout"},
         session : Sessions \cup {NoSession}, done : BOOLEAN]

TypeOK ==
  /\ owner \in [Sessions -> Users \cup {NoUser}]
  /\ live \in SUBSET Sessions /\ cookie \in Sessions \cup {NoSession}
  /\ tab \in [Tabs -> Tab]
  /\ call \in [Calls -> Call \cup {NoCall}]

Init ==
  /\ owner = [s \in Sessions |-> NoUser] /\ live = {} /\ cookie = NoSession
  /\ tab = [t \in Tabs |-> [page |-> "login", me |-> NoUser, stale |-> FALSE, ask |-> NoAsk]]
  /\ call = [c \in Calls |-> NoCall]

-----------------------------------------------------------------------------
\* Mutant: pages of the dashboard open without a cookie.
LooseRoute(page, jar) == IF page = "login" /\ jar # NoSession THEN "dashboard" ELSE page

\* middleware.ts
Route(page, jar) ==
  IF page = "dashboard" /\ jar = NoSession THEN "login"
  ELSE IF page = "login" /\ jar # NoSession THEN "dashboard"
  ELSE page

Outdated(r) == r.me = NoUser \/ r.stale

\* A page that opens mounts useCurrentUser; the request takes the cookie along.
Opened(r, page, jar) ==
  LET asks == page = "dashboard" /\ Outdated(r) /\ r.ask = NoAsk
  IN  [r EXCEPT !.page = page, !.ask = IF asks THEN [session |-> jar] ELSE @]

\* router.push, or a click: the tab keeps its cache.
Push(t, page, jar) ==
  tab' = IF t \in Tabs THEN [tab EXCEPT ![t] = Opened(tab[t], Route(page, jar), jar)] ELSE tab

Visit(t, page) ==
  /\ page \in {"login", "dashboard"}
  /\ Push(t, page, cookie)
  /\ UNCHANGED <<owner, live, cookie, call>>

\* A full load, which forgets the cache and the requests of the tab.
Reload(t, page) ==
  /\ page \in {"login", "dashboard"}
  /\ LET empty == [tab[t] EXCEPT !.me = NoUser, !.stale = FALSE, !.ask = NoAsk]
     IN  tab' = [tab EXCEPT ![t] = Opened(empty, Route(page, cookie), cookie)]
  /\ call' = [c \in Calls |-> IF call[c] # NoCall /\ call[c].by = t THEN NoCall ELSE call[c]]
  /\ UNCHANGED <<owner, live, cookie>>

-----------------------------------------------------------------------------
Under(c, kind, done) == call[c] # NoCall /\ call[c].kind = kind /\ call[c].done = done
Ends(c) == call' = [call EXCEPT ![c] = NoCall]
Sends(c, t, kind, s) ==
  /\ call[c] = NoCall
  /\ call' = [call EXCEPT ![c] = [by |-> t, kind |-> kind, session |-> s, done |-> FALSE]]

\* One of the two forms; "loading" disables their buttons.
SubmitLogin(c, t) ==
  /\ t \in Tabs => tab[t].page \in {"login", "force_password"}
  /\ \A d \in Calls : call[d] # NoCall => call[d].by # t \/ call[d].kind # "login"
  /\ Sends(c, t, "login", NoSession)
  /\ UNCHANGED <<owner, live, cookie, tab>>

Authenticate(c, s, u) ==
  /\ Under(c, "login", FALSE)
  /\ owner[s] = NoUser /\ \A r \in Sessions : r < s => owner[r] # NoUser
  /\ owner' = [owner EXCEPT ![s] = u] /\ live' = live \cup {s}
  /\ call' = [call EXCEPT ![c].session = s, ![c].done = TRUE]
  /\ UNCHANGED <<cookie, tab>>

\* NEW_PASSWORD_REQUIRED: no cookie yet.
Challenge(c) ==
  /\ Under(c, "login", FALSE) /\ call[c].by \in Tabs /\ tab[call[c].by].page = "login"
  /\ tab' = [tab EXCEPT ![call[c].by].page = "force_password"]
  /\ Ends(c)
  /\ UNCHANGED <<owner, live, cookie>>

\* The backend refuses; a challenge that it does not know any more starts over.
Refuse(c, unauthorized) ==
  /\ Under(c, "login", FALSE)
  /\ tab' = IF unauthorized /\ call[c].by \in Tabs /\ tab[call[c].by].page = "force_password"
            THEN [tab EXCEPT ![call[c].by].page = "login"] ELSE tab
  /\ Ends(c)
  /\ UNCHANGED <<owner, live, cookie>>

\* The response sets the cookie, and onLogin or onForcePassword opens the dashboard.
SignedIn(c) ==
  /\ Under(c, "login", TRUE)
  /\ cookie' = call[c].session
  /\ Push(call[c].by, "dashboard", cookie')
  /\ Ends(c)
  /\ UNCHANGED <<owner, live>>

\* A response that does not arrive sets no cookie: the form shows an error, Sign out nothing.
Lose(c) ==
  /\ call[c] # NoCall
  /\ Ends(c)
  /\ UNCHANGED <<owner, live, cookie, tab>>

\* Nothing keeps a user from clicking twice.
SignOut(c, t) ==
  /\ t \in Tabs => tab[t].page = "dashboard"
  /\ Sends(c, t, "logout", cookie)
  /\ UNCHANGED <<owner, live, cookie, tab>>

\* POST /auth/logout wants the access token and gets the ID token: it refuses before it stamps
\* the logout, and no session ends.
EndSessions(c) ==
  /\ Under(c, "logout", FALSE)
  /\ call' = [call EXCEPT ![c].done = TRUE]
  /\ UNCHANGED <<owner, live, cookie, tab>>

SignedOut(c) ==
  /\ Under(c, "logout", TRUE)
  /\ cookie' = NoSession
  /\ Push(call[c].by, "login", cookie')
  /\ Ends(c)
  /\ UNCHANGED <<owner, live>>

-----------------------------------------------------------------------------
\* Mutant: staleTime is Infinity.
NeverAges(t) == FALSE

\* useCurrentUser: the identity goes stale after five minutes, and is fetched again when the
\* window gets the focus back.
Age(t) ==
  /\ ~Outdated(tab[t])
  /\ tab' = [tab EXCEPT ![t].stale = TRUE]
  /\ UNCHANGED <<owner, live, cookie, call>>

Focus(t) ==
  /\ tab[t].page = "dashboard" /\ Outdated(tab[t]) /\ tab[t].ask = NoAsk
  /\ tab' = [tab EXCEPT ![t].ask = [session |-> cookie]]
  /\ UNCHANGED <<owner, live, cookie, call>>

Shows(t, s, full) ==
  tab' = [tab EXCEPT ![t] = [@ EXCEPT !.me = [user |-> owner[s], full |-> full],
                                      !.stale = FALSE, !.ask = NoAsk]]

Recognised(t) ==
  /\ tab[t].ask # NoAsk /\ tab[t].ask.session \in live
  /\ Shows(t, tab[t].ask.session, TRUE)
  /\ UNCHANGED <<owner, live, cookie, call>>

\* Without an answer other than 401 from the backend, the route makes do with the claims.
FromClaims(t) ==
  /\ tab[t].ask # NoAsk /\ tab[t].ask.session # NoSession
  /\ Shows(t, tab[t].ask.session, FALSE)
  /\ UNCHANGED <<owner, live, cookie, call>>

\* 401, or no answer: the query keeps its data.
NotRecognised(t) ==
  /\ tab[t].ask # NoAsk
  /\ tab' = [tab EXCEPT ![t].ask = NoAsk]
  /\ UNCHANGED <<owner, live, cookie, call>>

\* Data that nothing watches are dropped.
Collect(t) ==
  /\ tab[t].page # "dashboard" /\ tab[t].me # NoUser /\ tab[t].ask = NoAsk
  /\ tab' = [tab EXCEPT ![t].me = NoUser, ![t].stale = FALSE]
  /\ UNCHANGED <<owner, live, cookie, call>>

-----------------------------------------------------------------------------
\* Max-Age of the cookie, which ends before the token.
ExpireCookie ==
  /\ cookie # NoSession /\ cookie' = NoSession
  /\ UNCHANGED <<owner, live, tab, call>>

ExpireToken(s) ==
  /\ s \in live /\ cookie # s
  /\ live' = live \ {s}
  /\ UNCHANGED <<owner, cookie, tab, call>>

SessionsOf(u) == {s \in Sessions : owner[s] = u}

\* An administrator, or the user on another device, ends the sessions of a user.
Revoke(u) ==
  /\ live' = live \ SessionsOf(u)
  /\ UNCHANGED <<owner, cookie, tab, call>>

Next ==
  \/ \E t \in Tabs : \/ \E page \in Pages : Visit(t, page) \/ Reload(t, page)
                     \/ Age(t) \/ Focus(t) \/ Recognised(t) \/ FromClaims(t) \/ NotRecognised(t)
                     \/ Collect(t)
  \/ \E c \in Calls : \/ \E t \in Tabs \cup {Elsewhere} : SubmitLogin(c, t) \/ SignOut(c, t)
                      \/ \E s \in Sessions, u \in Users : Authenticate(c, s, u)
                      \/ Challenge(c) \/ SignedIn(c) \/ Lose(c) \/ EndSessions(c) \/ SignedOut(c)
                      \/ \E yes \in BOOLEAN : Refuse(c, yes)
  \/ ExpireCookie
  \/ \E s \in Sessions : ExpireToken(s)
  \/ \E u \in Users : Revoke(u)

Spec == Init /\ [][Next]_vars

AskEnds(t) == Recognised(t) \/ FromClaims(t) \/ NotRecognised(t)

\* A tab that is used: it gets the focus and opens pages; requests end, and while the session is
\* live not all of them fail.
Fairness ==
  \A t \in Tabs :
    /\ WF_vars(Age(t)) /\ WF_vars(Focus(t))
    /\ WF_vars(Visit(t, "dashboard"))
    /\ WF_vars(AskEnds(t)) /\ SF_vars(Recognised(t))

FairSpec == Spec /\ Fairness

-----------------------------------------------------------------------------
\* Whoever else used the tab before, and whatever the backend answered meanwhile: as long as the
\* session lasts the tab comes to show its user, again and again with all governance roles.
IdentityConverges ==
  \A t \in Tabs, s \in Sessions :
    <>[](tab[t].page = "dashboard" /\ cookie = s /\ s \in live)
      => /\ <>[](tab[t].me # NoUser => tab[t].me.user = owner[s])
         /\ []<>(tab[t].me # NoUser => tab[t].me.full)

\* As cookies expire, a tab of the dashboard whose session is over gets to the sign-in page, or
\* is signed in again: middleware.ts keeps it there only while there is a cookie.
DeadSessionEnds ==
  WF_vars(ExpireCookie) =>
    \A t \in Tabs :
      (tab[t].page = "dashboard" /\ cookie \notin live) ~> (tab[t].page = "login" \/ cookie \in live)
=============================================================================
