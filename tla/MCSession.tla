----------------------------- MODULE MCSession ------------------------------
(***************************************************************************)
(* Two API clients, a browser and an administrator of one user, with the   *)
(* history of which handlers have overlapped.                              *)
(***************************************************************************)
EXTENDS Session, TLC

CONSTANTS api1, api2, browser, admin

Symmetry == Permutations(ApiClients)

\* passwordOverlap: two handlers that change the password ran at once.
\* logoutOverlap: a session was opened or ended while a logout was in progress.
VARIABLES passwordOverlap, logoutOverlap

history == <<passwordOverlap, logoutOverlap>>

ChangesPassword(x) == At(x, "responded") \/ At(x, "resetting") \/ At(x, "password_set")
LogsOut(c) == At(c, "signed_out") \/ At(c, "logging_out")

Parties == Clients \cup Admins
ChangingPassword == \E x \in Parties : ChangesPassword(x)
ChangesOverlap == \E x, y \in Parties : x # y /\ ChangesPassword(x) /\ ChangesPassword(y)
LoggingOut == \E x \in Parties : LogsOut(x)
LogoutsOverlap == \E x, y \in Parties : x # y /\ LogsOut(x) /\ LogsOut(y)

Opens == \E c \in Clients : token'[c] # token[c] /\ token'[c] # NoToken /\ token'[c].live

\* Where the properties say nothing of what comes after, nothing more is explored.
StillClaimed == ~(logoutOverlap /\ (passwordOverlap \/ deaths > 0))

MCInit == Init /\ passwordOverlap = FALSE /\ logoutOverlap = FALSE

MCNext ==
  /\ Next
  /\ passwordOverlap' = (passwordOverlap \/ ChangesOverlap')
  /\ logoutOverlap' = (logoutOverlap \/ LogoutsOverlap' \/ (Opens /\ LoggingOut))

MCSpec == MCInit /\ [][MCNext]_<<vars, history>>

-----------------------------------------------------------------------------
(* Properties *)

\* Between two handlers, the row says that the password must be changed exactly when Cognito
\* will ask for it, unless a handler has died or two of them overlapped.
PasswordFlagAgrees ==
  ~ChangingPassword /\ deaths = 0 /\ ~passwordOverlap
    => forceChange = (password = "temporary")

\* "so the user is effectively logged out immediately": when a logout has ended, no token of
\* the sessions it ended is accepted, unless logouts overlapped or a handler has died.
\* (routers/auth.py:122.)  The docstring of dependencies/__init__.py:31-33 says the opposite, that
\* the current ID token still works until its exp: it describes the code without the check of
\* last_logout_at in the same file.
SignedOutRefused ==
  \A c \in Clients :
    ~LoggingOut /\ deaths = 0 /\ ~logoutOverlap
      /\ token[c] # NoToken /\ ~token[c].live
    => ~Accepted(token[c].issued)

\* A session that Cognito has not ended is refused only in the second of the logout before it.
LiveSessionAccepted ==
  \A c \in Clients :
    token[c] # NoToken /\ token[c].live /\ ~Expired(token[c].issued) /\ ~logoutOverlap
    => Accepted(token[c].issued) \/ Iat(token[c].issued) = Iat(lastLogout)
=============================================================================
