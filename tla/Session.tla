------------------------------ MODULE Session ------------------------------
(***************************************************************************)
(* The sessions and the password of one user: login, challenge, refresh,   *)
(* logout and revocation (app/routers/auth.py, app/services/cognito.py,    *)
(* get_current_user), the password reset of an administrator               *)
(* (user_service.py) and the frontend's routes (frontend/app/api/auth).    *)
(* Cognito is external: it issues tokens, signs all sessions of the user   *)
(* out, and keeps the password.                                            *)
(*                                                                         *)
(* The clock counts ticks, TicksPerSecond of them to a second: a token's   *)
(* iat has whole seconds, users.last_logout_at is exact.  Issuing tokens   *)
(* takes a tick.  API clients hold all the tokens they were given; the     *)
(* frontend sends its cookie, the ID token, for everything.                *)
(***************************************************************************)
EXTENDS Integers

CONSTANTS ApiClients, Browsers, Admins,
          MaxTime, MaxDeaths,  \* bounds on the clock, and on the handlers that die
          TicksPerSecond,
          Lifetime,            \* exp - iat, in ticks
          NoToken, NoTime, Idle

Clients == ApiClients \cup Browsers

ASSUME SessionAssumption ==
  /\ MaxTime \in Nat /\ MaxDeaths \in Nat
  /\ TicksPerSecond \in Nat \ {0} /\ Lifetime \in Nat
  /\ NoTime \notin Int /\ ApiClients \cap Browsers = {}

\* issued: when the client's tokens were issued; live: Cognito has not signed the session out.
Token == [issued : 0 .. MaxTime, live : BOOLEAN]

\* The step of the handler that a client or an administrator waits for, with what the handler
\* has read: the time of a logout, users.force_password_change of a reset.
Challenged == [at |-> "challenged"]
Responded  == [at |-> "responded"]
SignedOut  == [at |-> "signed_out"]
Call == {Challenged, Responded, SignedOut}
          \cup [at : {"logging_out"}, time : 0 .. MaxTime]
          \cup [at : {"resetting", "password_set"}, flag : BOOLEAN]

ASSUME NullAssumption == NoToken \notin Token /\ Idle \notin Call

VARIABLES now,
          token,          \* per client
          lastLogout,     \* users.last_logout_at
          password,       \* in Cognito
          forceChange,    \* users.force_password_change
          call,           \* per client and administrator
          deaths

vars == <<now, token, lastLogout, password, forceChange, call, deaths>>
row == <<lastLogout, forceChange>>

\* create_user: Cognito makes a temporary password.
Init == /\ now = 0
        /\ token = [c \in Clients |-> NoToken]
        /\ lastLogout = NoTime
        /\ password = "temporary" /\ forceChange = TRUE
        /\ call = [x \in Clients \cup Admins |-> Idle]
        /\ deaths = 0

Passes == now < MaxTime /\ now' = now + 1

Tick == Passes /\ UNCHANGED <<token, row, password, call, deaths>>

Step(x, from, to) == call[x] = from /\ call' = [call EXCEPT ![x] = to]
At(x, label) == call[x] # Idle /\ call[x].at = label

Receives(c) == Passes /\ token' = [token EXCEPT ![c] = [issued |-> now, live |-> TRUE]]

-----------------------------------------------------------------------------
(* Login and challenge *)

Login(c) ==
  /\ call[c] = Idle /\ password = "permanent"
  /\ Receives(c)
  /\ UNCHANGED <<row, password, call, deaths>>

\* NEW_PASSWORD_REQUIRED
LoginChallenged(c) ==
  /\ password = "temporary" /\ Step(c, Idle, Challenged)
  /\ UNCHANGED <<now, token, row, password, deaths>>

\* Cognito takes the new password while the password is temporary.
RespondNewPassword(c) ==
  /\ password = "temporary" /\ Step(c, Challenged, Responded)
  /\ password' = "permanent"
  /\ UNCHANGED <<now, token, row, deaths>>

\* The user gives up, or Cognito's challenge session has ended.
ChallengeEnds(c) ==
  /\ Step(c, Challenged, Idle)
  /\ UNCHANGED <<now, token, row, password, deaths>>

\* Mutant: the flag is left to the administrator.
FlagKept == forceChange

FlagCleared == FALSE

\* complete_challenge clears the flag and returns the tokens.
CompleteChallenge(c) ==
  /\ Step(c, Responded, Idle)
  /\ forceChange' = FlagCleared
  /\ Receives(c)
  /\ UNCHANGED <<lastLogout, password, deaths>>

-----------------------------------------------------------------------------
(* Tokens *)

Expired(issued) == now > issued + Lifetime

\* iat: the second in which the token was issued.
Iat(issued) == (issued \div TicksPerSecond) * TicksPerSecond

\* Mutant: tokens of the second after the logout count as issued before it.
RevokedWithLeeway(issued) ==
  lastLogout # NoTime /\ Iat(issued) < lastLogout + TicksPerSecond

\* The revocation check of get_current_user.
Revoked(issued) == lastLogout # NoTime /\ Iat(issued) < lastLogout

Accepted(issued) == ~Expired(issued) /\ ~Revoked(issued)

\* Cognito does not know last_logout_at.  The frontend has no route that refreshes.
Refresh(c) ==
  /\ c \in ApiClients /\ call[c] = Idle /\ token[c] # NoToken /\ token[c].live
  /\ Receives(c)
  /\ UNCHANGED <<row, password, call, deaths>>

-----------------------------------------------------------------------------
(* Logout *)

\* GlobalSignOut takes the access token of a live session, and ends all sessions.
GlobalSignOut(c) ==
  /\ c \in ApiClients /\ token[c] # NoToken /\ token[c].live /\ ~Expired(token[c].issued)
  /\ Step(c, Idle, SignedOut)
  /\ token' = [d \in Clients |-> IF token[d] = NoToken THEN NoToken
                                                       ELSE [token[d] EXCEPT !.live = FALSE]]
  /\ UNCHANGED <<now, row, password, deaths>>

TakeTime(c) ==
  /\ Step(c, SignedOut, [at |-> "logging_out", time |-> now])
  /\ UNCHANGED <<now, token, row, password, deaths>>

\* Mutant: the column has whole seconds.
StampedSecond(t) == Iat(t)

Stamped(t) == t

\* The time is committed later than it was taken.
CommitLogout(c) ==
  /\ At(c, "logging_out") /\ Step(c, call[c], Idle)
  /\ lastLogout' = Stamped(call[c].time)
  /\ UNCHANGED <<now, token, password, forceChange, deaths>>

\* The frontend's logout route sends the ID token: GlobalSignOut refuses it, the error is
\* swallowed and the cookies are cleared.
BrowserLogout(c) ==
  /\ c \in Browsers /\ call[c] = Idle /\ token[c] # NoToken
  /\ token' = [token EXCEPT ![c] = NoToken]
  /\ UNCHANGED <<now, row, password, call, deaths>>

-----------------------------------------------------------------------------
(* Password reset by an administrator *)

\* The row is loaded, with the flag.
BeginReset(a) ==
  /\ Step(a, Idle, [at |-> "resetting", flag |-> forceChange])
  /\ UNCHANGED <<now, token, row, password, deaths>>

\* AdminSetUserPassword, not permanent.
SetTemporaryPassword(a) ==
  /\ At(a, "resetting") /\ Step(a, call[a], [call[a] EXCEPT !.at = "password_set"])
  /\ password' = "temporary"
  /\ UNCHANGED <<now, token, row, deaths>>

\* Cognito refuses: the action ends with an error.
ResetFails(a) ==
  /\ At(a, "resetting") /\ Step(a, call[a], Idle)
  /\ UNCHANGED <<now, token, row, password, deaths>>

\* The session writes the flag only if it differs from the value it loaded.
CommitReset(a) ==
  /\ At(a, "password_set") /\ Step(a, call[a], Idle)
  /\ forceChange' = IF call[a].flag THEN forceChange ELSE TRUE
  /\ UNCHANGED <<now, token, lastLogout, password, deaths>>

\* The process of a handler dies, or its commit fails.
HandlerDies(x) ==
  /\ deaths < MaxDeaths /\ deaths' = deaths + 1
  /\ call[x] \notin {Idle, Challenged}
  /\ call' = [call EXCEPT ![x] = Idle]
  /\ UNCHANGED <<now, token, row, password>>

-----------------------------------------------------------------------------
ClientStep(c) == \/ Login(c) \/ LoginChallenged(c) \/ RespondNewPassword(c) \/ ChallengeEnds(c)
                 \/ CompleteChallenge(c) \/ Refresh(c) \/ GlobalSignOut(c) \/ TakeTime(c)
                 \/ CommitLogout(c) \/ BrowserLogout(c) \/ HandlerDies(c)

AdminStep(a) == \/ BeginReset(a) \/ SetTemporaryPassword(a) \/ ResetFails(a) \/ CommitReset(a)
                \/ HandlerDies(a)

Next == Tick \/ (\E c \in Clients : ClientStep(c)) \/ (\E a \in Admins : AdminStep(a))

Spec == Init /\ [][Next]_vars
=============================================================================
