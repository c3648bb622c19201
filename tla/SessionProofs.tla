---------------------------- MODULE SessionProofs ----------------------------
(***************************************************************************)
(* The sessions, the password and the signing keys of MCTokens, for any    *)
(* number of clients, administrators, threads and keys, any clock and any  *)
(* length of a token's life.  None of the properties is inductive: each    *)
(* needs what the handlers in progress have done by halves.                *)
(***************************************************************************)
EXTENDS MCTokens, TLAPS

TypeOK ==
  /\ now \in 0 .. MaxTime
  /\ token \in [Clients -> Token \cup {NoToken}]
  /\ lastLogout \in 0 .. MaxTime \cup {NoTime}
  /\ password \in {"temporary", "permanent"} /\ forceChange \in BOOLEAN
  /\ call \in [Parties -> Call \cup {Idle}]
  /\ deaths \in 0 .. MaxDeaths
  /\ passwordOverlap \in BOOLEAN /\ logoutOverlap \in BOOLEAN

-----------------------------------------------------------------------------
(* Types *)

LEMMA CallTypes ==
  /\ Challenged \in Call /\ Responded \in Call /\ SignedOut \in Call
  /\ Challenged # Idle /\ Responded # Idle /\ SignedOut # Idle
  /\ Challenged.at = "challenged" /\ Responded.at = "responded" /\ SignedOut.at = "signed_out"
BY NullAssumption DEF Call, Challenged, Responded, SignedOut

LEMMA LogoutType ==
  ASSUME NEW t \in 0 .. MaxTime
  PROVE  LET r == [at |-> "logging_out", time |-> t]
         IN  r \in Call /\ r # Idle /\ r.at = "logging_out" /\ r.time = t
BY NullAssumption DEF Call

LEMMA ResetType ==
  ASSUME NEW f \in BOOLEAN, NEW l \in {"resetting", "password_set"}
  PROVE  LET r == [at |-> l, flag |-> f] IN r \in Call /\ r # Idle /\ r.at = l /\ r.flag = f
BY NullAssumption DEF Call

LEMMA CallCases ==
  ASSUME TypeOK, NEW x \in Parties
  PROVE  /\ At(x, "logging_out") => call[x].time \in 0 .. MaxTime
         /\ At(x, "resetting") => call[x] = [at |-> "resetting", flag |-> call[x].flag]
         /\ At(x, "resetting") \/ At(x, "password_set") => call[x].flag \in BOOLEAN
BY DEF TypeOK, At, Call, Challenged, Responded, SignedOut

LEMMA TemporaryType ==
  ASSUME TypeOK, NEW a \in Parties, At(a, "resetting")
  PROVE  LET r == [call[a] EXCEPT !.at = "password_set"]
         IN  r \in Call /\ r # Idle /\ r.at = "password_set" /\ r.flag = call[a].flag
<1> DEFINE f == call[a].flag
<1>1. f \in BOOLEAN /\ call[a] = [at |-> "resetting", flag |-> f]
  BY CallCases
<1>2. [call[a] EXCEPT !.at = "password_set"] = [at |-> "password_set", flag |-> f]
  <2> HIDE DEF f
  <2> QED BY <1>1
<1> HIDE DEF f
<1>3. LET r == [at |-> "password_set", flag |-> f]
      IN  r \in Call /\ r # Idle /\ r.at = "password_set" /\ r.flag = f
  BY <1>1, ResetType
<1> QED
  BY <1>2, <1>3 DEF f

\* A token that is issued is new, and is of the second that ends.
LEMMA IssuedType ==
  ASSUME TypeOK, Passes
  PROVE  LET r == [issued |-> now, live |-> TRUE]
         IN  r \in Token /\ r # NoToken /\ r.issued = now /\ r.live
<1> DEFINE r == [issued |-> now, live |-> TRUE]
<1>1. now \in 0 .. MaxTime
  BY DEF TypeOK
<1>2. r \in Token
  BY <1>1 DEF Token
<1>3. r.issued = now /\ r.live
  OBVIOUS
<1> HIDE DEF r
<1>4. r # NoToken
  BY <1>2, NullAssumption
<1> QED
  BY <1>2, <1>3, <1>4 DEF r

LEMMA EndedType ==
  ASSUME TypeOK, NEW c \in Clients, token[c] # NoToken
  PROVE  LET r == [token[c] EXCEPT !.live = FALSE]
         IN  r \in Token /\ r # NoToken /\ r.issued = token[c].issued /\ ~r.live
BY NullAssumption DEF TypeOK, Token

\* A handler takes a step.
LEMMA Stepped ==
  ASSUME TypeOK, NEW x \in Parties, NEW to \in Call \cup {Idle}, call' = [call EXCEPT ![x] = to]
  PROVE  /\ call' \in [Parties -> Call \cup {Idle}] /\ call'[x] = to
         /\ \A y \in Parties : y # x => call'[y] = call[y]
BY DEF TypeOK

\* A client is given tokens.
LEMMA Received ==
  ASSUME TypeOK, NEW c \in Clients, Receives(c)
  PROVE  /\ now' = now + 1 /\ now' \in 0 .. MaxTime
         /\ token' \in [Clients -> Token \cup {NoToken}]
         /\ token'[c] # NoToken /\ token'[c].issued = now /\ token'[c].live
         /\ \A d \in Clients : d # c => token'[d] = token[d]
<1> DEFINE r == [issued |-> now, live |-> TRUE]
<1>1. r \in Token /\ r # NoToken /\ r.issued = now /\ r.live
  BY IssuedType DEF Receives
<1>2. token' = [token EXCEPT ![c] = r]
  BY DEF Receives
<1>3. now' = now + 1 /\ now' \in 0 .. MaxTime
  BY SessionAssumption DEF TypeOK, Receives, Passes
<1>4. r.issued = now /\ r.live
  OBVIOUS
<1> HIDE DEF r
<1> QED
  BY <1>1, <1>2, <1>3, <1>4 DEF TypeOK

LEMMA InitTypes == MCInit => TypeOK
<1> SUFFICES ASSUME MCInit PROVE TypeOK
  OBVIOUS
<1>1. 0 \in 0 .. MaxTime /\ 0 \in 0 .. MaxDeaths
  BY SessionAssumption
<1> QED
  BY <1>1 DEF MCInit, Init, TypeOK, Parties

LEMMA TypeStep == TypeOK /\ [MCNext]_sessionVars => TypeOK'
<1> SUFFICES ASSUME TypeOK, [MCNext]_sessionVars PROVE TypeOK'
  OBVIOUS
<1> USE DEF Parties
<1>1. CASE UNCHANGED sessionVars
  BY <1>1 DEF sessionVars, vars, history, TypeOK
<1>2. CASE MCNext
  <2>1. passwordOverlap' \in BOOLEAN /\ logoutOverlap' \in BOOLEAN
    BY <1>2 DEF MCNext, TypeOK
  <2>2. CASE Tick
    BY <2>1, <2>2, SessionAssumption DEF Tick, Passes, row, TypeOK
  <2>3. ASSUME NEW c \in Clients, Login(c) \/ Refresh(c) PROVE TypeOK'
    BY <2>1, <2>3, Received DEF Login, Refresh, row, TypeOK
  <2>4. ASSUME NEW c \in Clients, CompleteChallenge(c) PROVE TypeOK'
    BY <2>1, <2>4, Received, Stepped DEF CompleteChallenge, FlagCleared, Step, TypeOK
  <2>5. ASSUME NEW c \in Clients, LoginChallenged(c) \/ RespondNewPassword(c) \/ ChallengeEnds(c)
        PROVE  TypeOK'
    BY <2>1, <2>5, CallTypes, Stepped DEF LoginChallenged, RespondNewPassword, ChallengeEnds, Step, row, TypeOK
  <2>6. ASSUME NEW c \in Clients, GlobalSignOut(c) PROVE TypeOK'
    <3>1. call' \in [Parties -> Call \cup {Idle}]
      BY <2>6, CallTypes, Stepped DEF GlobalSignOut, Step
    <3>2. token' \in [Clients -> Token \cup {NoToken}]
      BY <2>6, EndedType DEF GlobalSignOut
    <3> QED
      BY <2>1, <2>6, <3>1, <3>2 DEF GlobalSignOut, row, TypeOK
  <2>7. ASSUME NEW c \in Clients, TakeTime(c) PROVE TypeOK'
    <3>1. call' \in [Parties -> Call \cup {Idle}]
      BY <2>7, LogoutType, Stepped DEF TakeTime, Step, TypeOK
    <3> QED
      BY <2>1, <2>7, <3>1 DEF TakeTime, row, TypeOK
  <2>8. ASSUME NEW c \in Clients, CommitLogout(c) PROVE TypeOK'
    BY <2>1, <2>8, CallCases, Stepped DEF CommitLogout, Stamped, Step, TypeOK
  <2>9. ASSUME NEW c \in Clients, BrowserLogout(c) PROVE TypeOK'
    BY <2>1, <2>9 DEF BrowserLogout, row, TypeOK
  <2>10. ASSUME NEW a \in Admins, BeginReset(a) PROVE TypeOK'
    <3>1. call' \in [Parties -> Call \cup {Idle}]
      BY <2>10, ResetType, Stepped DEF BeginReset, Step, TypeOK
    <3> QED
      BY <2>1, <2>10, <3>1 DEF BeginReset, row, TypeOK
  <2>11. ASSUME NEW a \in Admins, SetTemporaryPassword(a) PROVE TypeOK'
    <3>1. [call[a] EXCEPT !.at = "password_set"] \in Call
      BY <2>11, TemporaryType DEF SetTemporaryPassword
    <3>2. call' \in [Parties -> Call \cup {Idle}]
      BY <2>11, <3>1, Stepped DEF SetTemporaryPassword, Step
    <3> QED
      BY <2>1, <2>11, <3>2 DEF SetTemporaryPassword, row, TypeOK
  <2>12. ASSUME NEW a \in Admins, ResetFails(a) \/ CommitReset(a) PROVE TypeOK'
    BY <2>1, <2>12, Stepped DEF ResetFails, CommitReset, Step, row, TypeOK
  <2>13. ASSUME NEW x \in Parties, HandlerDies(x) PROVE TypeOK'
    BY <2>1, <2>13, Stepped, SessionAssumption DEF HandlerDies, row, TypeOK
  <2> QED
    BY <1>2, <2>2, <2>3, <2>4, <2>5, <2>6, <2>7, <2>8, <2>9, <2>10, <2>11, <2>12, <2>13
       DEF MCNext, Next, ClientStep, AdminStep
<1> QED
  BY <1>1, <1>2
-----------------------------------------------------------------------------
(* The flag of the row *)

\* The password of a user and the flag of its row, while one handler changes them.
FlagOf(x) ==
  /\ At(x, "responded") => password = "permanent"
  /\ At(x, "resetting") => forceChange = (password = "temporary") /\ call[x].flag = forceChange
  /\ At(x, "password_set") => password = "temporary" /\ call[x].flag = forceChange

FlagInv ==
  deaths = 0 /\ ~passwordOverlap =>
    /\ ~ChangesOverlap
    /\ \A x \in Parties : FlagOf(x)
    /\ ~ChangingPassword => forceChange = (password = "temporary")

\* A step that is not about the password.
LEMMA FlagFrame ==
  ASSUME FlagInv, deaths = 0, ~passwordOverlap, ~ChangesOverlap',
         password' = password, forceChange' = forceChange,
         \A x \in Parties : call'[x] = call[x] \/ (~ChangesPassword(x) /\ ~ChangesPassword(x)')
  PROVE  FlagInv'
BY DEF FlagInv, FlagOf, ChangingPassword, ChangesPassword, At

\* A step of the only handler that changes the password.
LEMMA FlagAlone ==
  ASSUME NEW x \in Parties, ~ChangesOverlap, ~ChangesOverlap',
         ChangesPassword(x) \/ ChangesPassword(x)',
         \A y \in Parties : y # x => call'[y] = call[y],
         FlagOf(x)', ~ChangesPassword(x)' => forceChange' = (password' = "temporary")
  PROVE  FlagInv'
<1>1. ASSUME NEW y \in Parties, y # x PROVE ~ChangesPassword(y) /\ ~ChangesPassword(y)'
  <2>1. ChangesPassword(y)' <=> ChangesPassword(y)
    BY <1>1 DEF ChangesPassword, At
  <2> QED
    BY <1>1, <2>1 DEF ChangesOverlap
<1>2. \A y \in Parties : FlagOf(y)'
  BY <1>1 DEF FlagOf, ChangesPassword
<1> QED
  BY <1>1, <1>2 DEF FlagInv, ChangingPassword

LEMMA FlagInit == MCInit => FlagInv
BY CallTypes DEF MCInit, Init, FlagInv, FlagOf, ChangesOverlap, ChangesPassword, At, Parties

LEMMA FlagStep == TypeOK /\ FlagInv /\ [MCNext]_sessionVars => FlagInv'
<1> SUFFICES ASSUME TypeOK, FlagInv, [MCNext]_sessionVars PROVE FlagInv'
  OBVIOUS
<1> USE DEF Parties
<1>1. CASE UNCHANGED sessionVars
  BY <1>1 DEF sessionVars, vars, history, FlagInv, FlagOf, ChangesOverlap, ChangingPassword,
              ChangesPassword, At
<1>2. CASE MCNext
  <2> SUFFICES ASSUME deaths' = 0, ~passwordOverlap' PROVE FlagInv'
    BY DEF FlagInv
  <2>1. ~passwordOverlap /\ ~ChangesOverlap'
    BY <1>2 DEF MCNext, TypeOK
  <2>2. CASE Tick
    BY <2>1, <2>2, FlagFrame DEF Tick, row
  <2>3. ASSUME NEW c \in Clients,
               Login(c) \/ LoginChallenged(c) \/ ChallengeEnds(c) \/ Refresh(c) \/ GlobalSignOut(c)
               \/ TakeTime(c) \/ CommitLogout(c) \/ BrowserLogout(c)
        PROVE  FlagInv'
    <3>1. password' = password /\ forceChange' = forceChange /\ deaths = 0
      BY <2>3 DEF Login, LoginChallenged, ChallengeEnds, Refresh, GlobalSignOut, TakeTime,
                  CommitLogout, BrowserLogout, row
    <3>2. \/ call' = call
          \/ ~ChangesPassword(c) /\ ~ChangesPassword(c)' /\ \A y \in Parties : y # c => call'[y] = call[y]
      <4>1. CASE Login(c) \/ Refresh(c) \/ BrowserLogout(c)
        BY <4>1 DEF Login, Refresh, BrowserLogout
      <4>2. CASE LoginChallenged(c) \/ ChallengeEnds(c) \/ GlobalSignOut(c)
        BY <4>2, CallTypes, Stepped
           DEF LoginChallenged, ChallengeEnds, GlobalSignOut, Step, ChangesPassword, At
      <4>3. CASE TakeTime(c)
        <5>1. now \in 0 .. MaxTime
          BY DEF TypeOK
        <5> QED
          BY <4>3, <5>1, CallTypes, LogoutType, Stepped DEF TakeTime, Step, ChangesPassword, At
      <4>4. CASE CommitLogout(c)
        BY <4>4, Stepped DEF CommitLogout, Step, ChangesPassword, At
      <4> QED
        BY <2>3, <4>1, <4>2, <4>3, <4>4
    <3> QED
      BY <2>1, <3>1, <3>2, FlagFrame
  <2>4. ASSUME NEW c \in Clients, RespondNewPassword(c) PROVE FlagInv'
    <3>1. At(c, "responded")' /\ call'[c] = Responded /\ \A y \in Parties : y # c => call'[y] = call[y]
      BY <2>4, CallTypes, Stepped DEF RespondNewPassword, Step, At
    <3>2. password' = "permanent" /\ deaths = 0
      BY <2>4 DEF RespondNewPassword
    <3>3. FlagOf(c)' /\ ChangesPassword(c)'
      BY <3>1, <3>2, CallTypes DEF FlagOf, ChangesPassword, At
    <3> QED
      BY <2>1, <3>1, <3>2, <3>3, FlagAlone DEF FlagInv
  <2>5. ASSUME NEW c \in Clients, CompleteChallenge(c) PROVE FlagInv'
    <3>1. call[c] = Responded /\ call'[c] = Idle /\ \A y \in Parties : y # c => call'[y] = call[y]
      BY <2>5, Stepped DEF CompleteChallenge, Step
    <3>2. forceChange' = FALSE /\ password' = password /\ deaths = 0
      BY <2>5 DEF CompleteChallenge, FlagCleared
    <3>3. At(c, "responded") /\ ChangesPassword(c) /\ ~ChangesPassword(c)' /\ FlagOf(c)'
      BY <3>1, CallTypes DEF FlagOf, ChangesPassword, At
    <3>4. password' = "permanent"
      BY <2>1, <3>2, <3>3 DEF FlagInv, FlagOf
    <3> QED
      BY <2>1, <3>1, <3>2, <3>3, <3>4, FlagAlone DEF FlagInv
  <2>6. ASSUME NEW a \in Admins, BeginReset(a) PROVE FlagInv'
    <3> DEFINE r == [at |-> "resetting", flag |-> forceChange]
    <3>1. r \in Call /\ r # Idle /\ r.at = "resetting" /\ r.flag = forceChange
      BY ResetType DEF TypeOK
    <3>2. call[a] = Idle /\ call' = [call EXCEPT ![a] = r]
      BY <2>6 DEF BeginReset, Step
    <3> HIDE DEF r
    <3>3. call'[a] = r /\ \A y \in Parties : y # a => call'[y] = call[y]
      BY <3>1, <3>2, Stepped
    <3>4. forceChange' = forceChange /\ password' = password /\ deaths = 0
      BY <2>6 DEF BeginReset, row
    <3>5. ChangesPassword(a)' /\ ~ChangesPassword(a)
      BY <3>1, <3>2, <3>3 DEF ChangesPassword, At
    <3>6. ~ChangingPassword
      BY <2>1, <3>3, <3>5 DEF ChangingPassword, ChangesOverlap, ChangesPassword, At
    <3>7. FlagOf(a)'
      BY <2>1, <3>1, <3>3, <3>4, <3>6 DEF FlagInv, FlagOf, At
    <3> QED
      BY <2>1, <3>3, <3>4, <3>5, <3>7, FlagAlone DEF FlagInv
  <2>7. ASSUME NEW a \in Admins, SetTemporaryPassword(a) PROVE FlagInv'
    <3> DEFINE r == [call[a] EXCEPT !.at = "password_set"]
    <3>1. r \in Call /\ r # Idle /\ r.at = "password_set" /\ r.flag = call[a].flag
      BY <2>7, TemporaryType DEF SetTemporaryPassword
    <3>2. At(a, "resetting") /\ call' = [call EXCEPT ![a] = r]
      BY <2>7 DEF SetTemporaryPassword, Step
    <3> HIDE DEF r
    <3>3. call'[a] = r /\ \A y \in Parties : y # a => call'[y] = call[y]
      BY <3>1, <3>2, Stepped
    <3>4. forceChange' = forceChange /\ password' = "temporary" /\ deaths = 0
      BY <2>7 DEF SetTemporaryPassword, row
    <3>5. ChangesPassword(a)' /\ ChangesPassword(a)
      BY <3>1, <3>2, <3>3 DEF ChangesPassword, At
    <3>6. call[a].flag = forceChange
      BY <2>1, <3>2, <3>4 DEF FlagInv, FlagOf
    <3>7. FlagOf(a)'
      BY <3>1, <3>3, <3>4, <3>6 DEF FlagOf, At
    <3> QED
      BY <2>1, <3>3, <3>4, <3>5, <3>7, FlagAlone DEF FlagInv
  <2>8. ASSUME NEW a \in Admins, ResetFails(a) \/ CommitReset(a) PROVE FlagInv'
    <3>1. call'[a] = Idle /\ \A y \in Parties : y # a => call'[y] = call[y]
      BY <2>8, Stepped DEF ResetFails, CommitReset, Step
    <3>2. password' = password /\ deaths = 0
      BY <2>8 DEF ResetFails, CommitReset
    <3>3. ChangesPassword(a) /\ ~ChangesPassword(a)' /\ FlagOf(a)'
      BY <2>8, <3>1 DEF ResetFails, CommitReset, FlagOf, ChangesPassword, At
    <3>4. forceChange' = (password' = "temporary")
      BY <2>1, <2>8, <3>2 DEF FlagInv, FlagOf, ResetFails, CommitReset, row, TypeOK
    <3> QED
      BY <2>1, <3>1, <3>2, <3>3, <3>4, FlagAlone DEF FlagInv
  <2>9. ASSUME NEW x \in Parties, HandlerDies(x) PROVE FALSE
    BY <2>9 DEF HandlerDies, TypeOK
  <2> QED
    BY <1>2, <2>2, <2>3, <2>4, <2>5, <2>6, <2>7, <2>8, <2>9 DEF MCNext, Next, ClientStep, AdminStep
<1> QED
  BY <1>1, <1>2
-----------------------------------------------------------------------------
(* The time of the logout *)

\* Tokens, and the times of logouts, are of the past.
Past ==
  /\ \A c \in Clients : token[c] # NoToken => token[c].issued < now
  /\ lastLogout # NoTime => lastLogout <= now
  /\ \A x \in Parties : At(x, "logging_out") => call[x].time <= now

\* A logout has ended the sessions, and will be later than all of them.
Ended ==
  /\ LoggingOut => \A c \in Clients : token[c] # NoToken => ~token[c].live
  /\ \A x \in Parties, c \in Clients :
       At(x, "logging_out") /\ token[c] # NoToken => token[c].issued < call[x].time

LiveAfterLogout ==
  lastLogout # NoTime =>
    \A c \in Clients : token[c] # NoToken /\ token[c].live => lastLogout <= token[c].issued
DeadBeforeLogout ==
  ~LoggingOut =>
    \A c \in Clients : token[c] # NoToken /\ ~token[c].live
                       => lastLogout # NoTime /\ token[c].issued < lastLogout

LogoutInv ==
  /\ Past
  /\ ~logoutOverlap => ~LogoutsOverlap /\ Ended /\ LiveAfterLogout
  /\ ~logoutOverlap /\ deaths = 0 => DeadBeforeLogout

LEMMA LogoutInit == MCInit => LogoutInv
BY CallTypes DEF MCInit, Init, LogoutInv, Past, Ended, LiveAfterLogout, DeadBeforeLogout,
                 LogoutsOverlap, LoggingOut, LogsOut, At, Parties

\* A step in which tokens are at most dropped, and a handler of a logout at most dies.
LEMMA LogoutFrame ==
  ASSUME TypeOK, LogoutInv, now' \in {now, now + 1}, lastLogout' = lastLogout,
         \A c \in Clients : token'[c] = token[c] \/ token'[c] = NoToken,
         \A x \in Parties : call'[x] = call[x] \/ ~LogsOut(x)',
         deaths' = 0 => deaths = 0 /\ \A x \in Parties : LogsOut(x) => call'[x] = call[x],
         ~logoutOverlap' => ~logoutOverlap /\ ~LogoutsOverlap'
  PROVE  LogoutInv'
<1>1. \A c \in Clients : token'[c] # NoToken => token'[c] = token[c]
  OBVIOUS
<1>2. \A x \in Parties : LogsOut(x)' => call'[x] = call[x] /\ LogsOut(x)
  BY DEF LogsOut, At
<1>3. \A x \in Parties : At(x, "logging_out")' => call'[x] = call[x] /\ At(x, "logging_out")
  BY <1>2 DEF LogsOut, At
<1>4. \A c \in Clients : token[c] # NoToken => token[c].issued \in 0 .. MaxTime
  BY DEF TypeOK, Token
<1>5. now \in Int /\ MaxTime \in Nat /\ now <= now'
  BY SessionAssumption DEF TypeOK
<1>6. lastLogout # NoTime => lastLogout \in 0 .. MaxTime
  BY DEF TypeOK
<1>7. \A x \in Parties : At(x, "logging_out") => call[x].time \in 0 .. MaxTime
  BY CallCases
<1>8. Past'
  BY <1>1, <1>3, <1>4, <1>5, <1>6, <1>7, SessionAssumption DEF LogoutInv, Past
<1>9. ~logoutOverlap' => ~LogoutsOverlap' /\ Ended' /\ LiveAfterLogout'
  BY <1>1, <1>2, <1>3 DEF LogoutInv, Ended, LiveAfterLogout, LoggingOut
<1>10. ~logoutOverlap' /\ deaths' = 0 => DeadBeforeLogout'
  BY <1>1, <1>2 DEF LogoutInv, DeadBeforeLogout, LoggingOut, LogsOut, At
<1> QED
  BY <1>8, <1>9, <1>10 DEF LogoutInv

\* A client is given tokens, while no handler takes a step in a logout.
LEMMA LogoutReceived ==
  ASSUME TypeOK, LogoutInv, NEW c \in Clients, Receives(c), lastLogout' = lastLogout,
         deaths' = deaths, \A x \in Parties : LogsOut(x) \/ LogsOut(x)' => call'[x] = call[x],
         ~logoutOverlap' => ~logoutOverlap /\ ~LogoutsOverlap' /\ ~(Opens /\ LoggingOut)
  PROVE  LogoutInv'
<1>1. /\ now' = now + 1 /\ token'[c] # NoToken /\ token'[c].issued = now /\ token'[c].live
      /\ \A d \in Clients : d # c => token'[d] = token[d]
  BY Received
<1>2. /\ \A d \in Clients : token[d] # NoToken => token[d].issued \in 0 .. MaxTime
      /\ lastLogout # NoTime => lastLogout \in 0 .. MaxTime
      /\ now \in 0 .. MaxTime /\ MaxTime \in Nat
  BY SessionAssumption DEF TypeOK, Token
<1>3. \A x \in Parties : At(x, "logging_out") => call[x].time \in 0 .. MaxTime
  BY CallCases
<1>4. \A x \in Parties : At(x, "logging_out")' => call'[x] = call[x] /\ At(x, "logging_out")
  BY DEF LogsOut, At
<1>5. \A x \in Parties : LogsOut(x)' <=> LogsOut(x)
  BY DEF LogsOut, At
<1>6. token'[c] # token[c]
  BY <1>1, <1>2 DEF LogoutInv, Past
<1>7. ~logoutOverlap' => ~logoutOverlap /\ ~LoggingOut /\ ~LoggingOut'
  BY <1>1, <1>5, <1>6 DEF Opens, LoggingOut
<1>8. Past'
  BY <1>1, <1>2, <1>3, <1>4 DEF LogoutInv, Past
<1>9. ~logoutOverlap' => Ended'
  BY <1>7 DEF Ended, LoggingOut, LogsOut
<1>10. ~logoutOverlap' => LiveAfterLogout'
  BY <1>1, <1>2, <1>7 DEF LogoutInv, LiveAfterLogout, Past
<1>11. ~logoutOverlap' /\ deaths' = 0 => DeadBeforeLogout'
  BY <1>1, <1>7 DEF LogoutInv, DeadBeforeLogout
<1> QED
  BY <1>8, <1>9, <1>10, <1>11 DEF LogoutInv

\* A step of the only logout in progress.
LEMMA LogoutAlone ==
  ASSUME NEW c \in Parties, LogsOut(c)', ~LogoutsOverlap',
         \A y \in Parties : y # c => call'[y] = call[y]
  PROVE  \A y \in Parties : y # c => ~LogsOut(y) /\ ~LogsOut(y)'
<1> SUFFICES ASSUME NEW y \in Parties, y # c PROVE ~LogsOut(y) /\ ~LogsOut(y)'
  OBVIOUS
<1>1. LogsOut(y)' <=> LogsOut(y)
  BY DEF LogsOut, At
<1> QED
  BY <1>1 DEF LogoutsOverlap

LEMMA SignOutStep ==
  ASSUME TypeOK, LogoutInv, NEW c \in Clients, GlobalSignOut(c),
         ~logoutOverlap' => ~logoutOverlap /\ ~LogoutsOverlap'
  PROVE  LogoutInv'
<1> USE DEF Parties
<1>1. /\ call'[c] = SignedOut /\ now' = now /\ lastLogout' = lastLogout
      /\ \A y \in Parties : y # c => call'[y] = call[y]
  BY CallTypes, Stepped DEF GlobalSignOut, Step, row
<1>2. LogsOut(c)' /\ ~At(c, "logging_out")' /\ LoggingOut'
  BY <1>1, CallTypes DEF LogsOut, LoggingOut, At
<1>3. \A d \in Clients : token'[d] # NoToken => /\ token[d] # NoToken /\ ~token'[d].live
                                                /\ token'[d].issued = token[d].issued
  BY EndedType DEF GlobalSignOut
<1>4. \A x \in Parties : At(x, "logging_out")' => x # c /\ call'[x] = call[x] /\ At(x, "logging_out")
  BY <1>1, <1>2 DEF At
<1>5. Past'
  BY <1>1, <1>3, <1>4 DEF LogoutInv, Past
<1>6. ~logoutOverlap' => Ended'
  BY <1>1, <1>2, <1>3, LogoutAlone DEF Ended, LogsOut
<1>7. LiveAfterLogout' /\ DeadBeforeLogout'
  BY <1>2, <1>3 DEF LiveAfterLogout, DeadBeforeLogout
<1> QED
  BY <1>5, <1>6, <1>7 DEF LogoutInv

LEMMA TakeTimeStep ==
  ASSUME TypeOK, LogoutInv, NEW c \in Clients, TakeTime(c),
         ~logoutOverlap' => ~logoutOverlap /\ ~LogoutsOverlap'
  PROVE  LogoutInv'
<1> USE DEF Parties
<1> DEFINE r == [at |-> "logging_out", time |-> now]
<1>1. now \in 0 .. MaxTime
  BY DEF TypeOK
<1>2. r \in Call /\ r # Idle /\ r.at = "logging_out" /\ r.time = now
  BY <1>1, LogoutType
<1>3. call[c] = SignedOut /\ call' = [call EXCEPT ![c] = r]
  BY DEF TakeTime, Step
<1> HIDE DEF r
<1>4. call'[c] = r /\ \A y \in Parties : y # c => call'[y] = call[y]
  BY <1>2, <1>3, Stepped
<1>5. now' = now /\ lastLogout' = lastLogout /\ token' = token /\ deaths' = deaths
  BY DEF TakeTime, row
<1>6. LogsOut(c) /\ LoggingOut /\ LogsOut(c)' /\ LoggingOut'
  BY <1>2, <1>3, <1>4, CallTypes DEF LogsOut, LoggingOut, At
<1>7. \A x \in Parties : At(x, "logging_out")' => x = c \/ (call'[x] = call[x] /\ At(x, "logging_out"))
  BY <1>4 DEF At
<1>8. Past'
  BY <1>1, <1>2, <1>4, <1>5, <1>7 DEF LogoutInv, Past
<1>9. ~logoutOverlap' => Ended'
  BY <1>2, <1>4, <1>5, <1>6, LogoutAlone DEF LogoutInv, Past, Ended, LogsOut
<1>10. ~logoutOverlap' => LiveAfterLogout' /\ DeadBeforeLogout'
  BY <1>5, <1>6 DEF LogoutInv, LiveAfterLogout, DeadBeforeLogout
<1> QED
  BY <1>8, <1>9, <1>10 DEF LogoutInv

LEMMA CommitLogoutStep ==
  ASSUME TypeOK, LogoutInv, NEW c \in Clients, CommitLogout(c),
         ~logoutOverlap' => ~logoutOverlap /\ ~LogoutsOverlap'
  PROVE  LogoutInv'
<1> USE DEF Parties
<1>1. /\ call'[c] = Idle /\ \A y \in Parties : y # c => call'[y] = call[y]
      /\ now' = now /\ token' = token /\ deaths' = deaths /\ lastLogout' = call[c].time
  BY Stepped DEF CommitLogout, Step, Stamped
<1>2. At(c, "logging_out") /\ LogsOut(c) /\ LoggingOut /\ ~LogsOut(c)'
  BY <1>1 DEF CommitLogout, LogsOut, LoggingOut, At
<1>3. call[c].time \in 0 .. MaxTime
  BY <1>2, CallCases
<1>4. lastLogout' # NoTime
  BY <1>1, <1>3, SessionAssumption
<1>5. \A x \in Parties : At(x, "logging_out")' => x # c /\ call'[x] = call[x] /\ At(x, "logging_out")
  BY <1>1 DEF At
<1>6. Past'
  BY <1>1, <1>2, <1>5 DEF LogoutInv, Past
<1>7. ~logoutOverlap' => /\ \A d \in Clients : token[d] # NoToken => ~token[d].live
                         /\ \A d \in Clients : token[d] # NoToken => token[d].issued < call[c].time
  BY <1>2 DEF LogoutInv, Ended
<1>8. ~logoutOverlap' => Ended'
  BY <1>1, <1>5, <1>7 DEF LogoutInv, Ended
<1>9. ~logoutOverlap' => LiveAfterLogout' /\ DeadBeforeLogout'
  BY <1>1, <1>4, <1>7 DEF LiveAfterLogout, DeadBeforeLogout
<1> QED
  BY <1>6, <1>8, <1>9 DEF LogoutInv

LEMMA LogoutStep == TypeOK /\ LogoutInv /\ [MCNext]_sessionVars => LogoutInv'
<1> SUFFICES ASSUME TypeOK, LogoutInv, [MCNext]_sessionVars PROVE LogoutInv'
  OBVIOUS
<1> USE DEF Parties
<1>1. CASE UNCHANGED sessionVars
  BY <1>1 DEF sessionVars, vars, history, LogoutInv, Past, Ended, LiveAfterLogout,
              DeadBeforeLogout, LogoutsOverlap, LoggingOut, LogsOut, At
<1>2. CASE MCNext
  <2>1. ~logoutOverlap' => ~logoutOverlap /\ ~LogoutsOverlap' /\ ~(Opens /\ LoggingOut)
    BY <1>2 DEF MCNext, TypeOK
  <2>2. CASE Tick
    BY <2>1, <2>2, LogoutFrame DEF Tick, Passes, row
  <2>3. ASSUME NEW c \in Clients, Login(c) \/ Refresh(c) PROVE LogoutInv'
    BY <2>1, <2>3, LogoutReceived DEF Login, Refresh, row
  <2>4. ASSUME NEW c \in Clients, CompleteChallenge(c) PROVE LogoutInv'
    <3>1. call[c] = Responded /\ call'[c] = Idle /\ \A y \in Parties : y # c => call'[y] = call[y]
      BY <2>4, Stepped DEF CompleteChallenge, Step
    <3>2. \A x \in Parties : LogsOut(x) \/ LogsOut(x)' => call'[x] = call[x]
      BY <3>1, CallTypes DEF LogsOut, At
    <3> QED
      BY <2>1, <2>4, <3>2, LogoutReceived DEF CompleteChallenge
  <2>5. ASSUME NEW c \in Clients, LoginChallenged(c) \/ RespondNewPassword(c) \/ ChallengeEnds(c)
        PROVE  LogoutInv'
    <3>1. /\ call[c] \in {Idle, Challenged} /\ call'[c] \in {Idle, Challenged, Responded}
          /\ \A y \in Parties : y # c => call'[y] = call[y]
      BY <2>5, CallTypes, Stepped DEF LoginChallenged, RespondNewPassword, ChallengeEnds, Step
    <3>2. ~LogsOut(c) /\ ~LogsOut(c)'
      BY <3>1, CallTypes DEF LogsOut, At
    <3>3. now' = now /\ token' = token /\ lastLogout' = lastLogout /\ deaths' = deaths
      BY <2>5 DEF LoginChallenged, RespondNewPassword, ChallengeEnds, row
    <3> QED
      BY <2>1, <3>1, <3>2, <3>3, LogoutFrame
  <2>6. ASSUME NEW c \in Clients, BrowserLogout(c) PROVE LogoutInv'
    <3>1. /\ \A d \in Clients : token'[d] = token[d] \/ token'[d] = NoToken
          /\ now' = now /\ lastLogout' = lastLogout /\ call' = call /\ deaths' = deaths
      BY <2>6 DEF BrowserLogout, row, TypeOK
    <3> QED
      BY <2>1, <3>1, LogoutFrame
  <2>7. ASSUME NEW a \in Admins,
               BeginReset(a) \/ SetTemporaryPassword(a) \/ ResetFails(a) \/ CommitReset(a)
        PROVE  LogoutInv'
    <3>1. now' = now /\ token' = token /\ lastLogout' = lastLogout /\ deaths' = deaths
      BY <2>7 DEF BeginReset, SetTemporaryPassword, ResetFails, CommitReset, row
    <3>2. /\ ~LogsOut(a) /\ ~LogsOut(a)' /\ \A y \in Parties : y # a => call'[y] = call[y]
      <4>1. CASE BeginReset(a)
        BY <4>1, ResetType, Stepped DEF BeginReset, Step, LogsOut, At, TypeOK
      <4>2. CASE SetTemporaryPassword(a)
        BY <4>2, TemporaryType, Stepped DEF SetTemporaryPassword, Step, LogsOut, At
      <4>3. CASE ResetFails(a) \/ CommitReset(a)
        BY <4>3, Stepped DEF ResetFails, CommitReset, Step, LogsOut, At
      <4> QED
        BY <2>7, <4>1, <4>2, <4>3
    <3> QED
      BY <2>1, <3>1, <3>2, LogoutFrame
  <2>8. ASSUME NEW x \in Parties, HandlerDies(x) PROVE LogoutInv'
    <3>1. call'[x] = Idle /\ \A y \in Parties : y # x => call'[y] = call[y]
      BY <2>8, Stepped DEF HandlerDies
    <3>2. now' = now /\ token' = token /\ lastLogout' = lastLogout /\ deaths' # 0
      BY <2>8 DEF HandlerDies, row, TypeOK
    <3>3. \A y \in Parties : call'[y] = call[y] \/ ~LogsOut(y)'
      BY <3>1 DEF LogsOut, At
    <3> QED
      BY <2>1, <3>2, <3>3, LogoutFrame
  <2> QED
    BY <1>2, <2>1, <2>2, <2>3, <2>4, <2>5, <2>6, <2>7, <2>8, SignOutStep, TakeTimeStep, CommitLogoutStep
       DEF MCNext, Next, ClientStep, AdminStep
<1> QED
  BY <1>1, <1>2
-----------------------------------------------------------------------------
(* The keys *)

Labels == {"fetch", "clear", "fill", "check", "get", "found", "unknown", "failed"}
LookupRecord == [at : Labels, key : Keys, left : SUBSET Keys, forced : BOOLEAN]

KeyTypes ==
  /\ published \subseteq Keys /\ cache \subseteq Keys
  /\ lookup \in [Threads -> LookupRecord \cup {NoLookup}]
  /\ lookupHistory \in [Threads -> [known : BOOLEAN, alone : BOOLEAN] \cup {NoLookup}]

\* The key is on its way to the thread: still in the response, or in the cache.
HasKey(t) ==
  /\ lookup[t].at = "clear" => lookup[t].key \in lookup[t].left
  /\ lookup[t].at = "fill" => lookup[t].key \in lookup[t].left \cup cache
  /\ lookup[t].at = "get" => lookup[t].key \in cache
  /\ lookup[t].at # "unknown"

KeyInv ==
  \A t \in Threads : lookup[t] # NoLookup /\ lookupHistory[t].known /\ lookupHistory[t].alone =>
    lookup[t].key \in published /\ Keyring!NobodyElse(t) /\ HasKey(t)

LEMMA KeysInit == TokensInit => KeyTypes /\ KeyInv
BY KeysAssumption DEF TokensInit, Keyring!MCInit, Keyring!Init, KeyTypes, KeyInv

\* A thread goes on to r.
LEMMA WentOn ==
  ASSUME KeyTypes, NEW t \in Threads, NEW r \in LookupRecord \cup {NoLookup},
         lookup' = [lookup EXCEPT ![t] = r]
  PROVE  /\ lookup' \in [Threads -> LookupRecord \cup {NoLookup}] /\ lookup'[t] = r
         /\ \A u \in Threads : u # t => lookup'[u] = lookup[u]
BY DEF KeyTypes

\* A step of a thread: only a refresh touches the cache, and a key that was on its way still is.
LEMMA ThreadStep ==
  ASSUME KeyTypes, NEW t \in Threads, Keyring!Lookup(t)
  PROVE  /\ lookup' \in [Threads -> LookupRecord \cup {NoLookup}]
         /\ \A u \in Threads : u # t => lookup'[u] = lookup[u]
         /\ published' = published /\ cache' \subseteq Keys
         /\ ~Keyring!Refreshing(t) => cache' = cache
         /\ lookup[t] = NoLookup /\ lookup'[t] # NoLookup => HasKey(t)'
         /\ lookup[t] # NoLookup /\ lookup'[t] # NoLookup /\ lookup[t].key \in published /\ HasKey(t)
            => HasKey(t)'
<1> DEFINE Goal == /\ lookup' \in [Threads -> LookupRecord \cup {NoLookup}]
                   /\ \A u \in Threads : u # t => lookup'[u] = lookup[u]
                   /\ published' = published /\ cache' \subseteq Keys
                   /\ ~Keyring!Refreshing(t) => cache' = cache
                   /\ lookup[t] = NoLookup /\ lookup'[t] # NoLookup => HasKey(t)'
                   /\ lookup[t] # NoLookup /\ lookup'[t] # NoLookup
                        /\ lookup[t].key \in published /\ HasKey(t) => HasKey(t)'
<1>1. ASSUME NEW k \in Keys, Keyring!Start(t, k) PROVE Goal
  <2> DEFINE r == [at |-> IF cache = {} \/ stale THEN "fetch" ELSE "check",
                   key |-> k, left |-> {}, forced |-> FALSE]
  <2>1. r \in LookupRecord /\ r.at \in {"fetch", "check"}
    BY DEF LookupRecord, Labels
  <2>2. lookup[t] = NoLookup /\ lookup' = [lookup EXCEPT ![t] = r]
    BY <1>1 DEF Keyring!Start
  <2> HIDE DEF r
  <2>3. published' = published /\ cache' = cache
    BY <1>1 DEF Keyring!Start
  <2> QED
    BY <2>1, <2>2, <2>3, WentOn DEF HasKey, KeyTypes
<1>2. ASSUME Keyring!Fetch(t) PROVE Goal
  <2> DEFINE r == [lookup[t] EXCEPT !.at = "clear", !.left = published]
  <2>1. lookup[t] \in LookupRecord /\ lookup[t] # NoLookup
    BY <1>2 DEF Keyring!Fetch, Keyring!At, KeyTypes
  <2>2. r \in LookupRecord /\ r.at = "clear" /\ r.left = published /\ r.key = lookup[t].key
    BY <2>1 DEF LookupRecord, Labels, KeyTypes
  <2>3. lookup' = [lookup EXCEPT ![t] = r]
    BY <1>2 DEF Keyring!Fetch
  <2> HIDE DEF r
  <2>4. published' = published /\ cache' = cache
    BY <1>2 DEF Keyring!Fetch
  <2> QED
    BY <2>1, <2>2, <2>3, <2>4, WentOn DEF HasKey, KeyTypes
<1>3. ASSUME Keyring!Fails(t) PROVE Goal
  <2> DEFINE r == [lookup[t] EXCEPT !.at = "failed", !.left = {}]
  <2>1. lookup[t] \in LookupRecord /\ lookup[t] # NoLookup
    BY <1>3 DEF Keyring!Fails, Keyring!At, KeyTypes
  <2>2. r \in LookupRecord /\ r.at = "failed"
    BY <2>1 DEF LookupRecord, Labels
  <2>3. lookup' = [lookup EXCEPT ![t] = r]
    BY <1>3 DEF Keyring!Fails
  <2> HIDE DEF r
  <2>4. published' = published /\ cache' = cache
    BY <1>3 DEF Keyring!Fails
  <2> QED
    BY <2>1, <2>2, <2>3, <2>4, WentOn DEF HasKey, KeyTypes
<1>4. ASSUME NEW l \in Labels, Keyring!Goto(t, l), lookup[t] # NoLookup
      PROVE  LET r == [lookup[t] EXCEPT !.at = l]
             IN  /\ r \in LookupRecord /\ r.at = l /\ r.key = lookup[t].key /\ r.left = lookup[t].left
                 /\ lookup' = [lookup EXCEPT ![t] = r]
  BY <1>4 DEF Keyring!Goto, KeyTypes, LookupRecord
<1>5. ASSUME Keyring!Clear(t) PROVE Goal
  <2>1. lookup[t] # NoLookup /\ lookup[t].at = "clear" /\ Keyring!Goto(t, "fill")
    BY <1>5 DEF Keyring!Clear, Keyring!At
  <2>2. PICK r \in LookupRecord : /\ r.at = "fill" /\ r.key = lookup[t].key /\ r.left = lookup[t].left
                                  /\ lookup' = [lookup EXCEPT ![t] = r]
    BY <1>4, <2>1 DEF Labels
  <2>3. published' = published /\ cache' = {} /\ Keyring!Refreshing(t)
    BY <1>5, <2>1 DEF Keyring!Clear, Keyring!Refreshing
  <2> QED
    BY <2>1, <2>2, <2>3, WentOn DEF HasKey
<1>6. ASSUME NEW k \in Keys, Keyring!Store(t, k) PROVE Goal
  <2> DEFINE r == [lookup[t] EXCEPT !.left = lookup[t].left \ {k}]
  <2>1. lookup[t] \in LookupRecord /\ lookup[t] # NoLookup /\ lookup[t].at = "fill"
    BY <1>6 DEF Keyring!Store, Keyring!At, KeyTypes
  <2>2. r \in LookupRecord /\ r.at = "fill" /\ r.left = lookup[t].left \ {k} /\ r.key = lookup[t].key
    BY <2>1 DEF LookupRecord
  <2>3. lookup' = [lookup EXCEPT ![t] = r]
    BY <1>6 DEF Keyring!Store
  <2> HIDE DEF r
  <2>4. published' = published /\ cache' = cache \cup {k} /\ Keyring!Refreshing(t)
    BY <1>6, <2>1 DEF Keyring!Store, Keyring!Refreshing
  <2> QED
    BY <2>1, <2>2, <2>3, <2>4, WentOn DEF HasKey, KeyTypes
<1>7. ASSUME Keyring!Refreshed(t) PROVE Goal
  <2>1. /\ lookup[t] # NoLookup /\ lookup[t].at = "fill" /\ lookup[t].left = {}
        /\ Keyring!Goto(t, Keyring!AfterRefresh(t))
    BY <1>7 DEF Keyring!Refreshed, Keyring!At
  <2>2. Keyring!AfterRefresh(t) \in {"get", "check"}
    BY DEF Keyring!AfterRefresh
  <2>3. PICK r \in LookupRecord : /\ r.at \in {"get", "check"} /\ r.key = lookup[t].key
                                  /\ lookup' = [lookup EXCEPT ![t] = r]
    BY <1>4, <2>1, <2>2 DEF Labels
  <2>4. published' = published /\ cache' = cache
    BY <1>7 DEF Keyring!Refreshed
  <2> QED
    BY <2>1, <2>3, <2>4, WentOn DEF HasKey, KeyTypes
<1>8. ASSUME Keyring!Check(t) PROVE Goal
  <2> DEFINE n == Keyring!NeedsRefresh(lookup[t].key)
             l == IF n THEN "fetch" ELSE "get"
             r == [lookup[t] EXCEPT !.at = l, !.forced = n]
  <2>1. lookup[t] \in LookupRecord /\ lookup[t] # NoLookup
    BY <1>8 DEF Keyring!Check, Keyring!At, KeyTypes
  <2>2. n \in BOOLEAN /\ (~n => lookup[t].key \in cache)
    BY DEF Keyring!NeedsRefresh
  <2>3. lookup' = [lookup EXCEPT ![t] = r]
    BY <1>8 DEF Keyring!Check
  <2> HIDE DEF n
  <2>4. l \in {"fetch", "get"} /\ (l = "get" => lookup[t].key \in cache)
    BY <2>2
  <2> HIDE DEF l
  <2>5. r \in LookupRecord /\ r.at = l /\ r.key = lookup[t].key
    BY <2>1, <2>2, <2>4 DEF LookupRecord, Labels
  <2> HIDE DEF r
  <2>6. published' = published /\ cache' = cache
    BY <1>8 DEF Keyring!Check
  <2> QED
    BY <2>1, <2>3, <2>4, <2>5, <2>6, WentOn DEF HasKey, KeyTypes
<1>9. ASSUME Keyring!Get(t) PROVE Goal
  <2> DEFINE l == IF lookup[t].key \in cache THEN "found" ELSE "unknown"
  <2>1. lookup[t] # NoLookup /\ lookup[t].at = "get" /\ Keyring!Goto(t, l)
    BY <1>9 DEF Keyring!Get, Keyring!At
  <2>2. l \in {"found", "unknown"} /\ (l = "unknown" => lookup[t].key \notin cache)
    OBVIOUS
  <2> HIDE DEF l
  <2>3. l \in Labels
    BY <2>2 DEF Labels
  <2>4. LET r == [lookup[t] EXCEPT !.at = l]
        IN  r \in LookupRecord /\ r.at = l /\ lookup' = [lookup EXCEPT ![t] = r]
    BY <1>4, <2>1, <2>3
  <2>5. PICK r \in LookupRecord : r.at = l /\ lookup' = [lookup EXCEPT ![t] = r]
    BY <2>4
  <2>6. published' = published /\ cache' = cache
    BY <1>9 DEF Keyring!Get
  <2> QED
    BY <2>1, <2>2, <2>5, <2>6, WentOn DEF HasKey, KeyTypes
<1>10. ASSUME Keyring!Finish(t) PROVE Goal
  <2>1. lookup' = [lookup EXCEPT ![t] = NoLookup] /\ published' = published /\ cache' = cache
    BY <1>10 DEF Keyring!Finish
  <2> QED
    BY <2>1, WentOn DEF KeyTypes
<1> HIDE DEF Goal
<1>11. Goal
  BY <1>1, <1>2, <1>3, <1>5, <1>6, <1>7, <1>8, <1>9, <1>10 DEF Keyring!Lookup
<1> QED
  BY <1>11 DEF Goal

\* The history of a lookup that goes on.
LEMMA Followed ==
  ASSUME KeyTypes, Keyring!MCNext, NEW t \in Threads, lookup'[t] # NoLookup,
         lookupHistory'[t].known, lookupHistory'[t].alone
  PROVE  /\ lookup[t] = NoLookup \/ (lookupHistory[t].known /\ lookupHistory[t].alone)
         /\ lookup'[t].key \in published' /\ Keyring!NobodyElse(t) /\ Keyring!NobodyElse(t)'
BY DEF KeyTypes, Keyring!MCNext, Keyring!Follow, Keyring!Begins

LEMMA HistoryTypes ==
  ASSUME Keyring!MCNext
  PROVE  lookupHistory' \in [Threads -> [known : BOOLEAN, alone : BOOLEAN] \cup {NoLookup}]
BY DEF Keyring!MCNext, Keyring!Follow

LEMMA KeyStep == KeyTypes /\ KeyInv /\ [Keyring!MCNext]_keyVars => KeyTypes' /\ KeyInv'
<1> SUFFICES ASSUME KeyTypes, KeyInv, [Keyring!MCNext]_keyVars PROVE KeyTypes' /\ KeyInv'
  OBVIOUS
<1>1. CASE UNCHANGED keyVars
  BY <1>1 DEF keyVars, KeyTypes, KeyInv, HasKey, Keyring!NobodyElse, Keyring!Refreshing
<1>2. CASE Keyring!MCNext
  <2>1. CASE Keyring!Age \/ Keyring!Rotate
    <3>1. lookup' = lookup /\ cache' = cache /\ published' \subseteq Keys
      BY <2>1, KeysAssumption DEF Keyring!Age, Keyring!Rotate, KeyTypes
    <3>2. KeyTypes'
      BY <1>2, <3>1, HistoryTypes DEF KeyTypes
    <3>3. \A t \in Threads : HasKey(t)' <=> HasKey(t)
      BY <3>1 DEF HasKey
    <3>4. \A t \in Threads : lookup'[t] # NoLookup /\ lookupHistory'[t].known /\ lookupHistory'[t].alone
            => lookupHistory[t].known /\ lookupHistory[t].alone /\ lookup'[t].key \in published'
               /\ Keyring!NobodyElse(t)'
      <4>1. \A t \in Threads : lookup[t] = NoLookup => lookup'[t] = NoLookup
        BY <3>1
      <4> QED
        BY <1>2, <4>1, Followed
    <3> QED
      BY <3>1, <3>2, <3>3, <3>4 DEF KeyInv
  <2>2. ASSUME NEW t \in Threads, Keyring!Lookup(t) PROVE KeyTypes' /\ KeyInv'
    <3>1. KeyTypes'
      BY <1>2, <2>2, ThreadStep, HistoryTypes DEF KeyTypes
    <3>2. ASSUME NEW u \in Threads, lookup'[u] # NoLookup,
                 lookupHistory'[u].known, lookupHistory'[u].alone
          PROVE  lookup'[u].key \in published' /\ Keyring!NobodyElse(u)' /\ HasKey(u)'
      <4>1. /\ lookup[u] = NoLookup \/ (lookupHistory[u].known /\ lookupHistory[u].alone)
            /\ lookup'[u].key \in published' /\ Keyring!NobodyElse(u) /\ Keyring!NobodyElse(u)'
        BY <1>2, <3>2, Followed
      <4>2. lookup[u] # NoLookup => lookup[u].key \in published /\ HasKey(u)
        BY <4>1 DEF KeyInv
      <4>3. CASE u = t
        BY <2>2, <3>2, <4>1, <4>2, <4>3, ThreadStep
      <4>4. CASE u # t
        <5>1. lookup'[u] = lookup[u]
          BY <2>2, <4>4, ThreadStep
        <5>2. ~Keyring!Refreshing(t)
          BY <4>1, <4>4 DEF Keyring!NobodyElse
        <5>3. cache' = cache
          BY <2>2, <5>2, ThreadStep
        <5> QED
          BY <3>2, <4>1, <4>2, <5>1, <5>3 DEF HasKey
      <4> QED
        BY <4>1, <4>3, <4>4
    <3> QED
      BY <3>1, <3>2 DEF KeyInv
  <2> QED
    BY <1>2, <2>1, <2>2 DEF Keyring!MCNext, Keyring!Next
<1> QED
  BY <1>1, <1>2
-----------------------------------------------------------------------------
(* The properties *)

SessionInv == TypeOK /\ FlagInv /\ LogoutInv

LEMMA TokensInvariant == TokensSpec => [](SessionInv /\ KeyTypes /\ KeyInv)
<1>1. TokensInit => SessionInv /\ KeyTypes /\ KeyInv
  BY InitTypes, FlagInit, LogoutInit, KeysInit DEF TokensInit, SessionInv
<1>2. SessionInv /\ KeyTypes /\ KeyInv /\ [TokensNext]_<<part, sessionVars, keyVars>>
        => SessionInv' /\ KeyTypes' /\ KeyInv'
  <2> SUFFICES ASSUME SessionInv, KeyTypes, KeyInv, [TokensNext]_<<part, sessionVars, keyVars>>
               PROVE  SessionInv' /\ KeyTypes' /\ KeyInv'
    OBVIOUS
  <2>1. [MCNext]_sessionVars /\ [Keyring!MCNext]_keyVars
    BY DEF TokensNext
  <2> QED
    BY <2>1, TypeStep, FlagStep, LogoutStep, KeyStep DEF SessionInv
<1> QED
  BY <1>1, <1>2, PTL DEF TokensSpec

\* Between two handlers, users.force_password_change says of the user's password what Cognito
\* knows of it, whoever changed it how often, unless a handler has died or two overlapped: the
\* challenge (complete_challenge, auth.py) and the reset (reset_password, user_service.py) both
\* write to Cognito first and to the row later.
THEOREM FlagAgrees == TokensSpec => []PasswordFlagAgrees
<1>1. SessionInv => PasswordFlagAgrees
  BY DEF SessionInv, FlagInv, PasswordFlagAgrees
<1> QED
  BY <1>1, TokensInvariant, PTL

\* The iat of a token is a whole second: it is not later than the token, and less than a second
\* earlier.
LEMMA IatBounds ==
  ASSUME NEW i \in Nat
  PROVE  Iat(i) \in Nat /\ Iat(i) <= i /\ i < Iat(i) + TicksPerSecond
<1> DEFINE q == i \div TicksPerSecond
<1>1. q \in Nat /\ q * TicksPerSecond <= i /\ i < q * TicksPerSecond + TicksPerSecond
  BY SessionAssumption
<1> QED
  BY <1>1, SessionAssumption DEF Iat

LEMMA SameSecond ==
  ASSUME NEW i \in Nat, NEW l \in Nat, Iat(i) < l, l <= i
  PROVE  Iat(i) = Iat(l)
<1> DEFINE T == TicksPerSecond
           q == i \div T
           p == l \div T
<1>1. T \in Nat \ {0}
  BY SessionAssumption
<1> HIDE DEF T
<1>2. q \in Nat /\ q * T <= i /\ i < q * T + T
  BY <1>1
<1>3. p \in Nat /\ p * T <= l /\ l < p * T + T
  BY <1>1
<1>4. q * T < l
  BY DEF Iat, T
<1> HIDE DEF q, p
<1>5. p * T < q * T + T /\ q * T < p * T + T
  BY <1>1, <1>2, <1>3, <1>4
<1>6. p <= q /\ q <= p
  BY <1>1, <1>2, <1>3, <1>5
<1>7. p = q
  BY <1>2, <1>3, <1>6
<1> QED
  BY <1>7 DEF Iat, T, p, q

\* When a logout has ended, get_current_user refuses every token of the sessions that it ended,
\* however coarse the iat of a token is: the time of the logout is taken after Cognito has ended
\* them, so that the token is older, and the whole second it carries is not later.
THEOREM NoneSurvivesLogout == TokensSpec => []SignedOutRefused
<1>1. SessionInv => SignedOutRefused
  <2> SUFFICES ASSUME SessionInv, NEW c \in Clients, ~LoggingOut, deaths = 0, ~logoutOverlap,
                      token[c] # NoToken, ~token[c].live
               PROVE  Revoked(token[c].issued)
    BY DEF SignedOutRefused, Accepted
  <2>1. lastLogout # NoTime /\ token[c].issued < lastLogout
    BY DEF SessionInv, LogoutInv, DeadBeforeLogout
  <2>2. token[c].issued \in Nat /\ lastLogout \in Nat
    BY <2>1 DEF SessionInv, TypeOK, Token
  <2>3. Iat(token[c].issued) < lastLogout
    BY <2>1, <2>2, IatBounds
  <2> QED
    BY <2>1, <2>3 DEF Revoked
<1> QED
  BY <1>1, TokensInvariant, PTL

\* A token that Cognito still honours is refused by get_current_user only if it was issued in
\* the very second of the last logout: whatever the length of a second and the life of a token,
\* the price of the coarse iat is never more than that.
THEOREM RefusedForASecond == TokensSpec => []LiveSessionAccepted
<1>1. SessionInv => LiveSessionAccepted
  <2> SUFFICES ASSUME SessionInv, NEW c \in Clients, token[c] # NoToken, token[c].live,
                      ~Expired(token[c].issued), ~logoutOverlap, Revoked(token[c].issued)
               PROVE  Iat(token[c].issued) = Iat(lastLogout)
    BY DEF LiveSessionAccepted, Accepted
  <2>1. lastLogout # NoTime /\ Iat(token[c].issued) < lastLogout
    BY DEF Revoked
  <2>2. lastLogout <= token[c].issued
    BY <2>1 DEF SessionInv, LogoutInv, LiveAfterLogout
  <2>3. token[c].issued \in Nat /\ lastLogout \in Nat
    BY <2>1 DEF SessionInv, TypeOK, Token
  <2> QED
    BY <2>1, <2>2, <2>3, SameSecond
<1> QED
  BY <1>1, TokensInvariant, PTL

\* A thread that looks a published key up, and whose lookup no other thread's refresh overlaps,
\* finds it (_get_public_key), for any number of threads, keys and rotations, and however stale
\* or half filled the cache was that it began with.
THEOREM LoneLookupFindsKey == TokensSpec => []KnownKeyFoundAlone
<1>1. KeyInv => KnownKeyFoundAlone
  BY DEF KeyInv, HasKey, KnownKeyFoundAlone, Keyring!KnownKeyFoundAlone, Keyring!At
<1> QED
  BY <1>1, TokensInvariant, PTL
=============================================================================
