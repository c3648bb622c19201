--------------------------- MODULE MCRegistration ---------------------------
(***************************************************************************)
(* Instances of Registration for TLC, with a history variable that tells   *)
(* which squads two requests in progress at the same time raced about.     *)
(***************************************************************************)
EXTENDS Registration, TLC

CONSTANTS t1, t2, c1, c2, p1, p2, r1, r2, r3, g1, g2, g3

\* One season: the window is open at times 1 and 2, the season is played at 3.
MCSeason(cap) == [registration_open_at |-> 1, registration_close_at |-> 2,
                  season_end_date |-> 3, max_squad_size |-> cap, is_archived |-> FALSE]

MCCreates == {MCSeason(1), MCSeason(2)}

MCPatches == {[is_archived |-> TRUE], [is_archived |-> FALSE], [max_squad_size |-> 1],
              [registration_close_at |-> 3]}

MCSymmetry == Permutations(Threads) \cup Permutations(Clubs) \cup Permutations(Players)
                \cup Permutations(RequestIds) \cup Permutations(RegistrationIds)

VARIABLE races   \* the season and the club of each squad that was ever raced about

Works(t, op) == txn[t] # Idle /\ txn[t].op = op

\* A club asks for two players at once, or for one while the season's cap is being changed.
Race(s, c, t, u) ==
  /\ Works(t, "create") /\ txn[t].season = s /\ txn[t].club = c
  /\ \/ Works(u, "create") /\ txn[u].season = s /\ txn[u].club = c
     \/ Works(u, "update") /\ txn[u].season = s /\ "max_squad_size" \in DOMAIN txn[u].patch

Racing == {squad \in Seasons \X Clubs :
             \E t, u \in Threads : t # u /\ Race(squad[1], squad[2], t, u)}

MCInit == Init /\ races = {}
MCNext == Next /\ races' = races \cup Racing'
MCSpec == MCInit /\ [][MCNext]_<<vars, races>>

\* create_request keeps a squad within its cap, unless the club asked for two players at once or
\* the cap was being changed: what other clubs ask for, what players accept and what else
\* happens to the season meanwhile does not matter.
SquadCapUnlessRaced ==
  [][\A s \in Seasons, c \in Clubs : <<s, c>> \notin races => SquadCapStep(s, c)]_vars
=============================================================================
