--------------------------- MODULE MCBrowserSession ---------------------------
(***************************************************************************)
(* BrowserSession, from the moment when a user has signed in in a tab.     *)
(***************************************************************************)
EXTENDS BrowserSession

CONSTANTS t1, u1, u2

MCInit ==
  /\ owner = [s \in Sessions |-> IF s = 1 THEN u1 ELSE NoUser] /\ live = {1} /\ cookie = 1
  /\ tab = [t \in Tabs |-> [page |-> "dashboard", me |-> NoUser, stale |-> FALSE,
                            ask |-> [session |-> 1]]]
  /\ call = [c \in Calls |-> NoCall]

MCFairSpec == MCInit /\ [][Next]_vars /\ Fairness
=============================================================================
