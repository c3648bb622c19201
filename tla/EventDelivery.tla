---------------------------- MODULE EventDelivery ----------------------------
(***************************************************************************)
(* What the outbox promises (docstrings of app/services/events.py and      *)
(* app/models/outbox.py): an event is published only if the transaction    *)
(* that queued it committed, it is marked sent only after it is published, *)
(* an email is only ever sent for a published event, and every committed   *)
(* event is eventually published.  Publishing and mailing may happen       *)
(* again: delivery is at least once.                                       *)
(***************************************************************************)
CONSTANT Events

VARIABLES committed, published, marked, mailed

dvars == <<committed, published, marked, mailed>>

DInit == committed = {} /\ published = {} /\ marked = {} /\ mailed = {}

Commit(e) == /\ committed' = committed \cup {e}
             /\ UNCHANGED <<published, marked, mailed>>

Publish(e) == /\ e \in committed
              /\ published' = published \cup {e}
              /\ UNCHANGED <<committed, marked, mailed>>

\* A relay marks the rows of a whole batch in one transaction.
Mark(E) == /\ E \subseteq published
           /\ marked' = marked \cup E
           /\ UNCHANGED <<committed, published, mailed>>

Mail(e) == /\ e \in published
           /\ mailed' = mailed \cup {e}
           /\ UNCHANGED <<committed, published, marked>>

DNext == \/ \E e \in Events : Commit(e) \/ Publish(e) \/ Mail(e)
         \/ \E E \in SUBSET Events : Mark(E)

DSafety == DInit /\ [][DNext]_dvars

DSpec == DSafety /\ \A e \in Events : WF_dvars(Publish(e))
=============================================================================
