------------------------------- MODULE Outbox -------------------------------
(***************************************************************************)
(* The transactional outbox and the consumers of its events.               *)
(*   - queue_event writes a row in the caller's transaction.               *)
(*   - Each gunicorn worker runs one relay.  A tick locks the oldest unsent*)
(*     rows that no other relay holds (FOR UPDATE SKIP LOCKED LIMIT n),    *)
(*     sends them one by one, and marks those that were sent in one commit *)
(*     at the end (app/services/events.py, app/services/outbox_relay.py).  *)
(*   - The notification Lambda takes a batch, mails each message and       *)
(*     returns the failed ones; SQS deletes the others when it returns     *)
(*     (infra/lambda/notification_handler.py).                             *)
(*   - The long-polling worker handles and deletes messages one by one     *)
(*     (app/workers/sqs_consumer.py).                                      *)
(* Processes die between any two steps, and a reply from SQS may be lost   *)
(* after it took the message: these are the faults, and a behaviour has at *)
(* most MaxFaults of them.  SES failures and SQS refusals are not bounded  *)
(* by it.  SQS itself is external: a message is visible, in flight, deleted*)
(* or in the dead letter queue, which takes it when it was received        *)
(* MaxReceive times.                                                       *)
(***************************************************************************)
EXTENDS Integers, FiniteSets

CONSTANTS Events,        \* keys of outbox_events, numbered in created_at order
          Relays, Lambdas, Workers,
          MessageIds,    \* numbered in the order in which SQS took them
          BatchLimit,    \* LIMIT of the relay's query (50)
          ReceiveLimit,  \* messages per receive (10)
          MaxReceive,    \* max_receive_count of the redrive policy (3)
          MaxFaults,
          EventTypes,    \* types that the services queue
          NoRow, NoMessage

Consumers == Lambdas \cup Workers

ASSUME OutboxAssumption ==
  /\ Events \subseteq Nat /\ IsFiniteSet(Events)
  /\ MessageIds \subseteq Nat
  /\ BatchLimit \in Nat \ {0} /\ ReceiveLimit \in Nat \ {0} /\ MaxReceive \in Nat \ {0}
  /\ MaxFaults \in Nat

Row == [type : EventTypes, recipient : BOOLEAN, sent : BOOLEAN]

Message == [event : Events, received : 0 .. MaxReceive,
            state : {"visible", "inflight", "deleted", "dead"}]

ASSUME NullAssumption == NoRow \notin Row /\ NoMessage \notin Message

VARIABLES row,      \* outbox_events
          tick,     \* per relay: the rows it locked, those left to send, those sent
          message,  \* the queue
          job,      \* per consumer: the messages it took, those left, those that failed
          mails,    \* emails accepted by SES, per event
          faults

vars == <<row, tick, message, job, mails, faults>>

NoTick == [rows |-> {}, todo |-> {}, done |-> {}]
NoJob == [batch |-> {}, todo |-> {}, failed |-> {}]

Init == /\ row = [e \in Events |-> NoRow]
        /\ tick = [r \in Relays |-> NoTick]
        /\ message = [m \in MessageIds |-> NoMessage]
        /\ job = [c \in Consumers |-> NoJob]
        /\ mails = [e \in Events |-> 0]
        /\ faults = 0

Fault == faults < MaxFaults /\ faults' = faults + 1

-----------------------------------------------------------------------------
(* The services *)

\* A service commits a transaction in which it queued an event.  Events commit in
\* any order: created_at is the time at which their transaction began.
QueueEvent(e, type, recipient) ==
  /\ row[e] = NoRow
  /\ row' = [row EXCEPT ![e] = [type |-> type, recipient |-> recipient, sent |-> FALSE]]
  /\ UNCHANGED <<tick, message, job, mails, faults>>

-----------------------------------------------------------------------------
(* The relays *)

Locked(e) == \E r \in Relays : e \in tick[r].rows

\* Mutant: FOR UPDATE is forgotten.
PendingUnlocked == {e \in Events : row[e] # NoRow /\ ~row[e].sent}

\* Mutant: the relay keeps a cursor, and reads the rows after the last one it sent.
PendingAfterLast == {e \in Events : /\ row[e] # NoRow /\ ~row[e].sent /\ ~Locked(e)
                                    /\ \A d \in Events : row[d] # NoRow /\ row[d].sent => d < e}

Pending == {e \in Events : row[e] # NoRow /\ ~row[e].sent /\ ~Locked(e)}

Oldest(E, n) == {e \in E : Cardinality({d \in E : d < e}) < n}

SelectRows(r) ==
  /\ tick[r] = NoTick
  /\ LET batch == Oldest(Pending, BatchLimit) IN
       /\ batch # {}
       /\ tick' = [tick EXCEPT ![r] = [rows |-> batch, todo |-> batch, done |-> {}]]
  /\ UNCHANGED <<row, message, job, mails, faults>>

\* The next row of the loop over the batch, in created_at order.
IsNext(r, e) == e \in tick[r].todo /\ \A d \in tick[r].todo : e <= d

Accept(m, e) ==
  /\ message[m] = NoMessage
  /\ \A k \in MessageIds : k < m => message[k] # NoMessage
  /\ message' = [message EXCEPT ![m] = [event |-> e, received |-> 0, state |-> "visible"]]

SendRow(r, e, m) ==
  /\ IsNext(r, e)
  /\ Accept(m, e)
  /\ tick' = [tick EXCEPT ![r].todo = @ \ {e}, ![r].done = @ \cup {e}]
  /\ UNCHANGED <<row, job, mails, faults>>

\* SQS took the message but the reply was lost: the row is logged and skipped.
SendReplyLost(r, e, m) ==
  /\ IsNext(r, e)
  /\ Accept(m, e)
  /\ tick' = [tick EXCEPT ![r].todo = @ \ {e}]
  /\ Fault
  /\ UNCHANGED <<row, job, mails>>

\* SQS refused, or was not reached: the row is logged and skipped.
SendFails(r, e) ==
  /\ IsNext(r, e)
  /\ tick' = [tick EXCEPT ![r].todo = @ \ {e}]
  /\ UNCHANGED <<row, message, job, mails, faults>>

\* Mutant: the rows are marked before they are sent.
MarkedFirst(r) == tick[r].rows

Marked(r) == tick[r].done

CommitTick(r) ==
  /\ tick[r].rows # {} /\ tick[r].todo = {}
  /\ row' = [e \in Events |-> IF e \in Marked(r) THEN [row[e] EXCEPT !.sent = TRUE]
                                               ELSE row[e]]
  /\ tick' = [tick EXCEPT ![r] = NoTick]
  /\ UNCHANGED <<message, job, mails, faults>>

\* The process dies, or the commit fails: the locks go and nothing is marked.
RelayDies(r) ==
  /\ tick[r].rows # {}
  /\ tick' = [tick EXCEPT ![r] = NoTick]
  /\ Fault
  /\ UNCHANGED <<row, message, job, mails>>

-----------------------------------------------------------------------------
(* The consumers *)

Visible == {m \in MessageIds : message[m] # NoMessage /\ message[m].state = "visible"}

Receivable == {m \in Visible : message[m].received < MaxReceive}

Receive(c) ==
  /\ job[c] = NoJob
  /\ \E batch \in SUBSET Receivable :
       /\ Cardinality(batch) \in 1 .. ReceiveLimit
       /\ message' = [m \in MessageIds |->
                        IF m \in batch THEN [message[m] EXCEPT !.received = @ + 1,
                                                               !.state = "inflight"]
                                       ELSE message[m]]
       /\ job' = [job EXCEPT ![c] = [batch |-> batch, todo |-> batch, failed |-> {}]]
  /\ UNCHANGED <<row, tick, mails, faults>>

Moved(M, state) == [m \in MessageIds |-> IF m \in M THEN [message[m] EXCEPT !.state = state]
                                                    ELSE message[m]]

\* The event types for which the Lambda has a template (_TEMPLATES).
Templates == {"registration.requested", "registration.accepted", "registration.rejected",
              "release.initiated", "release.confirmed"}

Skips(c, e) == ~row[e].recipient \/ (c \in Lambdas /\ row[e].type \notin Templates)

\* The Lambda goes through its batch before anything is deleted; the worker deletes each
\* message it handled before it handles the next one.

Handled(c) == job[c].batch \ (job[c].todo \cup job[c].failed)
MayHandle(c, m) == m \in job[c].todo /\ (c \in Workers => Handled(c) = {})

SkipMessage(c, m) ==
  /\ MayHandle(c, m) /\ Skips(c, message[m].event)
  /\ job' = [job EXCEPT ![c].todo = @ \ {m}]
  /\ UNCHANGED <<row, tick, message, mails, faults>>

MailMessage(c, m) ==
  /\ MayHandle(c, m) /\ ~Skips(c, message[m].event)
  /\ job' = [job EXCEPT ![c].todo = @ \ {m}]
  /\ mails' = [mails EXCEPT ![message[m].event] = @ + 1]
  /\ UNCHANGED <<row, tick, message, faults>>

\* SES refuses the email.
MailFails(c, m) ==
  /\ MayHandle(c, m) /\ ~Skips(c, message[m].event)
  /\ job' = [job EXCEPT ![c].todo = @ \ {m}, ![c].failed = @ \cup {m}]
  /\ UNCHANGED <<row, tick, message, mails, faults>>

\* SES took the email but the call failed.
MailReplyLost(c, m) ==
  /\ MayHandle(c, m) /\ ~Skips(c, message[m].event)
  /\ job' = [job EXCEPT ![c].todo = @ \ {m}, ![c].failed = @ \cup {m}]
  /\ mails' = [mails EXCEPT ![message[m].event] = @ + 1]
  /\ Fault
  /\ UNCHANGED <<row, tick, message>>

\* The worker deletes the message it has just handled.
DeleteMessage(c) ==
  /\ c \in Workers /\ Handled(c) # {}
  /\ message' = Moved(Handled(c), "deleted")
  /\ job' = [job EXCEPT ![c].batch = @ \ Handled(c)]
  /\ UNCHANGED <<row, tick, mails, faults>>

\* The call fails, and is logged: the message stays in flight as if it had not been handled.
DeleteFails(c) ==
  /\ c \in Workers /\ Handled(c) # {}
  /\ job' = [job EXCEPT ![c].failed = @ \cup Handled(c)]
  /\ Fault
  /\ UNCHANGED <<row, tick, message, mails>>

\* The worker starts its next poll; the messages that failed become visible again.
NextPoll(c) ==
  /\ c \in Workers /\ job[c] # NoJob /\ job[c].todo = {} /\ Handled(c) = {}
  /\ message' = Moved(job[c].failed, "visible")
  /\ job' = [job EXCEPT ![c] = NoJob]
  /\ UNCHANGED <<row, tick, mails, faults>>

\* Mutant: the event source mapping does not ask for batch item failures.
ReportedNone(c) == {}

Reported(c) == job[c].failed

\* The Lambda returns batchItemFailures: SQS deletes the others and shows these again.
LambdaReturns(c) ==
  /\ c \in Lambdas /\ job[c] # NoJob /\ job[c].todo = {}
  /\ message' = [m \in MessageIds |->
                    IF m \in Reported(c) THEN [message[m] EXCEPT !.state = "visible"]
                    ELSE IF m \in job[c].batch THEN [message[m] EXCEPT !.state = "deleted"]
                    ELSE message[m]]
  /\ job' = [job EXCEPT ![c] = NoJob]
  /\ UNCHANGED <<row, tick, mails, faults>>

\* The consumer dies: the visibility timeout of its batch expires.  The timeout (360 s) is six
\* times that of the Lambda, so that no consumer is still at work on a batch that expires.
ConsumerDies(c) ==
  /\ job[c] # NoJob
  /\ message' = Moved(job[c].batch, "visible")
  /\ job' = [job EXCEPT ![c] = NoJob]
  /\ Fault
  /\ UNCHANGED <<row, tick, mails>>

\* The redrive policy of the queue.
DeadLetter(m) ==
  /\ m \in Visible /\ message[m].received = MaxReceive
  /\ message' = Moved({m}, "dead")
  /\ UNCHANGED <<row, tick, job, mails, faults>>

-----------------------------------------------------------------------------
Relay(r) == \/ SelectRows(r) \/ CommitTick(r) \/ RelayDies(r)
            \/ \E e \in Events : \/ SendFails(r, e)
                                 \/ \E m \in MessageIds : SendRow(r, e, m) \/ SendReplyLost(r, e, m)

Consumer(c) == \/ Receive(c) \/ DeleteMessage(c) \/ DeleteFails(c) \/ NextPoll(c) \/ LambdaReturns(c)
               \/ ConsumerDies(c)
               \/ \E m \in MessageIds : SkipMessage(c, m) \/ MailMessage(c, m)
                                        \/ MailFails(c, m) \/ MailReplyLost(c, m)

Next == \/ \E e \in Events, type \in EventTypes, recipient \in BOOLEAN :
             QueueEvent(e, type, recipient)
        \/ \E r \in Relays : Relay(r)
        \/ \E c \in Consumers : Consumer(c)
        \/ \E m \in MessageIds : DeadLetter(m)

Spec == Init /\ [][Next]_vars

\* The scheduler runs every tick to its end, and SQS does not refuse the same row for ever
\* (its outages end); Lambda and worker run on, and SQS applies its redrive policy.
SendStep(r) == \E e \in Events : \/ SendFails(r, e)
                                 \/ \E m \in MessageIds : SendRow(r, e, m)
HandleStep(c) == \E m \in MessageIds : SkipMessage(c, m) \/ MailMessage(c, m) \/ MailFails(c, m)

Fairness ==
  /\ \A r \in Relays : WF_vars(SelectRows(r)) /\ WF_vars(SendStep(r)) /\ WF_vars(CommitTick(r))
  /\ \A e \in Events : SF_vars(\E r \in Relays, m \in MessageIds : SendRow(r, e, m))
  /\ \A c \in Consumers : /\ WF_vars(Receive(c)) /\ WF_vars(HandleStep(c))
                          /\ WF_vars(DeleteMessage(c)) /\ WF_vars(NextPoll(c))
                          /\ WF_vars(LambdaReturns(c))
  /\ \A m \in MessageIds : WF_vars(DeadLetter(m))

FairSpec == Spec /\ Fairness

-----------------------------------------------------------------------------
(* Properties *)

TypeOK ==
  /\ row \in [Events -> Row \cup {NoRow}]
  /\ tick \in [Relays -> [rows : SUBSET Events, todo : SUBSET Events, done : SUBSET Events]]
  /\ message \in [MessageIds -> Message \cup {NoMessage}]
  /\ job \in [Consumers -> [batch : SUBSET MessageIds, todo : SUBSET MessageIds,
                            failed : SUBSET MessageIds]]
  /\ mails \in [Events -> Nat]
  /\ faults \in 0 .. MaxFaults

MessagesOf(e) == {m \in MessageIds : message[m] # NoMessage /\ message[m].event = e}

\* No committed event is lost, whoever dies and whatever fails: it waits in the outbox, was
\* mailed, needs no email, or has a message that is still in the queue or in the dead
\* letter queue (the promise of events.py and of the partial batch response).
NoEventLost ==
  \A e \in Events : row[e] # NoRow =>
     \/ ~row[e].sent \/ mails[e] > 0
     \/ ~row[e].recipient \/ row[e].type \notin Templates
     \/ \E m \in MessagesOf(e) : message[m].state # "deleted"

\* Duplicates come from faults only: SKIP LOCKED keeps relays from sending the same row, and
\* visibility and partial batch responses keep consumers from mailing a message again.  A fault
\* of a consumer repeats the emails of its whole batch, which may hold several messages of one
\* event after the faults of relays: the two kinds of faults multiply.
DuplicatesComeFromFaults ==
  \A e \in Events : /\ Cardinality(MessagesOf(e)) <= 1 + faults
                    /\ mails[e] <= (1 + faults) * Cardinality(MessagesOf(e))

\* A message is worked on by one consumer at a time, and a row by one relay at a time.
OneHandler ==
  /\ \A m \in MessageIds, c, d \in Consumers : m \in job[c].batch \cap job[d].batch => c = d
  /\ \A e \in Events, r, s \in Relays : e \in tick[r].rows \cap tick[s].rows => r = s

\* Every committed event is settled in the end: its row is marked and no message of it is
\* left between the queue and its consumers.
Settled(e) == /\ row[e] # NoRow /\ row[e].sent
              /\ \A m \in MessagesOf(e) : message[m].state \in {"deleted", "dead"}
EventsSettle == \A e \in Events : row[e] # NoRow ~> Settled(e)

\* events.py and models/outbox.py promise atomic, at-least-once publication.
Delivery == INSTANCE EventDelivery WITH
              committed <- {e \in Events : row[e] # NoRow},
              published <- {e \in Events : MessagesOf(e) # {}},
              marked    <- {e \in Events : row[e] # NoRow /\ row[e].sent},
              mailed    <- {e \in Events : mails[e] > 0}
AtLeastOnce == Delivery!DSpec
=============================================================================
