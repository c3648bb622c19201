---------------------------- MODULE OutboxProofs ----------------------------
(***************************************************************************)
(* Safety of the outbox for any number of events, relays, consumers and    *)
(* faults, and that it implements EventDelivery.  The inductive invariant  *)
(* says what the rows of a tick and the messages of a job stand for.       *)
(***************************************************************************)
EXTENDS Outbox, FiniteSetTheorems, TLAPS

Published(e) == \E m \in MessageIds : message[m] # NoMessage /\ message[m].event = e

\* Nothing is left to do for the event.
Served(e) == mails[e] > 0 \/ ~row[e].recipient \/ row[e].type \notin Templates

\* A tick holds committed rows, and those it sent are published.
TicksHoldRows ==
  \A r \in Relays : /\ tick[r].todo \subseteq tick[r].rows /\ tick[r].done \subseteq tick[r].rows
                    /\ \A e \in tick[r].rows : row[e] # NoRow
                    /\ \A e \in tick[r].done : Published(e)

TicksApart == \A r, s \in Relays, e \in Events : e \in tick[r].rows /\ e \in tick[s].rows => r = s

\* A job holds messages in flight, and those it is through with are served.
JobsHoldMessages ==
  \A c \in Consumers : /\ job[c].todo \subseteq job[c].batch /\ job[c].failed \subseteq job[c].batch
                       /\ \A m \in job[c].batch : message[m] # NoMessage
                                                  /\ message[m].state = "inflight"
                       /\ \A m \in Handled(c) : Served(message[m].event)

JobsApart ==
  \A c, d \in Consumers, m \in MessageIds : m \in job[c].batch /\ m \in job[d].batch => c = d

\* Messages belong to committed rows, and only those that are served are deleted.
MessagesBelong ==
  \A m \in MessageIds : message[m] # NoMessage =>
     /\ row[message[m].event] # NoRow
     /\ message[m].state = "deleted" => Served(message[m].event)

SentArePublished == \A e \in Events : row[e] # NoRow /\ row[e].sent => Published(e)
MailedArePublished == \A e \in Events : mails[e] > 0 => Published(e)

IInv == /\ TypeOK /\ TicksHoldRows /\ TicksApart /\ JobsHoldMessages /\ JobsApart
        /\ MessagesBelong /\ SentArePublished /\ MailedArePublished

-----------------------------------------------------------------------------
(* The invariant holds in the initial state and is preserved by services and relays *)

LEMMA InitEstablishes == Init => IInv
  BY OutboxAssumption, NullAssumption DEF Init, IInv, TypeOK, TicksHoldRows, TicksApart,
     JobsHoldMessages, JobsApart, MessagesBelong, SentArePublished, MailedArePublished,
     NoTick, NoJob, Consumers, Handled

LEMMA QueueEventKeeps ==
  ASSUME IInv, NEW e \in Events, NEW type \in EventTypes, NEW recipient \in BOOLEAN,
         QueueEvent(e, type, recipient)
  PROVE  IInv'
  BY OutboxAssumption, NullAssumption DEF QueueEvent, IInv, TypeOK, TicksHoldRows, TicksApart,
     JobsHoldMessages, JobsApart, MessagesBelong, SentArePublished, MailedArePublished,
     Handled, Served, Published, Row, Message

LEMMA SelectRowsKeeps ==
  ASSUME IInv, NEW r \in Relays, SelectRows(r)
  PROVE  IInv'
  BY OutboxAssumption, NullAssumption DEF SelectRows, Oldest, Pending, Locked, NoTick, IInv, TypeOK, TicksHoldRows, TicksApart,
     JobsHoldMessages, JobsApart, MessagesBelong, SentArePublished, MailedArePublished,
     Handled, Served, Published, Row, Message

LEMMA SendRowKeeps ==
  ASSUME IInv, NEW r \in Relays, NEW e \in Events, NEW m \in MessageIds, SendRow(r, e, m)
  PROVE  IInv'
<1> USE OutboxAssumption, NullAssumption
<1> DEFINE sent == [event |-> e, received |-> 0, state |-> "visible"]
<1>1. sent \in Message
  BY DEF Message
<1>2. /\ message[m] = NoMessage /\ message' = [message EXCEPT ![m] = sent]
      /\ tick' = [tick EXCEPT ![r].todo = @ \ {e}, ![r].done = @ \cup {e}]
      /\ UNCHANGED <<row, job, mails, faults>>
      /\ e \in tick[r].todo
  BY DEF SendRow, Accept, IsNext
<1> HIDE DEF sent
<1>3. message' \in [MessageIds -> Message \cup {NoMessage}]
  BY <1>1, <1>2 DEF IInv, TypeOK
<1>4. tick' \in [Relays -> [rows : SUBSET Events, todo : SUBSET Events, done : SUBSET Events]]
  <2>1. tick[r] \in [rows : SUBSET Events, todo : SUBSET Events, done : SUBSET Events]
    BY DEF IInv, TypeOK
  <2>2. QED
    BY <1>2, <2>1 DEF IInv, TypeOK
<1>5. TypeOK'
  BY <1>2, <1>3, <1>4 DEF IInv, TypeOK
<1>6. Published(e)' /\ \A d \in Events : Published(d) => Published(d)'
  BY <1>1, <1>2 DEF Published, sent, IInv, TypeOK
<1>7. TicksHoldRows' /\ TicksApart'
  BY <1>2, <1>6 DEF IInv, TypeOK, TicksHoldRows, TicksApart
<1>8. JobsHoldMessages' /\ JobsApart'
  BY <1>2, ZenonT(60) DEF IInv, TypeOK, JobsHoldMessages, JobsApart, Handled, Served
<1>9. row[e] # NoRow
  BY <1>2 DEF IInv, TicksHoldRows
<1>10. MessagesBelong'
  BY <1>1, <1>2, <1>9 DEF IInv, TypeOK, MessagesBelong, Served, sent
<1>11. SentArePublished' /\ MailedArePublished'
  BY <1>2, <1>6 DEF IInv, SentArePublished, MailedArePublished
<1>12. QED
  BY <1>5, <1>7, <1>8, <1>10, <1>11 DEF IInv

LEMMA SendReplyLostKeeps ==
  ASSUME IInv, NEW r \in Relays, NEW e \in Events, NEW m \in MessageIds, SendReplyLost(r, e, m)
  PROVE  IInv'
  BY OutboxAssumption, NullAssumption DEF SendReplyLost, IsNext, Accept, Fault, IInv, TypeOK, TicksHoldRows, TicksApart,
     JobsHoldMessages, JobsApart, MessagesBelong, SentArePublished, MailedArePublished,
     Handled, Served, Published, Row, Message

LEMMA SendFailsKeeps ==
  ASSUME IInv, NEW r \in Relays, NEW e \in Events, SendFails(r, e)
  PROVE  IInv'
  BY OutboxAssumption, NullAssumption DEF SendFails, IsNext, IInv, TypeOK, TicksHoldRows, TicksApart,
     JobsHoldMessages, JobsApart, MessagesBelong, SentArePublished, MailedArePublished,
     Handled, Served, Published, Row, Message

LEMMA CommitTickKeeps ==
  ASSUME IInv, NEW r \in Relays, CommitTick(r)
  PROVE  IInv'
<1> USE OutboxAssumption, NullAssumption
<1>1. /\ row' = [e \in Events |-> IF e \in tick[r].done THEN [row[e] EXCEPT !.sent = TRUE]
                                                        ELSE row[e]]
      /\ tick' = [tick EXCEPT ![r] = NoTick]
      /\ UNCHANGED <<message, job, mails, faults>>
  BY DEF CommitTick, Marked
<1>2. \A e \in tick[r].done : row[e] \in Row /\ Published(e)
  BY DEF IInv, TypeOK, TicksHoldRows
<1>3. row' \in [Events -> Row \cup {NoRow}]
  BY <1>1, <1>2 DEF IInv, TypeOK, Row
<1>4. \A e \in Events : /\ row[e] # NoRow => /\ row'[e] # NoRow
                                             /\ row'[e].type = row[e].type
                                             /\ row'[e].recipient = row[e].recipient
                        /\ row'[e] # NoRow => row[e] # NoRow
  <2> SUFFICES ASSUME NEW e \in Events
               PROVE  /\ row[e] # NoRow => /\ row'[e] # NoRow
                                           /\ row'[e].type = row[e].type
                                           /\ row'[e].recipient = row[e].recipient
                      /\ row'[e] # NoRow => row[e] # NoRow
    OBVIOUS
  <2>1. CASE e \in tick[r].done
    <3>1. row[e] \in Row /\ row'[e] = [row[e] EXCEPT !.sent = TRUE]
      BY <1>1, <1>2, <2>1
    <3>2. row'[e] \in Row /\ row'[e].type = row[e].type /\ row'[e].recipient = row[e].recipient
      BY <3>1 DEF Row
    <3>3. QED
      BY <3>1, <3>2
  <2>2. CASE e \notin tick[r].done
    BY <1>1, <2>2
  <2>3. QED
    BY <2>1, <2>2
<1>5. TypeOK'
  BY <1>1, <1>3 DEF IInv, TypeOK, NoTick
<1>6. TicksHoldRows' /\ TicksApart'
  BY <1>1, <1>4 DEF IInv, TypeOK, TicksHoldRows, TicksApart, NoTick, Published
<1>7. \A m \in MessageIds : message[m] # NoMessage =>
         /\ message[m].event \in Events /\ row[message[m].event] # NoRow
         /\ Served(message[m].event) => Served(message[m].event)'
  BY <1>1, <1>4 DEF IInv, TypeOK, MessagesBelong, Served, Message
<1>8. JobsHoldMessages' /\ JobsApart'
  BY <1>1, <1>7 DEF IInv, TypeOK, JobsHoldMessages, JobsApart, Handled
<1>9. MessagesBelong'
  BY <1>1, <1>4, <1>7 DEF IInv, MessagesBelong
<1>10. SentArePublished' /\ MailedArePublished'
  BY <1>1, <1>2, <1>4 DEF IInv, SentArePublished, MailedArePublished, Published
<1>11. QED
  BY <1>5, <1>6, <1>8, <1>9, <1>10 DEF IInv

LEMMA RelayDiesKeeps ==
  ASSUME IInv, NEW r \in Relays, RelayDies(r)
  PROVE  IInv'
  BY OutboxAssumption, NullAssumption DEF RelayDies, NoTick, Fault, IInv, TypeOK, TicksHoldRows, TicksApart,
     JobsHoldMessages, JobsApart, MessagesBelong, SentArePublished, MailedArePublished,
     Handled, Served, Published, Row, Message

-----------------------------------------------------------------------------
(* ... by the consumers and the queue *)

\* A step of a consumer or of the queue keeps the messages and the events they carry.
EventsKept ==
  \A m \in MessageIds : /\ message[m] # NoMessage <=> message'[m] # NoMessage
                        /\ message[m] # NoMessage => message'[m].event = message[m].event

LEMMA PublicationStays ==
  ASSUME IInv, EventsKept, UNCHANGED <<row, tick, mails>>
  PROVE  TicksHoldRows' /\ TicksApart' /\ SentArePublished' /\ MailedArePublished'
<1>1. ASSUME NEW e, Published(e) PROVE Published(e)'
  BY <1>1 DEF Published, EventsKept
<1>2. TicksHoldRows' /\ TicksApart'
  BY <1>1 DEF IInv, TicksHoldRows, TicksApart
<1>3. SentArePublished' /\ MailedArePublished'
  BY <1>1 DEF IInv, SentArePublished, MailedArePublished
<1>4. QED
  BY <1>2, <1>3

LEMMA ReceiveKeeps ==
  ASSUME IInv, NEW c \in Consumers, Receive(c)
  PROVE  IInv' /\ EventsKept
<1> USE OutboxAssumption, NullAssumption
<1>1. PICK batch \in SUBSET Receivable :
        /\ message' = [m \in MessageIds |->
                         IF m \in batch THEN [message[m] EXCEPT !.received = @ + 1,
                                                                !.state = "inflight"]
                                        ELSE message[m]]
        /\ job' = [job EXCEPT ![c] = [batch |-> batch, todo |-> batch, failed |-> {}]]
  BY DEF Receive
<1>2. job[c] = NoJob /\ UNCHANGED <<row, tick, mails, faults>>
  BY DEF Receive
<1>3. \A m \in batch : /\ m \in MessageIds /\ message[m] \in Message
                       /\ message[m].state = "visible" /\ message[m].received < MaxReceive
  BY DEF Receivable, Visible, IInv, TypeOK
<1>4. \A m \in batch : /\ message'[m] \in Message /\ message'[m].state = "inflight"
                       /\ message'[m].event = message[m].event
  <2> SUFFICES ASSUME NEW m \in batch
               PROVE  /\ message'[m] \in Message /\ message'[m].state = "inflight"
                      /\ message'[m].event = message[m].event
    OBVIOUS
  <2>1. message'[m] = [message[m] EXCEPT !.received = @ + 1, !.state = "inflight"]
    BY <1>1, <1>3
  <2>2. message[m].received + 1 \in 0 .. MaxReceive
    BY <1>3 DEF Message
  <2>3. QED
    BY <1>3, <2>1, <2>2 DEF Message
<1>5. \A m \in MessageIds \ batch : message'[m] = message[m]
  BY <1>1
<1>6. TypeOK'
  <2>1. message' \in [MessageIds -> Message \cup {NoMessage}]
    BY <1>1, <1>4, <1>5 DEF IInv, TypeOK
  <2>2. job' \in [Consumers -> [batch : SUBSET MessageIds, todo : SUBSET MessageIds,
                                failed : SUBSET MessageIds]]
    BY <1>1, <1>3 DEF IInv, TypeOK
  <2>3. QED
    BY <1>2, <2>1, <2>2 DEF IInv, TypeOK
<1>7. EventsKept
  BY <1>3, <1>4, <1>5 DEF EventsKept
<1>8. TicksHoldRows' /\ TicksApart' /\ SentArePublished' /\ MailedArePublished'
  BY <1>2, <1>7, PublicationStays
<1>9. /\ job'[c] = [batch |-> batch, todo |-> batch, failed |-> {}]
      /\ \A d \in Consumers \ {c} : job'[d] = job[d]
  BY <1>1 DEF IInv, TypeOK
<1>10. \A d \in Consumers, m \in batch : m \notin job[d].batch
  BY <1>3 DEF IInv, JobsHoldMessages
<1>11. JobsHoldMessages'
  <2>1. \A d \in Consumers \ {c} : \A m \in job[d].batch : message'[m] = message[m]
    BY <1>5, <1>10 DEF IInv, TypeOK
  <2>2. \A d \in Consumers \ {c} : Handled(d)' = Handled(d) /\ Handled(d) \subseteq job[d].batch
    BY <1>9 DEF Handled
  <2>3. Handled(c)' = {}
    BY <1>9 DEF Handled
  <2>4. \A e : Served(e)' = Served(e)
    BY <1>2 DEF Served
  <2>5. \A m \in batch : message'[m] # NoMessage /\ message'[m].state = "inflight"
    BY <1>4
  <2>6. QED
    BY <1>9, <2>1, <2>2, <2>3, <2>4, <2>5 DEF IInv, JobsHoldMessages
<1>12. JobsApart'
  BY <1>9, <1>10 DEF IInv, JobsApart
<1>13. MessagesBelong'
  BY <1>2, <1>3, <1>4, <1>5 DEF IInv, MessagesBelong, Served
<1>14. QED
  BY <1>7, <1>6, <1>8, <1>11, <1>12, <1>13 DEF IInv

LEMMA SkipMessageKeeps ==
  ASSUME IInv, NEW c \in Consumers, NEW m \in MessageIds, SkipMessage(c, m)
  PROVE  IInv'
<1>1. /\ m \in job[c].todo /\ Skips(c, message[m].event)
      /\ job' = [job EXCEPT ![c].todo = @ \ {m}]
      /\ UNCHANGED <<row, tick, message, mails, faults>>
  BY DEF SkipMessage, MayHandle
<1>2. job[c] \in [batch : SUBSET MessageIds, todo : SUBSET MessageIds,
                  failed : SUBSET MessageIds]
  BY DEF IInv, TypeOK
<1>3. TypeOK'
  BY <1>1, <1>2 DEF IInv, TypeOK
<1>4. TicksHoldRows' /\ TicksApart' /\ MessagesBelong' /\ SentArePublished' /\ MailedArePublished'
  BY <1>1 DEF IInv, TicksHoldRows, TicksApart, MessagesBelong, SentArePublished,
     MailedArePublished, Published, Served
<1>5. /\ job'[c] = [job[c] EXCEPT !.todo = @ \ {m}]
      /\ \A d \in Consumers \ {c} : job'[d] = job[d]
  BY <1>1 DEF IInv, TypeOK
<1>6. /\ job'[c].batch = job[c].batch /\ job'[c].failed = job[c].failed
      /\ job'[c].todo \subseteq job[c].todo
  BY <1>2, <1>5
<1>7. JobsApart'
  BY <1>5, <1>6 DEF IInv, JobsApart
<1>8. Served(message[m].event)
  <2>1. message[m] # NoMessage /\ message[m].event \in Events
    BY <1>1, NullAssumption DEF IInv, TypeOK, JobsHoldMessages, Message
  <2> QED
    BY <1>1, <2>1 DEF Skips, Served
<1>9. /\ Handled(c)' \subseteq Handled(c) \cup {m}
      /\ \A d \in Consumers \ {c} : Handled(d)' = Handled(d)
  BY <1>2, <1>5 DEF Handled
<1>10. \A e : Served(e)' = Served(e)
  BY <1>1 DEF Served
<1>11. JobsHoldMessages'
  BY <1>1, <1>5, <1>6, <1>8, <1>9, <1>10 DEF IInv, JobsHoldMessages
<1> QED
  BY <1>3, <1>4, <1>7, <1>11 DEF IInv

LEMMA MailMessageKeeps ==
  ASSUME IInv, NEW c \in Consumers, NEW m \in MessageIds, MailMessage(c, m)
  PROVE  IInv'
<1> USE OutboxAssumption, NullAssumption
<1>1. /\ m \in job[c].todo
      /\ job' = [job EXCEPT ![c].todo = @ \ {m}]
      /\ mails' = [mails EXCEPT ![message[m].event] = @ + 1]
      /\ UNCHANGED <<row, tick, message, faults>>
  BY DEF MailMessage, MayHandle
<1>2. /\ job' \in [Consumers -> [batch : SUBSET MessageIds, todo : SUBSET MessageIds,
                                failed : SUBSET MessageIds]]
      /\ job[c] \in [batch : SUBSET MessageIds, todo : SUBSET MessageIds,
                     failed : SUBSET MessageIds]
  BY <1>1 DEF IInv, TypeOK
<1>3. m \in job[c].batch /\ message[m] \in Message /\ message[m].event \in Events
  BY <1>1 DEF IInv, TypeOK, JobsHoldMessages, Message
<1>4. TypeOK'
  <2>1. mails' \in [Events -> Nat]
    BY <1>1, <1>3 DEF IInv, TypeOK
  <2>2. faults' \in 0 .. MaxFaults
    BY DEF IInv, TypeOK, MailMessage
  <2>3. QED
    BY <1>1, <1>2, <2>1, <2>2 DEF IInv, TypeOK
<1>5. /\ \A e \in Events : Served(e) => Served(e)'
      /\ Served(message[m].event)'
  BY <1>1, <1>3 DEF Served, IInv, TypeOK
<1>6. \A d \in Consumers : /\ job'[d].batch = job[d].batch
                             /\ Handled(d)' \subseteq Handled(d) \cup (IF d = c THEN {m} ELSE {})
  BY <1>1, <1>2 DEF Handled, IInv, TypeOK
<1>7. TicksHoldRows' /\ TicksApart' /\ SentArePublished'
  BY <1>1 DEF IInv, TicksHoldRows, TicksApart, SentArePublished, Published
<1>8. MailedArePublished'
  BY <1>1, <1>3 DEF IInv, TypeOK, MailedArePublished, Published
<1>9. JobsHoldMessages'
  <2>1. \A d \in Consumers : job'[d].todo \subseteq job'[d].batch /\ job'[d].failed \subseteq job'[d].batch
    BY <1>1, <1>2, <1>3 DEF IInv, TypeOK, JobsHoldMessages
  <2>2. \A d \in Consumers : \A k \in Handled(d)' : Served(message[k].event)'
    <3>1. \A d \in Consumers : \A k \in Handled(d) : message[k].event \in Events /\ Served(message[k].event)
      BY DEF IInv, TypeOK, JobsHoldMessages, Handled, Message
    <3>2. QED
      BY <1>1, <1>5, <1>6, <3>1
  <2>3. QED
    BY <1>1, <1>6, <2>1, <2>2 DEF IInv, JobsHoldMessages
<1>10. JobsApart'
  BY <1>6 DEF IInv, JobsApart
<1>11. MessagesBelong'
  BY <1>1, <1>5 DEF IInv, TypeOK, MessagesBelong, Message
<1>12. QED
  BY <1>4, <1>7, <1>8, <1>9, <1>10, <1>11 DEF IInv

LEMMA MailFailsKeeps ==
  ASSUME IInv, NEW c \in Consumers, NEW m \in MessageIds, MailFails(c, m)
  PROVE  IInv'
<1> USE OutboxAssumption, NullAssumption
<1>1. /\ m \in job[c].todo
      /\ job' = [job EXCEPT ![c].todo = @ \ {m}, ![c].failed = @ \cup {m}]
      /\ UNCHANGED <<row, tick, message, mails, faults>>
  BY DEF MailFails, MayHandle
<1>2. /\ job' \in [Consumers -> [batch : SUBSET MessageIds, todo : SUBSET MessageIds,
                                failed : SUBSET MessageIds]]
      /\ job[c] \in [batch : SUBSET MessageIds, todo : SUBSET MessageIds,
                     failed : SUBSET MessageIds]
  BY <1>1, ZenonT(60) DEF IInv, TypeOK
<1>3. m \in job[c].batch /\ message[m] \in Message /\ message[m].event \in Events
  BY <1>1 DEF IInv, TypeOK, JobsHoldMessages, Message
<1>4. TypeOK'
  BY <1>1, <1>2 DEF IInv, TypeOK
<1>5. \A e : Served(e) => Served(e)'
  BY <1>1 DEF Served
<1>6. \A d \in Consumers : job'[d].batch = job[d].batch /\ Handled(d)' \subseteq Handled(d)
  BY <1>1, <1>2 DEF Handled, IInv, TypeOK
<1>7. TicksHoldRows' /\ TicksApart' /\ SentArePublished'
  BY <1>1 DEF IInv, TicksHoldRows, TicksApart, SentArePublished, Published
<1>8. MailedArePublished'
  BY <1>1, <1>3 DEF IInv, TypeOK, MailedArePublished, Published
<1>9. JobsHoldMessages'
  <2>1. \A d \in Consumers : job'[d].todo \subseteq job'[d].batch /\ job'[d].failed \subseteq job'[d].batch
    BY <1>1, <1>2, <1>3 DEF IInv, TypeOK, JobsHoldMessages
  <2>2. \A d \in Consumers : \A k \in Handled(d)' : Served(message[k].event)'
    <3>1. \A d \in Consumers : \A k \in Handled(d) : message[k].event \in Events /\ Served(message[k].event)
      BY DEF IInv, TypeOK, JobsHoldMessages, Handled, Message
    <3>2. QED
      BY <1>1, <1>5, <1>6, <3>1
  <2>3. QED
    BY <1>1, <1>6, <2>1, <2>2 DEF IInv, JobsHoldMessages
<1>10. JobsApart'
  BY <1>6 DEF IInv, JobsApart
<1>11. MessagesBelong'
  BY <1>1, <1>5 DEF IInv, TypeOK, MessagesBelong, Message
<1>12. QED
  BY <1>4, <1>7, <1>8, <1>9, <1>10, <1>11 DEF IInv

LEMMA MailReplyLostKeeps ==
  ASSUME IInv, NEW c \in Consumers, NEW m \in MessageIds, MailReplyLost(c, m)
  PROVE  IInv'
<1> USE OutboxAssumption, NullAssumption
<1>1. /\ m \in job[c].todo
      /\ job' = [job EXCEPT ![c].todo = @ \ {m}, ![c].failed = @ \cup {m}]
      /\ mails' = [mails EXCEPT ![message[m].event] = @ + 1]
      /\ UNCHANGED <<row, tick, message>>
  BY DEF MailReplyLost, MayHandle
<1>2. /\ job' \in [Consumers -> [batch : SUBSET MessageIds, todo : SUBSET MessageIds,
                                failed : SUBSET MessageIds]]
      /\ job[c] \in [batch : SUBSET MessageIds, todo : SUBSET MessageIds,
                     failed : SUBSET MessageIds]
  BY <1>1, ZenonT(60) DEF IInv, TypeOK
<1>3. m \in job[c].batch /\ message[m] \in Message /\ message[m].event \in Events
  BY <1>1 DEF IInv, TypeOK, JobsHoldMessages, Message
<1>4. TypeOK'
  <2>1. mails' \in [Events -> Nat]
    BY <1>1, <1>3 DEF IInv, TypeOK
  <2>2. faults' \in 0 .. MaxFaults
    BY DEF IInv, TypeOK, MailReplyLost, Fault
  <2>3. QED
    BY <1>1, <1>2, <2>1, <2>2 DEF IInv, TypeOK
<1>5. /\ \A e \in Events : Served(e) => Served(e)'
      /\ Served(message[m].event)'
  BY <1>1, <1>3 DEF Served, IInv, TypeOK
<1>6. \A d \in Consumers : job'[d].batch = job[d].batch /\ Handled(d)' \subseteq Handled(d)
  BY <1>1, <1>2 DEF Handled, IInv, TypeOK
<1>7. TicksHoldRows' /\ TicksApart' /\ SentArePublished'
  BY <1>1 DEF IInv, TicksHoldRows, TicksApart, SentArePublished, Published
<1>8. MailedArePublished'
  BY <1>1, <1>3 DEF IInv, TypeOK, MailedArePublished, Published
<1>9. JobsHoldMessages'
  <2>1. \A d \in Consumers : job'[d].todo \subseteq job'[d].batch /\ job'[d].failed \subseteq job'[d].batch
    BY <1>1, <1>2, <1>3 DEF IInv, TypeOK, JobsHoldMessages
  <2>2. \A d \in Consumers : \A k \in Handled(d)' : Served(message[k].event)'
    <3>1. \A d \in Consumers : \A k \in Handled(d) : message[k].event \in Events /\ Served(message[k].event)
      BY DEF IInv, TypeOK, JobsHoldMessages, Handled, Message
    <3>2. QED
      BY <1>1, <1>5, <1>6, <3>1
  <2>3. QED
    BY <1>1, <1>6, <2>1, <2>2 DEF IInv, JobsHoldMessages
<1>10. JobsApart'
  BY <1>6 DEF IInv, JobsApart
<1>11. MessagesBelong'
  BY <1>1, <1>5 DEF IInv, TypeOK, MessagesBelong, Message
<1>12. QED
  BY <1>4, <1>7, <1>8, <1>9, <1>10, <1>11 DEF IInv

LEMMA DeleteMessageKeeps ==
  ASSUME IInv, NEW c \in Consumers, DeleteMessage(c)
  PROVE  IInv' /\ EventsKept
<1> USE OutboxAssumption, NullAssumption
<1>1. /\ message' = [m \in MessageIds |->
                       IF m \in Handled(c) THEN [message[m] EXCEPT !.state = "deleted"]
                                           ELSE message[m]]
      /\ job' = [job EXCEPT ![c].batch = @ \ Handled(c)]
      /\ UNCHANGED <<row, tick, mails, faults>>
  BY DEF DeleteMessage, Moved
<1>2. \A m \in Handled(c) : /\ m \in MessageIds /\ m \in job[c].batch
                            /\ m \notin job[c].todo /\ m \notin job[c].failed
                            /\ message[m] \in Message /\ Served(message[m].event)
  BY DEF IInv, TypeOK, JobsHoldMessages, Handled
<1>3. \A m \in Handled(c) : /\ message'[m] \in Message
                            /\ message'[m].event = message[m].event
  BY <1>1, <1>2 DEF Message
<1>4. TypeOK'
  <2>1. message' \in [MessageIds -> Message \cup {NoMessage}]
    BY <1>1, <1>3 DEF IInv, TypeOK
  <2>2. job' \in [Consumers -> [batch : SUBSET MessageIds, todo : SUBSET MessageIds,
                                failed : SUBSET MessageIds]]
    BY <1>1 DEF IInv, TypeOK
  <2>3. QED
    BY <1>1, <2>1, <2>2 DEF IInv, TypeOK
<1>5. EventsKept
  BY <1>1, <1>2, <1>3 DEF EventsKept
<1>6. TicksHoldRows' /\ TicksApart' /\ SentArePublished' /\ MailedArePublished'
  BY <1>1, <1>5, PublicationStays
<1>7. \A d \in Consumers : /\ job'[d].todo = job[d].todo /\ job'[d].failed = job[d].failed
                           /\ job'[d].batch = job[d].batch \ (IF d = c THEN Handled(c) ELSE {})
  BY <1>1 DEF IInv, TypeOK
<1>8. JobsHoldMessages'
  <2>1. \A d \in Consumers : \A m \in job'[d].batch : m \in job[d].batch /\ m \notin Handled(c)
    BY <1>2, <1>7, ZenonT(60) DEF IInv, JobsApart
  <2>2. \A d \in Consumers : \A m \in job'[d].batch : m \in MessageIds /\ message'[m] = message[m]
    BY <1>1, <2>1 DEF IInv, TypeOK
  <2>3. \A d \in Consumers : Handled(d)' \subseteq Handled(d) /\ Handled(d)' \subseteq job'[d].batch
    BY <1>7 DEF Handled
  <2>4. \A e : Served(e)' = Served(e)
    BY <1>1 DEF Served
  <2>5. \A d \in Consumers : job'[d].todo \subseteq job'[d].batch /\ job'[d].failed \subseteq job'[d].batch
    BY <1>7 DEF IInv, JobsHoldMessages, Handled
  <2>6. QED
    BY <2>1, <2>2, <2>3, <2>4, <2>5 DEF IInv, JobsHoldMessages
<1>9. JobsApart'
  BY <1>7 DEF IInv, JobsApart
<1>10. MessagesBelong'
  BY <1>1, <1>2, <1>3 DEF IInv, MessagesBelong, Served
<1>11. QED
  BY <1>5, <1>4, <1>6, <1>8, <1>9, <1>10 DEF IInv

LEMMA DeleteFailsKeeps ==
  ASSUME IInv, NEW c \in Consumers, DeleteFails(c)
  PROVE  IInv'
<1> USE OutboxAssumption, NullAssumption
<1>1. /\ job' = [job EXCEPT ![c].failed = @ \cup Handled(c)]
      /\ UNCHANGED <<row, tick, message, mails>>
  BY DEF DeleteFails
<1>2. Handled(c) \subseteq job[c].batch /\ job[c].batch \subseteq MessageIds
  BY DEF Handled, IInv, TypeOK
<1>3. TypeOK'
  <2>1. job[c] \in [batch : SUBSET MessageIds, todo : SUBSET MessageIds,
                    failed : SUBSET MessageIds]
    BY DEF IInv, TypeOK
  <2>2. job[c].failed \cup Handled(c) \in SUBSET MessageIds
    BY <1>2, <2>1
  <2>3. job' \in [Consumers -> [batch : SUBSET MessageIds, todo : SUBSET MessageIds,
                               failed : SUBSET MessageIds]]
    BY <1>1, <2>1, <2>2 DEF IInv, TypeOK
  <2>4. faults' \in 0 .. MaxFaults
    BY DEF DeleteFails, Fault, IInv, TypeOK
  <2>5. QED
    BY <1>1, <2>3, <2>4 DEF IInv, TypeOK
<1>4. \A d \in Consumers : /\ job'[d].batch = job[d].batch /\ job'[d].todo = job[d].todo
                           /\ job[d].failed \subseteq job'[d].failed
                           /\ job'[d].failed \subseteq job[d].failed \cup Handled(d)
  BY <1>1 DEF IInv, TypeOK
<1>5. \A d \in Consumers : Handled(d)' \subseteq Handled(d) /\ Handled(d) \subseteq job[d].batch
  BY <1>4 DEF Handled
<1>6. JobsHoldMessages'
  BY <1>1, <1>4, <1>5 DEF IInv, JobsHoldMessages, Served
<1>7. JobsApart'
  BY <1>4 DEF IInv, JobsApart
<1>8. TicksHoldRows' /\ TicksApart' /\ SentArePublished' /\ MailedArePublished'
  BY <1>1, PublicationStays DEF EventsKept
<1>9. MessagesBelong'
  BY <1>1 DEF IInv, MessagesBelong, Served
<1>10. QED
  BY <1>3, <1>6, <1>7, <1>8, <1>9 DEF IInv

\* A job ends: its messages are shown again, or deleted if they are served.
LEMMA JobEnds ==
  ASSUME IInv, NEW c \in Consumers, UNCHANGED <<row, tick, mails>>,
         job' = [job EXCEPT ![c] = NoJob], faults' \in 0 .. MaxFaults,
         message' \in [MessageIds -> Message \cup {NoMessage}], EventsKept,
         \A m \in MessageIds :
            \/ message'[m] = message[m] /\ m \notin job[c].batch
            \/ m \in job[c].batch /\ (message'[m].state = "deleted" => Served(message[m].event))
  PROVE  IInv'
<1> USE OutboxAssumption, NullAssumption
<1>1. TypeOK'
  BY DEF IInv, TypeOK, NoJob
<1>2. TicksHoldRows' /\ TicksApart' /\ SentArePublished' /\ MailedArePublished'
  BY PublicationStays
<1>3. job'[c] = NoJob /\ \A d \in Consumers \ {c} : job'[d] = job[d]
  BY DEF IInv, TypeOK
<1>4. JobsApart'
  BY <1>3 DEF IInv, JobsApart, NoJob
<1>5. \A e : Served(e)' = Served(e)
  BY DEF Served
<1>6. \A d \in Consumers \ {c} : \A m \in job[d].batch : m \in MessageIds /\ message'[m] = message[m]
  BY DEF IInv, TypeOK, JobsApart
<1>7. JobsHoldMessages'
  <2>1. ASSUME NEW d \in Consumers \ {c}
        PROVE  /\ job'[d] = job[d] /\ Handled(d)' = Handled(d)
               /\ Handled(d) \subseteq job[d].batch
    BY <1>3 DEF Handled
  <2>2. Handled(c)' = {} /\ job'[c].batch = {} /\ job'[c].todo = {} /\ job'[c].failed = {}
    BY <1>3 DEF Handled, NoJob
  <2>3. QED
    BY <1>5, <1>6, <2>1, <2>2 DEF IInv, JobsHoldMessages
<1>8. MessagesBelong'
  <2> SUFFICES ASSUME NEW m \in MessageIds, message'[m] # NoMessage
               PROVE  /\ row[message'[m].event] # NoRow
                      /\ message'[m].state = "deleted" => Served(message'[m].event)
    BY <1>5 DEF MessagesBelong
  <2>1. message[m] # NoMessage /\ message'[m].event = message[m].event
    BY DEF EventsKept
  <2>2. QED
    BY <2>1 DEF IInv, MessagesBelong
<1>9. QED
  BY <1>1, <1>2, <1>4, <1>7, <1>8 DEF IInv

LEMMA NextPollKeeps ==
  ASSUME IInv, NEW c \in Consumers, NextPoll(c)
  PROVE  IInv' /\ EventsKept
<1> USE OutboxAssumption, NullAssumption
<1>1. /\ message' = [m \in MessageIds |->
                       IF m \in job[c].batch THEN [message[m] EXCEPT !.state = "visible"]
                                             ELSE message[m]]
      /\ job' = [job EXCEPT ![c] = NoJob] /\ UNCHANGED <<row, tick, mails, faults>>
  <2>1. job[c].failed = job[c].batch
    BY DEF NextPoll, Handled, IInv, JobsHoldMessages
  <2>2. QED
    BY <2>1 DEF NextPoll, Moved
<1>2. \A m \in job[c].batch : m \in MessageIds /\ message[m] \in Message
  BY DEF IInv, TypeOK, JobsHoldMessages
<1>3. \A m \in job[c].batch : /\ message'[m] \in Message /\ message'[m].state = "visible"
                              /\ message'[m].event = message[m].event
  BY <1>1, <1>2 DEF Message
<1>4. message' \in [MessageIds -> Message \cup {NoMessage}]
  BY <1>1, <1>3 DEF IInv, TypeOK
<1>5. EventsKept
  BY <1>1, <1>2, <1>3 DEF EventsKept
<1>6. \A m \in MessageIds : m \notin job[c].batch => message'[m] = message[m]
  BY <1>1
<1>7. faults' \in 0 .. MaxFaults
  BY <1>1 DEF IInv, TypeOK
<1>8. QED
  BY <1>1, <1>3, <1>4, <1>5, <1>6, <1>7, JobEnds

LEMMA LambdaReturnsKeeps ==
  ASSUME IInv, NEW c \in Consumers, LambdaReturns(c)
  PROVE  IInv' /\ EventsKept
<1> USE OutboxAssumption, NullAssumption
<1>1. /\ message' = [m \in MessageIds |->
                       IF m \in job[c].failed THEN [message[m] EXCEPT !.state = "visible"]
                       ELSE IF m \in job[c].batch THEN [message[m] EXCEPT !.state = "deleted"]
                       ELSE message[m]]
      /\ job[c].todo = {}
      /\ job' = [job EXCEPT ![c] = NoJob] /\ UNCHANGED <<row, tick, mails, faults>>
  BY DEF LambdaReturns, Reported
<1>2. \A m \in job[c].batch : m \in MessageIds /\ message[m] \in Message
  BY DEF IInv, TypeOK, JobsHoldMessages
<1>3. \A m \in job[c].batch : /\ message'[m] \in Message
                              /\ message'[m].event = message[m].event
                              /\ m \in job[c].failed => message'[m].state = "visible"
  BY <1>1, <1>2 DEF Message
<1>4. job[c].failed \subseteq job[c].batch
      /\ \A m \in job[c].batch \ job[c].failed : Served(message[m].event)
  BY <1>1 DEF IInv, JobsHoldMessages, Handled
<1>5. message' \in [MessageIds -> Message \cup {NoMessage}]
  BY <1>1, <1>3, <1>4 DEF IInv, TypeOK
<1>6. \A m \in MessageIds : m \notin job[c].batch => message'[m] = message[m]
  BY <1>1, <1>4
<1>7. EventsKept
  BY <1>2, <1>3, <1>6 DEF EventsKept
<1>8. faults' \in 0 .. MaxFaults
  BY <1>1 DEF IInv, TypeOK
<1>9. QED
  BY <1>1, <1>3, <1>4, <1>5, <1>6, <1>7, <1>8, JobEnds

LEMMA ConsumerDiesKeeps ==
  ASSUME IInv, NEW c \in Consumers, ConsumerDies(c)
  PROVE  IInv' /\ EventsKept
<1> USE OutboxAssumption, NullAssumption
<1>1. /\ message' = [m \in MessageIds |->
                       IF m \in job[c].batch THEN [message[m] EXCEPT !.state = "visible"]
                                             ELSE message[m]]
      /\ job' = [job EXCEPT ![c] = NoJob] /\ UNCHANGED <<row, tick, mails>>
  BY DEF ConsumerDies, Moved
<1>2. \A m \in job[c].batch : m \in MessageIds /\ message[m] \in Message
  BY DEF IInv, TypeOK, JobsHoldMessages
<1>3. \A m \in job[c].batch : /\ message'[m] \in Message /\ message'[m].state = "visible"
                              /\ message'[m].event = message[m].event
  BY <1>1, <1>2 DEF Message
<1>4. message' \in [MessageIds -> Message \cup {NoMessage}]
  BY <1>1, <1>3 DEF IInv, TypeOK
<1>5. EventsKept
  BY <1>1, <1>2, <1>3 DEF EventsKept
<1>6. \A m \in MessageIds : m \notin job[c].batch => message'[m] = message[m]
  BY <1>1
<1>7. faults' \in 0 .. MaxFaults
  BY DEF ConsumerDies, Fault, IInv, TypeOK
<1>8. QED
  BY <1>1, <1>3, <1>4, <1>5, <1>6, <1>7, JobEnds

LEMMA DeadLetterKeeps ==
  ASSUME IInv, NEW m \in MessageIds, DeadLetter(m)
  PROVE  IInv' /\ EventsKept
<1> USE OutboxAssumption, NullAssumption
<1>1. IInv'
  BY DEF DeadLetter, Visible, Moved, IInv, TypeOK, TicksHoldRows, TicksApart, JobsHoldMessages,
     JobsApart, MessagesBelong, SentArePublished, MailedArePublished, Handled, Served,
     Published, Row, Message
<1>2. message[m] \in Message
  BY DEF DeadLetter, Visible, IInv, TypeOK
<1>3. /\ \A k \in MessageIds \ {m} : message'[k] = message[k]
      /\ message'[m] = [message[m] EXCEPT !.state = "dead"]
  BY DEF DeadLetter, Moved
<1>4. message'[m] \in Message /\ message'[m].event = message[m].event
  BY <1>2, <1>3 DEF Message
<1>5. EventsKept
  BY <1>2, <1>3, <1>4 DEF EventsKept
<1>6. QED
  BY <1>1, <1>5

-----------------------------------------------------------------------------
(* ... and by every step *)

LEMMA NextKeeps == IInv /\ [Next]_vars => IInv'
<1> SUFFICES ASSUME IInv, [Next]_vars PROVE IInv'
  OBVIOUS
<1>1. CASE \E e \in Events, type \in EventTypes, recipient \in BOOLEAN :
             QueueEvent(e, type, recipient)
  BY <1>1, QueueEventKeeps
<1>2. CASE \E r \in Relays : Relay(r)
  BY <1>2, SelectRowsKeeps, CommitTickKeeps, RelayDiesKeeps, SendFailsKeeps, SendRowKeeps,
     SendReplyLostKeeps DEF Relay
<1>3. CASE \E c \in Consumers : Consumer(c)
  BY <1>3, ReceiveKeeps, DeleteMessageKeeps, DeleteFailsKeeps, NextPollKeeps, LambdaReturnsKeeps,
     ConsumerDiesKeeps, SkipMessageKeeps, MailMessageKeeps, MailFailsKeeps,
     MailReplyLostKeeps DEF Consumer
<1>4. CASE \E m \in MessageIds : DeadLetter(m)
  BY <1>4, DeadLetterKeeps
<1>5. CASE UNCHANGED vars
  BY <1>5 DEF vars, IInv, TypeOK, TicksHoldRows, TicksApart, JobsHoldMessages, JobsApart,
     MessagesBelong, SentArePublished, MailedArePublished, Handled, Served, Published
<1>6. QED
  BY <1>1, <1>2, <1>3, <1>4, <1>5 DEF Next

\* The inductive invariant: what ticks and jobs hold, what is marked, mailed and deleted.
THEOREM OutboxInvariant == Spec => []IInv
  BY InitEstablishes, NextKeeps, PTL DEF Spec

-----------------------------------------------------------------------------
(* The properties of Outbox *)

\* The outbox component is well typed in every reachable state.
THEOREM OutboxTypeOK == Spec => []TypeOK
<1>1. IInv => TypeOK
  BY DEF IInv
<1>2. QED
  BY <1>1, OutboxInvariant, PTL

\* A committed event is never lost, however many relays and consumers die and however often
\* SQS and SES fail: publish_pending marks only what it sent, and the consumers delete only
\* what was mailed or needs no email.
THEOREM OutboxNoEventLost == Spec => []NoEventLost
<1>1. IInv => NoEventLost
  <2> SUFFICES ASSUME IInv, NEW e \in Events, row[e] # NoRow, row[e].sent, ~Served(e)
               PROVE  \E m \in MessagesOf(e) : message[m].state # "deleted"
    BY DEF NoEventLost, Served
  <2>1. PICK m \in MessageIds : message[m] # NoMessage /\ message[m].event = e
    BY DEF IInv, SentArePublished, Published
  <2>2. m \in MessagesOf(e) /\ message[m].state # "deleted"
    BY <2>1 DEF IInv, MessagesBelong, MessagesOf
  <2>3. QED
    BY <2>2
<1>2. QED
  BY <1>1, OutboxInvariant, PTL

\* No two relays ever hold the same row, and no two consumers the same message.
THEOREM OutboxOneHandler == Spec => []OneHandler
<1>1. IInv => OneHandler
  BY DEF IInv, TicksApart, JobsApart, OneHandler
<1>2. QED
  BY <1>1, OutboxInvariant, PTL

-----------------------------------------------------------------------------
(* The outbox implements EventDelivery *)

Committed == {e \in Events : row[e] # NoRow}
PublishedEvents == {e \in Events : MessagesOf(e) # {}}
MarkedEvents == {e \in Events : row[e] # NoRow /\ row[e].sent}
MailedEvents == {e \in Events : mails[e] > 0}

LEMMA PublishedHaveMessages == \A e : MessagesOf(e) # {} <=> Published(e)
  BY DEF MessagesOf, Published

\* What the steps of consumers and of the queue do to the abstract state.
LEMMA KeptEventsStayPublished ==
  ASSUME EventsKept
  PROVE  PublishedEvents' = PublishedEvents
<1>1. \A e : MessagesOf(e) = MessagesOf(e)'
  BY DEF MessagesOf, EventsKept
<1>2. QED
  BY <1>1 DEF PublishedEvents

LEMMA QueueEventRefines ==
  ASSUME IInv, NEW e \in Events, NEW type \in EventTypes, NEW recipient \in BOOLEAN,
         QueueEvent(e, type, recipient)
  PROVE  Delivery!Commit(e)
<1> USE NullAssumption
<1>1. Committed' = Committed \cup {e} /\ MarkedEvents' = MarkedEvents
  <2> DEFINE new == [type |-> type, recipient |-> recipient, sent |-> FALSE]
  <2>1. new # NoRow /\ ~new.sent
    <3>1. new \in Row
      BY DEF Row
    <3>2. QED
      BY <3>1
  <2>2. row[e] = NoRow /\ row' = [row EXCEPT ![e] = new]
    BY DEF QueueEvent
  <2> HIDE DEF new
  <2>3. QED
    BY <2>1, <2>2 DEF Committed, MarkedEvents, IInv, TypeOK
<1>2. PublishedEvents' = PublishedEvents /\ MailedEvents' = MailedEvents
  BY DEF QueueEvent, PublishedEvents, MailedEvents, MessagesOf
<1>3. QED
  BY <1>1, <1>2 DEF Delivery!Commit, Committed, PublishedEvents, MarkedEvents, MailedEvents

\* SQS takes a message, whether or not the relay learns of it.
LEMMA AcceptRefines ==
  ASSUME IInv, NEW r \in Relays, NEW e \in Events, NEW m \in MessageIds,
         IsNext(r, e), Accept(m, e), UNCHANGED <<row, mails>>
  PROVE  Delivery!Publish(e)
<1> USE NullAssumption
<1> DEFINE sent == [event |-> e, received |-> 0, state |-> "visible"]
<1>1. sent # NoMessage
  BY OutboxAssumption DEF Message
<1>2. message[m] = NoMessage /\ message' = [message EXCEPT ![m] = sent]
  BY DEF Accept
<1>3. e \in Committed
  BY DEF IsNext, Committed, IInv, TicksHoldRows
<1>4. PublishedEvents' = PublishedEvents \cup {e}
  BY <1>1, <1>2 DEF PublishedEvents, MessagesOf, IInv, TypeOK
<1>5. Committed' = Committed /\ MarkedEvents' = MarkedEvents /\ MailedEvents' = MailedEvents
  BY DEF Committed, MarkedEvents, MailedEvents
<1>6. QED
  BY <1>3, <1>4, <1>5
     DEF Delivery!Publish, Committed, PublishedEvents, MarkedEvents, MailedEvents

LEMMA CommitTickRefines ==
  ASSUME IInv, NEW r \in Relays, CommitTick(r), NEW done, done = tick[r].done
  PROVE  Delivery!Mark(done)
<1> USE NullAssumption
<1>1. /\ row' = [e \in Events |-> IF e \in done THEN [row[e] EXCEPT !.sent = TRUE]
                                                        ELSE row[e]]
      /\ UNCHANGED <<message, mails>>
  BY DEF CommitTick, Marked
<1>2. \A e \in done : /\ e \in Events /\ e \in PublishedEvents
                              /\ row[e] \in Row /\ row[e] # NoRow
  BY PublishedHaveMessages DEF IInv, TypeOK, TicksHoldRows, PublishedEvents
<1>3. \A e \in done : row'[e] # NoRow /\ row'[e].sent
  BY <1>1, <1>2 DEF Row
<1>4. Committed' = Committed /\ MarkedEvents' = MarkedEvents \cup done
  BY <1>1, <1>2, <1>3 DEF Committed, MarkedEvents
<1>5. PublishedEvents' = PublishedEvents /\ MailedEvents' = MailedEvents
  BY <1>1 DEF PublishedEvents, MailedEvents, MessagesOf
<1>6. done \subseteq PublishedEvents
  BY <1>2
<1>7. QED
  BY <1>4, <1>5, <1>6
     DEF Delivery!Mark, Committed, PublishedEvents, MarkedEvents, MailedEvents

\* SES takes an email, whether or not the consumer learns of it.
LEMMA MailRefines ==
  ASSUME IInv, NEW c \in Consumers, NEW m \in MessageIds, m \in job[c].todo,
         NEW e, e = message[m].event,
         mails' = [mails EXCEPT ![e] = @ + 1], UNCHANGED <<row, message>>
  PROVE  e \in Events /\ Delivery!Mail(e)
<1> USE NullAssumption
<1>1. message[m] # NoMessage /\ e \in Events
  BY DEF IInv, TypeOK, JobsHoldMessages, Message
<1>2. e \in PublishedEvents
  BY <1>1 DEF PublishedEvents, MessagesOf
<1>3. MailedEvents' = MailedEvents \cup {e}
  BY <1>1 DEF MailedEvents, IInv, TypeOK
<1>4. /\ Committed' = Committed /\ MarkedEvents' = MarkedEvents
      /\ PublishedEvents' = PublishedEvents
  BY DEF Committed, MarkedEvents, PublishedEvents, MessagesOf
<1>5. QED
  BY <1>1, <1>2, <1>3, <1>4
     DEF Delivery!Mail, Committed, PublishedEvents, MarkedEvents, MailedEvents

\* The other steps of consumers and of the queue only move messages.
LEMMA MovesRefine ==
  ASSUME EventsKept, UNCHANGED <<row, mails>>
  PROVE  UNCHANGED Delivery!dvars
<1>1. /\ Committed' = Committed /\ MarkedEvents' = MarkedEvents
      /\ MailedEvents' = MailedEvents /\ PublishedEvents' = PublishedEvents
  BY KeptEventsStayPublished DEF Committed, MarkedEvents, MailedEvents
<1>2. QED
  BY <1>1 DEF Delivery!dvars, Committed, PublishedEvents, MarkedEvents, MailedEvents

LEMMA StepRefines == IInv /\ [Next]_vars => [Delivery!DNext]_(Delivery!dvars)
<1> SUFFICES ASSUME IInv, [Next]_vars PROVE Delivery!DNext \/ UNCHANGED Delivery!dvars
  OBVIOUS
<1>1. ASSUME NEW e \in Events, NEW type \in EventTypes, NEW recipient \in BOOLEAN,
             QueueEvent(e, type, recipient)
      PROVE  Delivery!DNext
  BY <1>1, QueueEventRefines DEF Delivery!DNext
<1>2. ASSUME NEW r \in Relays, Relay(r)
      PROVE  Delivery!DNext \/ UNCHANGED Delivery!dvars
  <2>1. CASE SelectRows(r) \/ RelayDies(r) \/ \E e \in Events : SendFails(r, e)
    BY <2>1, MovesRefine DEF SelectRows, RelayDies, SendFails, EventsKept
  <2>2. CASE CommitTick(r)
    <3>1. PICK done \in SUBSET Events : done = tick[r].done
      BY DEF IInv, TypeOK
    <3>2. Delivery!Mark(done)
      BY <2>2, <3>1, CommitTickRefines
    <3>3. \E E \in SUBSET Events : Delivery!Mark(E)
      BY <3>2
    <3>4. QED
      BY <3>3 DEF Delivery!DNext
  <2>3. CASE \E e \in Events, m \in MessageIds : SendRow(r, e, m) \/ SendReplyLost(r, e, m)
    BY <2>3, AcceptRefines DEF SendRow, SendReplyLost, Delivery!DNext
  <2>4. QED
    BY <1>2, <2>1, <2>2, <2>3 DEF Relay
<1>3. ASSUME NEW c \in Consumers, Consumer(c)
      PROVE  Delivery!DNext \/ UNCHANGED Delivery!dvars
  <2>1. CASE Receive(c) \/ DeleteMessage(c) \/ NextPoll(c) \/ LambdaReturns(c) \/ ConsumerDies(c)
    <3>1. EventsKept
      BY <2>1, ReceiveKeeps, DeleteMessageKeeps, NextPollKeeps, LambdaReturnsKeeps,
         ConsumerDiesKeeps
    <3>2. QED
      BY <2>1, <3>1, MovesRefine DEF Receive, DeleteMessage, NextPoll, LambdaReturns,
         ConsumerDies
  <2>2. CASE DeleteFails(c) \/ \E m \in MessageIds : SkipMessage(c, m) \/ MailFails(c, m)
    BY <2>2, MovesRefine DEF DeleteFails, SkipMessage, MailFails, EventsKept
  <2>3. CASE \E m \in MessageIds : MailMessage(c, m) \/ MailReplyLost(c, m)
    <3>1. PICK m \in MessageIds : MailMessage(c, m) \/ MailReplyLost(c, m)
      BY <2>3
    <3>2. PICK e : e = message[m].event
      OBVIOUS
    <3>3. e \in Events /\ Delivery!Mail(e)
      BY <3>1, <3>2, MailRefines DEF MailMessage, MailReplyLost, MayHandle
    <3>4. QED
      BY <3>3 DEF Delivery!DNext
  <2>4. QED
    BY <1>3, <2>1, <2>2, <2>3 DEF Consumer
<1>4. ASSUME NEW m \in MessageIds, DeadLetter(m)
      PROVE  UNCHANGED Delivery!dvars
  BY <1>4, DeadLetterKeeps, MovesRefine DEF DeadLetter
<1>5. CASE UNCHANGED vars
  BY <1>5, MovesRefine DEF vars, EventsKept
<1>6. QED
  BY <1>1, <1>2, <1>3, <1>4, <1>5 DEF Next

\* The outbox publishes only what was committed, marks only what was published and mails only
\* what was published, however its processes die: the safety half of AtLeastOnce.
THEOREM OutboxImplementsDelivery == Spec => Delivery!DSafety
<1>1. Init => Delivery!DInit
  BY NullAssumption DEF Init, Delivery!DInit, MessagesOf
<1>2. QED
  BY <1>1, StepRefines, OutboxInvariant, PTL DEF Spec, Delivery!DSafety

-----------------------------------------------------------------------------
(***************************************************************************)
(* How many messages and emails of an event there can be, for any number   *)
(* of relays, consumers and faults.  A row may be sent once, and once more *)
(* for each fault; a message may be mailed once, and once more for each    *)
(* fault.  The invariant counts what may still be sent or mailed: a row    *)
(* that is marked, or that a tick has sent, is not sent again unless a     *)
(* fault undoes the tick; a message that is deleted, or that a job is      *)
(* through with, is not mailed again unless a fault undoes the job.        *)
(***************************************************************************)
Gone(e) == (row[e] # NoRow /\ row[e].sent) \/ \E r \in Relays : e \in tick[r].done

Concluded(m) == message[m].state = "deleted" \/ \E c \in Consumers : m \in Handled(c)
Delivered(e) == {m \in MessagesOf(e) : Concluded(m)}

\* The rows of a tick are not marked, and are sent once.
TicksUnsent == \A r \in Relays : /\ \A e \in tick[r].rows : ~row[e].sent
                                 /\ tick[r].todo \cap tick[r].done = {}
JobsSplit == \A c \in Consumers : job[c].todo \cap job[c].failed = {}
Apart == TicksUnsent /\ JobsSplit

SentWithin ==
  \A e \in Events : /\ IsFiniteSet(MessagesOf(e))
                    /\ Cardinality(MessagesOf(e)) <= faults + (IF Gone(e) THEN 1 ELSE 0)
MailedWithin ==
  \A e \in Events : mails[e] <= faults * Cardinality(MessagesOf(e)) + Cardinality(Delivered(e))

DInv == Apart /\ SentWithin /\ MailedWithin

-----------------------------------------------------------------------------
(* Rows and messages are held once *)

LEMMA InitCounts == Init => DInv
<1> SUFFICES ASSUME Init PROVE DInv
  OBVIOUS
<1>1. \A e \in Events : MessagesOf(e) = {} /\ Delivered(e) = {} /\ mails[e] = 0
  BY DEF Init, MessagesOf, Delivered
<1>2. Apart
  BY DEF Init, Apart, TicksUnsent, JobsSplit, NoTick, NoJob
<1>3. SentWithin /\ MailedWithin
  BY <1>1, FS_EmptySet DEF Init, SentWithin, MailedWithin
<1> QED
  BY <1>2, <1>3 DEF DInv

LEMMA ConsumersKeepApart ==
  ASSUME IInv, Apart, NEW c \in Consumers, Consumer(c) PROVE Apart'
<1>1. job[c] \in [batch : SUBSET MessageIds, todo : SUBSET MessageIds, failed : SUBSET MessageIds]
  BY DEF IInv, TypeOK
<1>2. UNCHANGED <<row, tick>>
  BY DEF Consumer, Receive, DeleteMessage, DeleteFails, NextPoll, LambdaReturns, ConsumerDies,
     SkipMessage, MailMessage, MailFails, MailReplyLost
<1>3. \A d \in Consumers \ {c} : job'[d] = job[d]
  BY DEF Consumer, Receive, DeleteMessage, DeleteFails, NextPoll, LambdaReturns, ConsumerDies,
     SkipMessage, MailMessage, MailFails, MailReplyLost, IInv, TypeOK
<1>4. job'[c].todo \cap job'[c].failed = {}
  <2>1. CASE Receive(c)
    <3>1. PICK batch : job' = [job EXCEPT ![c] = [batch |-> batch, todo |-> batch, failed |-> {}]]
      BY <2>1 DEF Receive
    <3>2. job'[c].failed = {}
      BY <3>1 DEF IInv, TypeOK
    <3> QED
      BY <3>2
  <2>2. CASE NextPoll(c) \/ LambdaReturns(c) \/ ConsumerDies(c)
    BY <2>2 DEF NextPoll, LambdaReturns, ConsumerDies, NoJob, IInv, TypeOK
  <2>3. CASE DeleteMessage(c)
    BY <2>3 DEF DeleteMessage, IInv, TypeOK, Apart, JobsSplit
  <2>4. CASE DeleteFails(c)
    BY <2>4 DEF DeleteFails, Handled, IInv, TypeOK, Apart, JobsSplit
  <2>5. ASSUME NEW m \in MessageIds, SkipMessage(c, m) \/ MailMessage(c, m)
        PROVE  job'[c].todo \cap job'[c].failed = {}
    BY <2>5 DEF SkipMessage, MailMessage, IInv, TypeOK, Apart, JobsSplit
  <2>6. ASSUME NEW m \in MessageIds, MailFails(c, m) \/ MailReplyLost(c, m)
        PROVE  job'[c].todo \cap job'[c].failed = {}
    <3>1. job' = [job EXCEPT ![c].todo = @ \ {m}, ![c].failed = @ \cup {m}]
      BY <2>6 DEF MailFails, MailReplyLost
    <3>2. job'[c].todo = job[c].todo \ {m} /\ job'[c].failed = job[c].failed \cup {m}
      BY <1>1, <3>1 DEF IInv, TypeOK
    <3> QED
      BY <3>2 DEF Apart, JobsSplit
  <2> QED
    BY <2>1, <2>2, <2>3, <2>4, <2>5, <2>6 DEF Consumer
<1> QED
  BY <1>2, <1>3, <1>4 DEF Apart, TicksUnsent, JobsSplit

LEMMA RelaysKeepApart ==
  ASSUME IInv, Apart, NEW r \in Relays, Relay(r) PROVE Apart'
<1>1. tick[r] \in [rows : SUBSET Events, todo : SUBSET Events, done : SUBSET Events]
  BY DEF IInv, TypeOK
<1>2. UNCHANGED job
  BY DEF Relay, SelectRows, CommitTick, RelayDies, SendFails, SendRow, SendReplyLost
<1>3. \A s \in Relays \ {r} : tick'[s] = tick[s]
  BY DEF Relay, SelectRows, CommitTick, RelayDies, SendFails, SendRow, SendReplyLost, IInv, TypeOK
<1>4. TicksUnsent'
  <2>1. CASE SelectRows(r)
    BY <1>3, <2>1 DEF SelectRows, Oldest, Pending, IInv, TypeOK, Apart, TicksUnsent
  <2>2. CASE RelayDies(r)
    BY <1>3, <2>2 DEF RelayDies, NoTick, IInv, TypeOK, Apart, TicksUnsent
  <2>3. CASE CommitTick(r)
    <3>1. tick'[r] = NoTick
      BY <2>3 DEF CommitTick, IInv, TypeOK
    <3>2. \A s \in Relays \ {r} : \A e \in tick[s].rows : e \notin tick[r].done /\ e \in Events
      BY DEF IInv, TypeOK, TicksApart, TicksHoldRows
    <3>3. \A s \in Relays \ {r} : \A e \in tick[s].rows : row'[e] = row[e]
      BY <2>3, <3>2 DEF CommitTick, Marked
    <3> QED
      BY <1>3, <3>1, <3>3 DEF NoTick, Apart, TicksUnsent
  <2>4. ASSUME NEW e \in Events,
               SendFails(r, e) \/ \E m \in MessageIds : SendRow(r, e, m) \/ SendReplyLost(r, e, m)
        PROVE  TicksUnsent'
    <3>1. UNCHANGED row /\ tick'[r].rows = tick[r].rows /\ tick'[r].todo = tick[r].todo \ {e}
          /\ tick'[r].done \subseteq tick[r].done \cup {e}
      BY <1>1, <2>4, SMTT(30) DEF SendFails, SendRow, SendReplyLost, IInv, TypeOK
    <3> QED
      BY <1>3, <3>1 DEF Apart, TicksUnsent
  <2> QED
    BY <2>1, <2>2, <2>3, <2>4 DEF Relay
<1> QED
  BY <1>2, <1>4 DEF Apart, JobsSplit

LEMMA OthersKeepApart ==
  ASSUME IInv, Apart,
         \/ \E e \in Events, type \in EventTypes, recipient \in BOOLEAN :
              QueueEvent(e, type, recipient)
         \/ \E m \in MessageIds : DeadLetter(m)
         \/ UNCHANGED vars
  PROVE  Apart'
<1>1. UNCHANGED <<tick, job>>
  BY DEF QueueEvent, DeadLetter, vars
<1>2. \A e \in Events : row[e] # NoRow => row'[e] = row[e]
  BY DEF QueueEvent, DeadLetter, vars, IInv, TypeOK
<1>3. \A r \in Relays : \A e \in tick[r].rows : e \in Events /\ row[e] # NoRow
  BY DEF IInv, TypeOK, TicksHoldRows
<1> QED
  BY <1>1, <1>2, <1>3 DEF Apart, TicksUnsent, JobsSplit

-----------------------------------------------------------------------------
(* Counting *)

LEMMA Sizes ==
  ASSUME IInv, SentWithin, NEW e \in Events
  PROVE  /\ IsFiniteSet(MessagesOf(e)) /\ IsFiniteSet(Delivered(e))
         /\ Cardinality(MessagesOf(e)) \in Nat /\ Cardinality(Delivered(e)) \in Nat
         /\ Cardinality(Delivered(e)) <= Cardinality(MessagesOf(e))
         /\ faults \in Nat /\ mails[e] \in Nat
<1>1. IsFiniteSet(MessagesOf(e)) /\ Delivered(e) \subseteq MessagesOf(e)
  BY DEF SentWithin, Delivered
<1>2. faults \in Nat /\ mails[e] \in Nat
  BY OutboxAssumption DEF IInv, TypeOK
<1> QED
  BY <1>1, <1>2, FS_Subset, FS_CardinalityType

LEMMA FaultPays ==
  ASSUME NEW f \in Nat, NEW n \in Nat, NEW d \in Nat, NEW b \in Nat, NEW x \in Nat, NEW y \in Nat,
         x <= f * n + d,
         (y = x /\ d <= n) \/ (y <= x + 1 /\ n >= 1 /\ d <= b)
  PROVE  y <= (f + 1) * n + b
<1>1. (f + 1) * n = f * n + n /\ f * n \in Nat
  OBVIOUS
<1> QED
  BY <1>1

LEMMA MessageAdds ==
  ASSUME NEW f \in Nat, NEW n \in Nat, NEW d \in Nat, NEW b \in Nat, NEW x \in Nat,
         x <= f * n + d, d <= b
  PROVE  x <= f * (n + 1) + b /\ x <= (f + 1) * (n + 1) + b
<1>1. f * (n + 1) = f * n + f /\ (f + 1) * (n + 1) = f * n + f + n + 1 /\ f * n \in Nat
  OBVIOUS
<1> QED
  BY <1>1

LEMMA MessagesStay == ASSUME EventsKept, NEW e PROVE MessagesOf(e)' = MessagesOf(e)
  BY DEF EventsKept, MessagesOf

\* A step without a fault that sends and mails nothing.
LEMMA QuietCounts ==
  ASSUME IInv, DInv, EventsKept, UNCHANGED <<faults, mails>>,
         \A e \in Events : Gone(e) => Gone(e)',
         \A m \in MessageIds : message[m] # NoMessage /\ Concluded(m) => Concluded(m)'
  PROVE  SentWithin' /\ MailedWithin'
<1> SUFFICES ASSUME NEW e \in Events
             PROVE  /\ IsFiniteSet(MessagesOf(e)')
                    /\ Cardinality(MessagesOf(e)') <= faults' + (IF Gone(e)' THEN 1 ELSE 0)
                    /\ mails'[e] <= faults' * Cardinality(MessagesOf(e)')
                                      + Cardinality(Delivered(e)')
  BY DEF SentWithin, MailedWithin
<1>1. MessagesOf(e)' = MessagesOf(e)
  BY MessagesStay
<1>2. /\ IsFiniteSet(MessagesOf(e)) /\ Cardinality(MessagesOf(e)) \in Nat
      /\ Cardinality(Delivered(e)) \in Nat /\ faults \in Nat /\ mails[e] \in Nat
  BY Sizes DEF DInv
<1>3. Delivered(e) \subseteq Delivered(e)' /\ Delivered(e)' \subseteq MessagesOf(e)
  BY <1>1 DEF Delivered, MessagesOf
<1>4. /\ Cardinality(Delivered(e)') \in Nat
      /\ Cardinality(Delivered(e)) <= Cardinality(Delivered(e)')
  BY <1>2, <1>3, FS_Subset, FS_CardinalityType
<1>5. Cardinality(MessagesOf(e)) <= faults + (IF Gone(e)' THEN 1 ELSE 0)
  BY <1>2 DEF DInv, SentWithin
<1>6. mails[e] <= faults * Cardinality(MessagesOf(e)) + Cardinality(Delivered(e))
  BY DEF DInv, MailedWithin
<1>7. mails[e] <= faults * Cardinality(MessagesOf(e)) + Cardinality(Delivered(e)')
  BY <1>2, <1>4, <1>6
<1> QED
  BY <1>1, <1>2, <1>5, <1>7

\* A fault that sends nothing, and mails one message of one event or nothing.
LEMMA FaultCounts ==
  ASSUME IInv, DInv, EventsKept, faults' = faults + 1, mails' \in [Events -> Nat],
         \A e \in Events :
            \/ mails'[e] = mails[e]
            \/ /\ mails'[e] = mails[e] + 1 /\ MessagesOf(e) # {}
               /\ Delivered(e) \subseteq Delivered(e)'
  PROVE  SentWithin' /\ MailedWithin'
<1> SUFFICES ASSUME NEW e \in Events
             PROVE  /\ IsFiniteSet(MessagesOf(e)')
                    /\ Cardinality(MessagesOf(e)') <= faults' + (IF Gone(e)' THEN 1 ELSE 0)
                    /\ mails'[e] <= faults' * Cardinality(MessagesOf(e)')
                                      + Cardinality(Delivered(e)')
  BY DEF SentWithin, MailedWithin
<1>1. MessagesOf(e)' = MessagesOf(e)
  BY MessagesStay
<1>2. /\ IsFiniteSet(MessagesOf(e)) /\ Cardinality(MessagesOf(e)) \in Nat
      /\ Cardinality(Delivered(e)) \in Nat /\ faults \in Nat /\ mails[e] \in Nat
      /\ Cardinality(Delivered(e)) <= Cardinality(MessagesOf(e))
  BY Sizes DEF DInv
<1>3. Delivered(e)' \subseteq MessagesOf(e)
  BY <1>1 DEF Delivered
<1>4. IsFiniteSet(Delivered(e)') /\ Cardinality(Delivered(e)') \in Nat
  BY <1>2, <1>3, FS_Subset, FS_CardinalityType
<1>5. Cardinality(MessagesOf(e)) <= faults + 1
  BY <1>2 DEF DInv, SentWithin
<1>6. mails[e] <= faults * Cardinality(MessagesOf(e)) + Cardinality(Delivered(e))
  BY DEF DInv, MailedWithin
<1>7. mails'[e] <= (faults + 1) * Cardinality(MessagesOf(e)) + Cardinality(Delivered(e)')
  <2>1. CASE mails'[e] = mails[e]
    BY <1>2, <1>4, <1>6, <2>1, FaultPays
  <2>2. CASE /\ mails'[e] = mails[e] + 1 /\ MessagesOf(e) # {}
             /\ Delivered(e) \subseteq Delivered(e)'
    <3>1. Cardinality(Delivered(e)) <= Cardinality(Delivered(e)')
      BY <1>4, <2>2, FS_Subset
    <3>2. Cardinality(MessagesOf(e)) >= 1
      BY <1>2, <2>2, FS_EmptySet
    <3>3. mails'[e] \in Nat
      OBVIOUS
    <3> QED
      BY <1>2, <1>4, <1>6, <2>2, <3>1, <3>2, <3>3, FaultPays
  <2> QED
    BY <2>1, <2>2
<1>8. Cardinality(MessagesOf(e)) <= faults' + (IF Gone(e)' THEN 1 ELSE 0)
  BY <1>2, <1>5
<1> QED
  BY <1>1, <1>2, <1>7, <1>8

\* A relay sends a row: the event has one message more.
LEMMA SendCounts ==
  ASSUME IInv, DInv, NEW r \in Relays, NEW e \in Events, NEW m \in MessageIds,
         SendRow(r, e, m) \/ SendReplyLost(r, e, m)
  PROVE  SentWithin' /\ MailedWithin'
<1> DEFINE sent == [event |-> e, received |-> 0, state |-> "visible"]
<1>1. /\ message[m] = NoMessage /\ message' = [message EXCEPT ![m] = sent]
      /\ UNCHANGED <<row, job, mails>> /\ e \in tick[r].todo
  BY DEF SendRow, SendReplyLost, Accept, IsNext
<1>2. sent \in Message /\ sent.event = e /\ sent # NoMessage
  <2>1. sent \in Message
    BY OutboxAssumption DEF Message
  <2> QED
    BY <2>1, NullAssumption
<1> HIDE DEF sent
<1>3. /\ message'[m] = sent /\ \A k \in MessageIds \ {m} : message'[k] = message[k]
  BY <1>1 DEF IInv, TypeOK
<1>4. /\ MessagesOf(e)' = MessagesOf(e) \cup {m} /\ m \notin MessagesOf(e)
      /\ \A d \in Events \ {e} : MessagesOf(d)' = MessagesOf(d)
  BY <1>1, <1>2, <1>3 DEF MessagesOf
<1>5. \A d \in Events : Delivered(d) \subseteq Delivered(d)' /\ Delivered(d)' \subseteq MessagesOf(d)'
  <2>1. \A k \in MessageIds \ {m} : Concluded(k)' <=> Concluded(k)
    BY <1>1, <1>3 DEF Concluded, Handled
  <2>2. \A d \in Events : m \notin MessagesOf(d)
    BY <1>1 DEF MessagesOf
  <2> QED
    BY <1>4, <2>1, <2>2 DEF Delivered, MessagesOf
<1>6. ~Gone(e)
  <2>1. e \in tick[r].rows /\ e \notin tick[r].done /\ ~row[e].sent
    BY <1>1 DEF IInv, TicksHoldRows, DInv, Apart, TicksUnsent
  <2>2. \A s \in Relays : e \in tick[s].done => s = r
    BY <2>1 DEF IInv, TicksHoldRows, TicksApart
  <2> QED
    BY <2>1, <2>2 DEF Gone
<1>7. /\ \A d \in Events : Gone(d) => Gone(d)'
      /\ (faults' = faults /\ Gone(e)') \/ faults' = faults + 1
  <2>1. /\ \A s \in Relays : tick[s].done \subseteq tick'[s].done
        /\ (faults' = faults /\ e \in tick'[r].done) \/ faults' = faults + 1
    <3> DEFINE Tick == [rows : SUBSET Events, todo : SUBSET Events, done : SUBSET Events]
    <3>1. tick \in [Relays -> Tick]
      BY DEF IInv, TypeOK
    <3>2. CASE SendRow(r, e, m)
      <4>1. /\ tick' = [tick EXCEPT ![r].todo = @ \ {e}, ![r].done = @ \cup {e}]
            /\ faults' = faults
        BY <3>2 DEF SendRow
      <4>2. /\ tick'[r].done = tick[r].done \cup {e}
            /\ \A s \in Relays \ {r} : tick'[s] = tick[s]
        BY <3>1, <4>1
      <4> QED
        BY <4>1, <4>2
    <3>3. CASE SendReplyLost(r, e, m)
      <4>1. /\ tick' = [tick EXCEPT ![r].todo = @ \ {e}]
            /\ faults' = faults + 1
        BY <3>3 DEF SendReplyLost, Fault
      <4>2. \A s \in Relays : tick'[s].done = tick[s].done
        BY <3>1, <4>1
      <4> QED
        BY <4>1, <4>2
    <3> QED
      BY <3>2, <3>3
  <2> QED
    BY <1>1, <2>1 DEF Gone
<1> SUFFICES ASSUME NEW d \in Events
             PROVE  /\ IsFiniteSet(MessagesOf(d)')
                    /\ Cardinality(MessagesOf(d)') <= faults' + (IF Gone(d)' THEN 1 ELSE 0)
                    /\ mails'[d] <= faults' * Cardinality(MessagesOf(d)')
                                      + Cardinality(Delivered(d)')
  BY DEF SentWithin, MailedWithin
<1>8. /\ IsFiniteSet(MessagesOf(d)) /\ Cardinality(MessagesOf(d)) \in Nat
      /\ Cardinality(Delivered(d)) \in Nat /\ faults \in Nat /\ mails[d] \in Nat
      /\ Cardinality(Delivered(d)) <= Cardinality(MessagesOf(d))
  BY Sizes DEF DInv
<1>9. IsFiniteSet(MessagesOf(d)')
  BY <1>4, <1>8, FS_AddElement
<1>10. /\ Cardinality(Delivered(d)') \in Nat
       /\ Cardinality(Delivered(d)) <= Cardinality(Delivered(d)')
  BY <1>5, <1>9, FS_Subset, FS_CardinalityType
<1>11. /\ Cardinality(MessagesOf(d)) <= faults + (IF Gone(d) THEN 1 ELSE 0)
       /\ mails[d] <= faults * Cardinality(MessagesOf(d)) + Cardinality(Delivered(d))
  BY DEF DInv, SentWithin, MailedWithin
<1>12. CASE d = e
  <2>1. Cardinality(MessagesOf(e)') = Cardinality(MessagesOf(e)) + 1
    BY <1>4, <1>8, <1>12, FS_AddElement
  <2>2. Cardinality(MessagesOf(e)') <= faults' + (IF Gone(e)' THEN 1 ELSE 0)
    BY <1>6, <1>7, <1>8, <1>11, <1>12, <2>1
  <2>3. mails[e] <= faults' * Cardinality(MessagesOf(e)') + Cardinality(Delivered(e)')
    BY <1>7, <1>8, <1>10, <1>11, <1>12, <2>1, MessageAdds
  <2> QED
    BY <1>1, <1>9, <1>12, <2>2, <2>3
<1>13. CASE d # e
  <2>1. MessagesOf(d)' = MessagesOf(d)
    BY <1>4, <1>13
  <2>2. Cardinality(MessagesOf(d)) <= faults' + (IF Gone(d)' THEN 1 ELSE 0)
    BY <1>7, <1>8, <1>11
  <2>3. mails[d] <= faults' * Cardinality(MessagesOf(d)) + Cardinality(Delivered(d)')
    <3>1. CASE faults' = faults
      BY <1>8, <1>10, <1>11, <3>1
    <3>2. CASE faults' = faults + 1
      BY <1>8, <1>10, <1>11, <3>2, FaultPays
    <3> QED
      BY <1>7, <3>1, <3>2
  <2> QED
    BY <1>1, <1>9, <2>1, <2>2, <2>3
<1> QED
  BY <1>12, <1>13

\* The steps of a relay that send nothing.
LEMMA RelayCounts ==
  ASSUME IInv, DInv, NEW r \in Relays,
         \/ SelectRows(r) \/ CommitTick(r) \/ RelayDies(r) \/ \E e \in Events : SendFails(r, e)
  PROVE  SentWithin' /\ MailedWithin'
<1>1. UNCHANGED <<message, job, mails>>
  BY DEF SelectRows, CommitTick, RelayDies, SendFails
<1>2. EventsKept
  BY <1>1 DEF EventsKept
<1>3. CASE RelayDies(r)
  BY <1>1, <1>2, <1>3, FaultCounts DEF RelayDies, Fault, IInv, TypeOK
<1>4. CASE ~RelayDies(r)
  <2>1. UNCHANGED faults
    BY <1>4 DEF SelectRows, CommitTick, SendFails
  <2>2. \A m \in MessageIds : Concluded(m)' <=> Concluded(m)
    BY <1>1 DEF Concluded, Handled
  <2>3. \A e \in Events : Gone(e) => Gone(e)'
    <3>1. CASE SelectRows(r)
      <4>1. UNCHANGED row /\ tick[r].done = {} /\ \A s \in Relays \ {r} : tick'[s] = tick[s]
        BY <3>1 DEF SelectRows, NoTick, IInv, TypeOK
      <4> QED
        BY <4>1 DEF Gone
    <3>2. CASE \E e \in Events : SendFails(r, e)
      <4>1. UNCHANGED row /\ \A s \in Relays : tick'[s].done = tick[s].done
        BY <3>2 DEF SendFails, IInv, TypeOK
      <4> QED
        BY <4>1 DEF Gone
    <3>3. CASE CommitTick(r)
      <4>1. \A e \in tick[r].done : e \in Events /\ row[e] \in Row
        BY DEF IInv, TypeOK, TicksHoldRows
      <4>2. \A e \in tick[r].done : row'[e] \in Row /\ row'[e].sent
        BY <3>3, <4>1 DEF CommitTick, Marked, Row
      <4>3. \A e \in tick[r].done : row'[e] # NoRow /\ row'[e].sent
        BY <4>2, NullAssumption
      <4>4. \A e \in Events \ tick[r].done : row'[e] = row[e]
        BY <3>3 DEF CommitTick, Marked
      <4>5. \A s \in Relays \ {r} : tick'[s] = tick[s]
        BY <3>3 DEF CommitTick, IInv, TypeOK
      <4> QED
        BY <4>3, <4>4, <4>5 DEF Gone
    <3> QED
      BY <1>4, <3>1, <3>2, <3>3
  <2> QED
    BY <1>1, <1>2, <2>1, <2>2, <2>3, QuietCounts
<1> QED
  BY <1>3, <1>4

-----------------------------------------------------------------------------
(* Consumers and the queue *)

LEMMA HandledInFlight ==
  ASSUME IInv, NEW c \in Consumers, NEW m \in Handled(c)
  PROVE  /\ m \in MessageIds /\ m \in job[c].batch /\ m \notin job[c].todo /\ m \notin job[c].failed
         /\ message[m] \in Message /\ message[m].state = "inflight"
  BY DEF IInv, TypeOK, JobsHoldMessages, Handled

\* What is concluded stays concluded in the steps that mail nothing and are no fault.
LEMMA ConcludedStays ==
  ASSUME IInv, Apart, NEW c \in Consumers, NEW m \in MessageIds, message[m] # NoMessage, Concluded(m),
         \/ Receive(c) \/ DeleteMessage(c) \/ NextPoll(c) \/ LambdaReturns(c)
         \/ \E k \in MessageIds : SkipMessage(c, k) \/ MailFails(c, k)
  PROVE  Concluded(m)'
<1>1. message[m] \in Message
  BY DEF IInv, TypeOK
<1>2. \A d \in Consumers \ {c} : job'[d] = job[d]
  BY DEF Receive, DeleteMessage, NextPoll, LambdaReturns, SkipMessage, MailFails, IInv, TypeOK
<1>3. ASSUME NEW d \in Consumers \ {c}, m \in Handled(d) PROVE Concluded(m)'
  BY <1>2, <1>3 DEF Concluded, Handled
<1>4. ASSUME message[m].state = "deleted" PROVE message'[m] = message[m]
  <2>1. m \notin Receivable /\ \A d \in Consumers : m \notin job[d].batch
    BY <1>4 DEF Receivable, Visible, IInv, JobsHoldMessages
  <2>2. m \notin Handled(c) /\ m \notin job[c].failed
    BY <2>1 DEF Handled, IInv, JobsHoldMessages
  <2> QED
    BY <2>1, <2>2 DEF Receive, DeleteMessage, NextPoll, LambdaReturns, Reported, Moved,
       SkipMessage, MailFails
<1>5. ASSUME m \in Handled(c) PROVE Concluded(m)'
  <2>1. m \in job[c].batch /\ m \notin job[c].todo /\ m \notin job[c].failed
    BY <1>5, HandledInFlight
  <2>2. CASE Receive(c)
    <3>1. job[c] = NoJob
      BY <2>2 DEF Receive
    <3> QED
      BY <2>1, <3>1 DEF NoJob
  <2>3. CASE DeleteMessage(c)
    <3>1. message'[m] = [message[m] EXCEPT !.state = "deleted"]
      BY <1>5, <2>3 DEF DeleteMessage, Moved
    <3> QED
      BY <1>1, <3>1 DEF Message, Concluded
  <2>4. CASE NextPoll(c)
    BY <1>5, <2>4 DEF NextPoll
  <2>5. CASE LambdaReturns(c)
    <3>1. message'[m] = [message[m] EXCEPT !.state = "deleted"]
      BY <2>1, <2>5 DEF LambdaReturns, Reported
    <3> QED
      BY <1>1, <3>1 DEF Message, Concluded
  <2>6. ASSUME NEW k \in MessageIds, SkipMessage(c, k) \/ MailFails(c, k) PROVE Concluded(m)'
    <3>1. job[c] \in [batch : SUBSET MessageIds, todo : SUBSET MessageIds,
                      failed : SUBSET MessageIds]
      BY DEF IInv, TypeOK
    <3>2. k \in job[c].todo /\ k # m
      BY <2>1, <2>6 DEF SkipMessage, MailFails, MayHandle
    <3>3. /\ job'[c].batch = job[c].batch /\ job'[c].todo = job[c].todo \ {k}
          /\ job'[c].failed \subseteq job[c].failed \cup {k}
      BY <2>6, <3>1 DEF SkipMessage, MailFails, IInv, TypeOK
    <3>4. m \in Handled(c)'
      BY <2>1, <3>2, <3>3 DEF Handled
    <3> QED
      BY <3>4 DEF Concluded
  <2> QED
    BY <2>2, <2>3, <2>4, <2>5, <2>6
<1> QED
  BY <1>3, <1>4, <1>5 DEF Concluded

\* The message that a consumer is about to handle is not concluded, and the email concludes it.
LEMMA MailCounts ==
  ASSUME IInv, DInv, NEW c \in Consumers, NEW m \in MessageIds, MailMessage(c, m)
  PROVE  SentWithin' /\ MailedWithin'
<1>1. /\ m \in job[c].todo /\ job' = [job EXCEPT ![c].todo = @ \ {m}]
      /\ mails' = [mails EXCEPT ![message[m].event] = @ + 1]
      /\ UNCHANGED <<row, tick, message, faults>>
  BY DEF MailMessage, MayHandle
<1>2. /\ m \in job[c].batch /\ message[m] \in Message /\ message[m] # NoMessage
      /\ message[m].state = "inflight"
  BY <1>1 DEF IInv, TypeOK, JobsHoldMessages
<1> PICK e \in Events : message[m].event = e
  BY <1>2 DEF Message
<1>3. m \in MessagesOf(e) /\ \A d : MessagesOf(d)' = MessagesOf(d)
  BY <1>1, <1>2 DEF MessagesOf
<1>4. /\ job'[c].batch = job[c].batch /\ job'[c].todo = job[c].todo \ {m}
      /\ job'[c].failed = job[c].failed /\ \A d \in Consumers \ {c} : job'[d] = job[d]
  BY <1>1 DEF IInv, TypeOK
<1>5. ~Concluded(m)
  BY <1>1, <1>2, HandledInFlight DEF Concluded, IInv, JobsApart
<1>6. Concluded(m)'
  BY <1>1, <1>2, <1>4 DEF Concluded, Handled, DInv, Apart, JobsSplit
<1>7. \A k \in MessageIds : Concluded(k) => Concluded(k)'
  BY <1>1, <1>4 DEF Concluded, Handled
<1>8. /\ \A d \in Events : Delivered(d) \subseteq Delivered(d)'
      /\ \A d \in Events : Delivered(d)' \subseteq MessagesOf(d)
      /\ m \in Delivered(e)' /\ m \notin Delivered(e)
  BY <1>3, <1>5, <1>6, <1>7 DEF Delivered, MessagesOf
<1>9. \A d \in Events : Gone(d)' <=> Gone(d)
  BY <1>1 DEF Gone
<1> SUFFICES ASSUME NEW d \in Events
             PROVE  /\ IsFiniteSet(MessagesOf(d)')
                    /\ Cardinality(MessagesOf(d)') <= faults' + (IF Gone(d)' THEN 1 ELSE 0)
                    /\ mails'[d] <= faults' * Cardinality(MessagesOf(d)')
                                      + Cardinality(Delivered(d)')
  BY DEF SentWithin, MailedWithin
<1>10. /\ IsFiniteSet(MessagesOf(d)) /\ Cardinality(MessagesOf(d)) \in Nat
       /\ IsFiniteSet(Delivered(d)) /\ Cardinality(Delivered(d)) \in Nat
       /\ faults \in Nat /\ mails[d] \in Nat
  BY Sizes DEF DInv
<1>11. /\ IsFiniteSet(Delivered(d)') /\ Cardinality(Delivered(d)') \in Nat
       /\ Cardinality(Delivered(d)) <= Cardinality(Delivered(d)')
  BY <1>8, <1>10, FS_Subset, FS_CardinalityType
<1>12. /\ Cardinality(MessagesOf(d)) <= faults + (IF Gone(d) THEN 1 ELSE 0)
       /\ mails[d] <= faults * Cardinality(MessagesOf(d)) + Cardinality(Delivered(d))
  BY DEF DInv, SentWithin, MailedWithin
<1>13. mails'[d] <= faults * Cardinality(MessagesOf(d)) + Cardinality(Delivered(d)')
  <2>1. CASE d = e
    <3>1. Delivered(e) \cup {m} \subseteq Delivered(e)'
      BY <1>8
    <3>2. Cardinality(Delivered(e) \cup {m}) <= Cardinality(Delivered(e)')
      BY <1>11, <2>1, <3>1, FS_Subset
    <3>3. Cardinality(Delivered(e) \cup {m}) = Cardinality(Delivered(e)) + 1
      BY <1>8, <1>10, <2>1, FS_AddElement
    <3>4. mails'[e] = mails[e] + 1
      BY <1>1, <1>2 DEF IInv, TypeOK
    <3> QED
      BY <1>10, <1>11, <1>12, <2>1, <3>2, <3>3, <3>4
  <2>2. CASE d # e
    <3>1. mails'[d] = mails[d]
      BY <1>1, <1>2, <2>2 DEF IInv, TypeOK
    <3> QED
      BY <1>10, <1>11, <1>12, <3>1
  <2> QED
    BY <2>1, <2>2
<1> QED
  BY <1>1, <1>3, <1>9, <1>10, <1>12, <1>13

LEMMA MailReplyLostCounts ==
  ASSUME IInv, DInv, NEW c \in Consumers, NEW m \in MessageIds, MailReplyLost(c, m)
  PROVE  SentWithin' /\ MailedWithin'
<1>1. /\ m \in job[c].todo
      /\ job' = [job EXCEPT ![c].todo = @ \ {m}, ![c].failed = @ \cup {m}]
      /\ mails' = [mails EXCEPT ![message[m].event] = @ + 1]
      /\ UNCHANGED <<row, tick, message>> /\ faults' = faults + 1
  BY DEF MailReplyLost, MayHandle, Fault
<1>2. m \in job[c].batch /\ message[m] \in Message /\ message[m] # NoMessage
  BY <1>1 DEF IInv, TypeOK, JobsHoldMessages
<1> PICK e \in Events : message[m].event = e
  BY <1>2 DEF Message
<1>3. job[c] \in [batch : SUBSET MessageIds, todo : SUBSET MessageIds, failed : SUBSET MessageIds]
  BY DEF IInv, TypeOK
<1>4. /\ job'[c].batch = job[c].batch /\ job'[c].todo = job[c].todo \ {m}
      /\ job'[c].failed = job[c].failed \cup {m}
      /\ \A d \in Consumers \ {c} : job'[d] = job[d]
  BY <1>1, <1>3 DEF IInv, TypeOK
<1>5. \A d \in Consumers : Handled(d) \subseteq Handled(d)'
  BY <1>1, <1>4 DEF Handled
<1>6. \A k \in MessageIds : Concluded(k) => Concluded(k)'
  BY <1>1, <1>5 DEF Concluded
<1>7. m \in MessagesOf(e) /\ EventsKept
  BY <1>1, <1>2 DEF MessagesOf, EventsKept
<1>8. \A d \in Events : Delivered(d) \subseteq Delivered(d)'
  BY <1>1, <1>6 DEF Delivered, MessagesOf
<1>9. /\ mails' \in [Events -> Nat]
      /\ mails'[e] = mails[e] + 1 /\ \A d \in Events \ {e} : mails'[d] = mails[d]
  BY <1>1, <1>2 DEF IInv, TypeOK
<1>10. \A d \in Events : \/ mails'[d] = mails[d]
                         \/ /\ mails'[d] = mails[d] + 1 /\ MessagesOf(d) # {}
                            /\ Delivered(d) \subseteq Delivered(d)'
  <2>1. MessagesOf(e) # {} /\ Delivered(e) \subseteq Delivered(e)'
    BY <1>2, <1>7, <1>8
  <2> QED
    BY <1>9, <2>1
<1> QED
  BY <1>1, <1>7, <1>9, <1>10, FaultCounts

LEMMA ConsumerCounts ==
  ASSUME IInv, DInv, NEW c \in Consumers, Consumer(c)
  PROVE  SentWithin' /\ MailedWithin'
<1>1. CASE ConsumerDies(c)
  BY <1>1, ConsumerDiesKeeps, FaultCounts DEF ConsumerDies, Fault, IInv, TypeOK
<1>2. CASE DeleteFails(c)
  <2>1. EventsKept
    BY <1>2 DEF DeleteFails, EventsKept
  <2> QED
    BY <1>2, <2>1, FaultCounts DEF DeleteFails, Fault, IInv, TypeOK
<1>3. CASE \/ Receive(c) \/ DeleteMessage(c) \/ NextPoll(c) \/ LambdaReturns(c)
           \/ \E k \in MessageIds : SkipMessage(c, k) \/ MailFails(c, k)
  <2>1. EventsKept
    BY <1>3, ReceiveKeeps, DeleteMessageKeeps, NextPollKeeps, LambdaReturnsKeeps
       DEF SkipMessage, MailFails, EventsKept
  <2>2. UNCHANGED <<row, tick, mails, faults>>
    BY <1>3 DEF Receive, DeleteMessage, NextPoll, LambdaReturns, SkipMessage, MailFails
  <2>3. \A e \in Events : Gone(e) => Gone(e)'
    BY <2>2 DEF Gone
  <2>4. \A m \in MessageIds : message[m] # NoMessage /\ Concluded(m) => Concluded(m)'
    BY <1>3, ConcludedStays DEF DInv
  <2> QED
    BY <2>1, <2>2, <2>3, <2>4, QuietCounts
<1> QED
  BY <1>1, <1>2, <1>3, MailCounts, MailReplyLostCounts DEF Consumer

LEMMA OthersCount ==
  ASSUME IInv, DInv,
         \/ \E e \in Events, type \in EventTypes, recipient \in BOOLEAN :
              QueueEvent(e, type, recipient)
         \/ \E m \in MessageIds : DeadLetter(m)
         \/ UNCHANGED vars
  PROVE  SentWithin' /\ MailedWithin'
<1>1. UNCHANGED <<tick, job, mails, faults>>
  BY DEF QueueEvent, DeadLetter, vars
<1>2. EventsKept
  BY DeadLetterKeeps DEF QueueEvent, vars, EventsKept
<1>3. \A e \in Events : Gone(e) => Gone(e)'
  <2>1. \A e \in Events : row[e] # NoRow => row'[e] = row[e]
    BY DEF QueueEvent, DeadLetter, vars, IInv, TypeOK
  <2> QED
    BY <1>1, <2>1 DEF Gone
<1>4. \A m \in MessageIds : Concluded(m) => Concluded(m)'
  <2>1. \A m \in MessageIds : message[m].state = "deleted" => message'[m] = message[m]
    BY DEF QueueEvent, DeadLetter, Visible, Moved, vars
  <2> QED
    BY <1>1, <2>1 DEF Concluded, Handled
<1> QED
  BY <1>1, <1>2, <1>3, <1>4, QuietCounts

-----------------------------------------------------------------------------
LEMMA StepCounts == IInv /\ DInv /\ [Next]_vars => DInv'
<1> SUFFICES ASSUME IInv, DInv, [Next]_vars PROVE DInv'
  OBVIOUS
<1>1. ASSUME NEW r \in Relays, Relay(r) PROVE DInv'
  <2>1. Apart'
    BY <1>1, RelaysKeepApart DEF DInv
  <2>2. SentWithin' /\ MailedWithin'
    BY <1>1, SendCounts, RelayCounts DEF Relay
  <2> QED
    BY <2>1, <2>2 DEF DInv
<1>2. ASSUME NEW c \in Consumers, Consumer(c) PROVE DInv'
  BY <1>2, ConsumersKeepApart, ConsumerCounts DEF DInv
<1>3. CASE ~((\E r \in Relays : Relay(r)) \/ (\E c \in Consumers : Consumer(c)))
  BY <1>3, OthersKeepApart, OthersCount DEF DInv, Next
<1> QED
  BY <1>1, <1>2, <1>3

LEMMA CountsBound == IInv /\ DInv => DuplicatesComeFromFaults
<1> SUFFICES ASSUME IInv, DInv, NEW e \in Events
             PROVE  /\ Cardinality(MessagesOf(e)) <= 1 + faults
                    /\ mails[e] <= (1 + faults) * Cardinality(MessagesOf(e))
  BY DEF DuplicatesComeFromFaults
<1>1. /\ Cardinality(MessagesOf(e)) \in Nat /\ Cardinality(Delivered(e)) \in Nat
      /\ Cardinality(Delivered(e)) <= Cardinality(MessagesOf(e))
      /\ faults \in Nat /\ mails[e] \in Nat
  BY Sizes DEF DInv
<1>2. /\ Cardinality(MessagesOf(e)) <= faults + (IF Gone(e) THEN 1 ELSE 0)
      /\ mails[e] <= faults * Cardinality(MessagesOf(e)) + Cardinality(Delivered(e))
  BY DEF DInv, SentWithin, MailedWithin
<1>3. (1 + faults) * Cardinality(MessagesOf(e))
        = faults * Cardinality(MessagesOf(e)) + Cardinality(MessagesOf(e))
      /\ faults * Cardinality(MessagesOf(e)) \in Nat
  BY <1>1
<1> QED
  BY <1>1, <1>2, <1>3

\* Whatever relays and consumers run and wherever they die, an event has one message, and one
\* more for each fault; a message is mailed once, and once more for each fault (the row locks of
\* publish_pending, visibility and the partial batch response of the Lambda).
THEOREM OutboxDuplicatesBounded == Spec => []DuplicatesComeFromFaults
<1>1. Init => IInv /\ DInv
  BY InitEstablishes, InitCounts
<1>2. (IInv /\ DInv) /\ [Next]_vars => (IInv /\ DInv)'
  BY NextKeeps, StepCounts
<1> QED
  BY <1>1, <1>2, CountsBound, PTL DEF Spec
=============================================================================
