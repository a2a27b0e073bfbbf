------------------------------- MODULE Ingress -------------------------------
(***************************************************************************)
(* Provider envelopes on their way into the database and their             *)
(* acknowledgements on the way back, for one connection: the polling       *)
(* goroutine persists an envelope (event_handler.go, durable_sink.go,      *)
(* ingress/service.go, CommitEnvelope of store/postgres/messages.go) and   *)
(* queues its response ID; the ACK loop sends batches of queued IDs inside *)
(* a transaction that keeps the connection and lease rows locked.          *)
(*                                                                         *)
(* row[r] joins the reservation of response ID r with the inbox or         *)
(* rejected row its disposition names: every statement writes them         *)
(* together.  An envelope stands for its own digest.  A transaction is one *)
(* step, except the ACK coordination, whose locks outlast a network call.  *)
(* A failed statement rolls back and is a stuttering step; a commit whose  *)
(* reply is lost changes the rows and queues nothing.                      *)
(***************************************************************************)
EXTENDS ConnectionLease, MessageState, SequencesExt, FiniteSetsExt

CONSTANTS Responses,      \* provider response IDs
          Messages,       \* provider message IDs
          Outbound,       \* the messages this gateway sent
          Envelopes,      \* what the provider may put under a response ID
          None,           \* no envelope, no attachment identity
          QueueLimit,     \* ackQueueLimit
          BatchLimit,     \* ackBatchLimit
          MaxPoisoned,    \* MaxPoisonedProviderInboxEntries
          MaxRejected,    \* MaxRejectedProviderResponses
          MaxDeliveries   \* bound on the envelopes the provider delivers

(* What an envelope projects to: one message (inbound, or a receipt of an
   outbound one), nothing since it does not decrypt or decode, a projection
   that breaks a limit, or a settings snapshot that is not one.  complete tells
   INCOMING_COMPLETE from the other statuses of an inbound message. *)
EnvelopeKinds == {"message", "malformed", "oversized", "settings"}

ASSUME IngressAssumption ==
    /\ {QueueLimit, BatchLimit} \subseteq Nat \ {0}
    /\ {MaxPoisoned, MaxRejected, MaxDeliveries} \subseteq Nat
    /\ Outbound \subseteq Messages
    /\ None \notin Envelopes
    /\ \A e \in Envelopes : /\ e.rid \in Responses
                            /\ e.kind \in EnvelopeKinds
                            /\ e.msg \in Messages
                            /\ e.state \in CarrierStates \cup {"", "failed"}
                            /\ e.complete => e.msg \notin Outbound /\ e.state = "delivered"

VARIABLES row,         \* provider_response_reservations with its inbox or rejected row
          message,     \* messages: presence, derived state, attachment identity
          events,      \* gateway_events, each with its outbox row
          queue,       \* ackMap of the process' client
          batch,       \* the ACK batch between admission and completion
          phase,       \* the generation: starting, ready (OnReady ran), failed
          wired,       \* response IDs some ACK request has carried
          deliveries   \* envelopes delivered so far

storeVars == <<row, message, events>>
clientVars == <<queue, batch, phase>>
ingressVars == <<lease, held, row, message, events, queue, batch, phase, wired, deliveries>>

-----------------------------------------------------------------------------
NoRow == [disp |-> "none", env |-> None, conflicted |-> FALSE, poisoned |-> FALSE,
          reason |-> "", ack |-> FALSE]
Idle == [ids |-> <<>>, admitted |-> {}, sent |-> FALSE]

IngressInit ==
    /\ LeaseInit
    /\ row = [r \in Responses |-> NoRow]
    /\ message = [m \in Messages |->
                    [known |-> m \in Outbound, media |-> None,
                     state |-> IF m \in Outbound THEN "provider_accepted" ELSE ""]]
    /\ events = {}
    /\ queue = [o \in Owners |-> <<>>]
    /\ batch = [o \in Owners |-> Idle]
    /\ phase = [o \in Owners |-> "starting"]
    /\ wired = {}
    /\ deliveries = 0

(* The coordinating transaction holds the connection and lease rows FOR
   UPDATE: every other fenced statement waits for it. *)
Unlocked == \A o \in Owners : batch[o].admitted = {}

-----------------------------------------------------------------------------
(* The ACK queue of the client *)

\* queueMessageAck: no duplicate, and dropped when the window is full.
QueueMessageAck(q, r) ==
    IF Contains(q, r) \/ Len(q) >= QueueLimit THEN q ELSE Append(q, r)

\* Mutant: what the database still owes is not put back in the queue.
QueueNothingDurable(q, ids) == q

\* QueueDurableACKs: queueMessageAck for each of them in turn.
QueueDurableACKs(q, ids) == FoldLeft(QueueMessageAck, q, ids)

\* requeueMessageACKs: a prefix of the queue, as far as the window allows.
RequeueMessageACKs(q, ids) ==
    LET missing == SelectSeq(ids, LAMBDA r : ~Contains(q, r))
        room    == IF Len(q) >= QueueLimit THEN 0 ELSE QueueLimit - Len(q)
    IN  SubSeq(missing, 1, IF Len(missing) < room THEN Len(missing) ELSE room) \o q

PendingACK(r) == row[r].ack /\ ~row[r].conflicted

(* ListPendingProviderACKsFenced, for the refill at Ready and after every
   coordination that succeeds.  Rows of the same age come in any order, so
   one fixed order of the response IDs stands for received_at. *)
PendingACKs == SetToSeq({r \in Responses : PendingACK(r)})

-----------------------------------------------------------------------------
(* Persisting an envelope *)

PoisonedRows == {r \in Responses : row[r].disp = "inbox" /\ row[r].poisoned}
RejectedRows == {r \in Responses : row[r].disp = "rejected"}

(* finalizeProviderPoison of an unpoisoned inbox row: keep it as raw evidence,
   else compact it into a rejected row, else there is no capacity. *)
PoisonCapacity ==
    Cardinality(PoisonedRows) < MaxPoisoned \/ Cardinality(RejectedRows) < MaxRejected
FinalizeProviderPoison(entry, reason) ==
    IF Cardinality(PoisonedRows) < MaxPoisoned
    THEN [entry EXCEPT !.poisoned = TRUE, !.reason = reason]
    ELSE [entry EXCEPT !.poisoned = TRUE, !.reason = reason,
                       !.disp = "rejected", !.ack = ~entry.conflicted]

(* signalFailure: the generation is told to end.  It works on until it does. *)
Failed(o) == phase' = [phase EXCEPT ![o] = "failed"]

(* The client's side of a commit.  Told of it, it queues the response ID; when
   the reply is lost the sink reports an infrastructure failure instead. *)
Persisted(o, r) ==
    /\ \/ queue' = [queue EXCEPT ![o] = QueueMessageAck(@, r)] /\ UNCHANGED phase
       \/ UNCHANGED queue /\ Failed(o)
    /\ UNCHANGED <<lease, held, batch, wired>>

(* First poison: queued, and reported as a failure unless it answers a request
   that is waiting for it (receiveDurablePoison). *)
PersistedPoison(o, r) ==
    /\ \/ queue' = [queue EXCEPT ![o] = QueueMessageAck(@, r)] /\ (UNCHANGED phase \/ Failed(o))
       \/ UNCHANGED queue /\ Failed(o)
    /\ UNCHANGED <<lease, held, batch, wired>>

(* A conflict and a withheld ACK are errors of the sink. *)
NotAcknowledged(o) ==
    Failed(o) /\ UNCHANGED <<lease, held, queue, batch, wired>>

(* getProviderInbox: the unconflicted reservation of a response ID. *)
Found(r) == row[r].disp # "none" /\ ~row[r].conflicted

(* The same bytes again: the ACK is reopened, unless the snapshot it answers
   was withheld. *)
CommitDuplicate(o, e) ==
    LET r == e.rid
        withheld == /\ row[r].disp = "inbox" /\ row[r].poisoned
                    /\ row[r].reason = "invalid_settings_snapshot"
    IN  /\ Found(r) /\ row[r].env = e
        /\ UNCHANGED <<message, events>>
        /\ IF withheld \/ e.kind = "settings"
           THEN UNCHANGED row /\ NotAcknowledged(o)
           ELSE row' = [row EXCEPT ![r].ack = TRUE] /\ Persisted(o, r)

(* Other bytes under a known response ID: the reservation is conflicted and
   its ACK fenced, whether or not there is room for the evidence. *)
CommitConflict(o, e) ==
    LET r == e.rid
        fenced == [row[r] EXCEPT !.conflicted = TRUE, !.ack = FALSE]
    IN  /\ Found(r) /\ row[r].env # e
        /\ row' = [row EXCEPT ![r] =
                     IF row[r].disp = "inbox" /\ ~row[r].poisoned /\ PoisonCapacity
                     THEN FinalizeProviderPoison(fenced, "response_id_digest_conflict")
                     ELSE fenced]
        /\ UNCHANGED <<message, events>>
        /\ NotAcknowledged(o)

NewRow(e, poisoned, reason) ==
    [disp |-> "inbox", env |-> e, conflicted |-> FALSE, poisoned |-> poisoned,
     reason |-> reason, ack |-> e.kind # "settings"]

InboxPoisoned(r) == [type |-> "inbox.poisoned", of |-> r]

(* decryptInternalMessage: one ciphertext field that decrypts and unmarshals. *)
DecryptInternalMessage(e) == e.kind # "malformed"

(* ValidateProjection: limits, identifiers and references of what was decoded. *)
ValidateProjection(e) == e.kind # "oversized"

(* Process: the first reason not to project an envelope. *)
PoisonReason(e) ==
    CASE e.kind = "settings"        -> "invalid_settings_snapshot"
      [] ~DecryptInternalMessage(e) -> "decode_failed"
      [] ~ValidateProjection(e)     -> "projection_invalid"
      [] OTHER                      -> ""

(* An envelope that does not decode or validate is kept as poison.  A settings
   snapshot's ACK is withheld, so that the provider sends it again. *)
CommitPoison(o, e) ==
    LET r == e.rid IN
    /\ row[r].disp = "none"
    /\ PoisonReason(e) # ""
    /\ Cardinality(PoisonedRows) < MaxPoisoned
    /\ row' = [row EXCEPT ![r] = NewRow(e, TRUE, PoisonReason(e))]
    /\ events' = events \cup {InboxPoisoned(r)}
    /\ UNCHANGED message
    /\ IF e.kind = "settings" THEN NotAcknowledged(o) ELSE PersistedPoison(o, r)

(* lockExistingAttachment: the position is free, already bound to the same
   identity, or an uploaded attachment the first echo binds. *)
AttachmentFits(e) ==
    e.media = None \/ message[e.msg].media \in {None, e.media}

CommitAttachmentConflict(o, e) ==
    LET r == e.rid IN
    /\ row[r].disp = "none"
    /\ PoisonReason(e) = ""
    /\ ~AttachmentFits(e)
    /\ PoisonCapacity
    /\ row' = [row EXCEPT ![r] =
                 FinalizeProviderPoison(NewRow(e, FALSE, ""), "media_identity_conflict")]
    /\ events' = events \cup {InboxPoisoned(r)}
    /\ UNCHANGED message
    /\ PersistedPoison(o, r)

(* Mutant: the event ID of a received message is scoped to its response. *)
ResponseScopedEventID(e, type, state) ==
    [type |-> type, of |-> e.msg, content |-> e]

(* semanticMessageEventID: a message is received and imported once, updated
   once for every content. *)
SemanticMessageEventID(e, type, state) ==
    [type |-> type, of |-> e.msg,
     content |-> IF type = "message.updated" THEN <<e, state>> ELSE None]

(* The state the projection stores: a new message takes the provider's state,
   or uncertain when that has no mapping; a known one folds it in. *)
ProjectedState(e) ==
    CASE ~message[e.msg].known -> IF e.state = "" THEN "uncertain" ELSE e.state
      [] e.state = ""          -> message[e.msg].state
      [] OTHER                 -> Observe(message[e.msg].state, e.state)

(* receiptTransitionEventID: one event for each state an outbound message
   enters through a receipt, of the type named after the state. *)
TransitionEvent(e) == [type |-> "message.<state>", of |-> e.msg, state |-> ProjectedState(e)]
Transitions(e) ==
    message[e.msg].known /\ e.msg \in Outbound /\ ProjectedState(e) # message[e.msg].state

(* actionableProviderMessage: live, inbound and there in full. *)
ActionableProviderMessage(e, replayed) == ~replayed /\ e.msg \notin Outbound /\ e.complete

(* projectionEvents, with the type CommitEnvelope settles on once it knows the
   message. *)
ProjectionEvent(e, replayed) ==
    IF ActionableProviderMessage(e, replayed) THEN "message.received"
    ELSE IF ~message[e.msg].known /\ replayed THEN "message.imported"
    ELSE "message.updated"

(* A valid envelope: message, attachment, status, events and outbox in one
   transaction.  replayed is the provenance the client gives to the backlog
   of a restart, which is not part of the digest.  A transition event is
   inserted without ON CONFLICT, so a second one rolls everything back. *)
CommitProjection(o, e, replayed) ==
    LET r == e.rid
        type == ProjectionEvent(e, replayed)
    IN  /\ row[r].disp = "none"
        /\ PoisonReason(e) = ""
        /\ AttachmentFits(e)
        /\ Transitions(e) => TransitionEvent(e) \notin events
        /\ row' = [row EXCEPT ![r] = NewRow(e, FALSE, "")]
        /\ message' = [message EXCEPT ![e.msg] =
                         [known |-> TRUE, state |-> ProjectedState(e),
                          media |-> IF e.media = None THEN @.media ELSE e.media]]
        /\ events' = events \cup {SemanticMessageEventID(e, type, ProjectedState(e))}
                            \cup (IF Transitions(e) THEN {TransitionEvent(e)} ELSE {})
        /\ Persisted(o, r)

(* handleRPCMsgEnvelopeContext for one delivery, first or repeated. *)
HandleEnvelope(o, e, replayed) ==
    /\ OwnsLease(o)
    /\ Unlocked
    /\ deliveries < MaxDeliveries
    /\ deliveries' = deliveries + 1
    /\ \/ CommitDuplicate(o, e)
       \/ CommitConflict(o, e)
       \/ CommitPoison(o, e)
       \/ CommitAttachmentConflict(o, e)
       \/ CommitProjection(o, e, replayed)

(* CompleteDispatch of another process reports an uncertain send meanwhile. *)
DispatchObserves(m) ==
    /\ m \in Outbound
    /\ message[m].state = "provider_accepted"
    /\ message' = [message EXCEPT ![m].state = Observe(@, "uncertain")]
    /\ UNCHANGED <<lease, held, row, events, clientVars, wired, deliveries>>

-----------------------------------------------------------------------------
(* Acknowledging *)

(* sendAckRequestContext takes a batch off the queue and the coordinator
   filters it under the lease lock: conflicted or settled IDs are dropped. *)
Batch(q) == SubSeq(q, 1, IF Len(q) < BatchLimit THEN Len(q) ELSE BatchLimit)
Rest(q)  == SubSeq(q, Len(Batch(q)) + 1, Len(q))

(* Mutant: the batch is admitted by the queue alone. *)
AdmittedUnchecked(ids) == ToSet(ids)

\* coordinate_provider_ack_batch: unconflicted and still pending.
Admitted(ids) == {r \in Responses : Contains(ids, r) /\ PendingACK(r)}

AdmitACKs(o) ==
    LET ids == Batch(queue[o])
        admitted == Admitted(ids)
    IN  /\ queue[o] # <<>>
        /\ batch[o] = Idle
        /\ OwnsLease(o)
        /\ Unlocked
        /\ IF admitted = {}
           THEN /\ queue' = [queue EXCEPT ![o] = QueueDurableACKs(Rest(@), PendingACKs)]
                /\ UNCHANGED batch
           ELSE /\ queue' = [queue EXCEPT ![o] = Rest(@)]
                /\ batch' = [batch EXCEPT ![o] = [ids |-> ids, admitted |-> admitted,
                                                  sent |-> FALSE]]
        /\ UNCHANGED <<lease, held, storeVars, phase, wired, deliveries>>

(* sendProviderACKBatch puts the request on the wire. *)
SendACKBatch(o) ==
    /\ batch[o].admitted # {} /\ ~batch[o].sent
    /\ batch' = [batch EXCEPT ![o].sent = TRUE]
    /\ wired' = wired \cup batch[o].admitted
    /\ UNCHANGED <<lease, held, storeVars, queue, phase, deliveries>>

(* The provider answered: the rows are settled, the transaction commits and
   the queue is refilled from the rows still pending. *)
CompleteACKs(o) ==
    LET done == batch[o].admitted
        settled == [r \in Responses |-> [row[r] EXCEPT !.ack = @ /\ r \notin done]]
        left == SelectSeq(PendingACKs, LAMBDA r : r \notin done)
    IN  /\ batch[o].sent
        /\ row' = settled
        /\ queue' = [queue EXCEPT ![o] = QueueDurableACKs(@, left)]
        /\ batch' = [batch EXCEPT ![o] = Idle]
        /\ UNCHANGED <<lease, held, message, events, phase, wired, deliveries>>

(* Rolled back: the admitted IDs go back to the front of the queue. *)
RollBack(o) ==
    LET retry == SelectSeq(batch[o].ids, LAMBDA r : r \in batch[o].admitted)
    IN  /\ queue' = [queue EXCEPT ![o] = RequeueMessageACKs(@, retry)]
        /\ batch' = [batch EXCEPT ![o] = Idle]
        /\ UNCHANGED <<lease, held, storeVars, wired, deliveries>>

(* The request failed or timed out, on the wire or not: no reason to end the
   generation. *)
ProviderACKFails(o) ==
    batch[o].admitted # {} /\ RollBack(o) /\ UNCHANGED phase

(* The provider answered and the commit after it failed. *)
CommitACKsFails(o) ==
    batch[o].sent /\ RollBack(o) /\ Failed(o)

-----------------------------------------------------------------------------
(* The generation around them *)

\* A new client: its queue is empty until OnReady.
NewClient(o) ==
    /\ queue' = [queue EXCEPT ![o] = <<>>]
    /\ batch' = [batch EXCEPT ![o] = Idle]
    /\ phase' = [phase EXCEPT ![o] = "starting"]
    /\ UNCHANGED <<storeVars, wired, deliveries>>

StartGeneration(o) == Unlocked /\ AcquireConnectionLease(o) /\ NewClient(o)

(* The provider is closed and joined before the lease is released, so no
   coordination is open. *)
StopGeneration(o) == Unlocked /\ ReleaseConnectionLease(o) /\ NewClient(o)

(* The process dies; the database rolls its open transaction back. *)
CrashGeneration(o) == ReleaseLost(o) /\ NewClient(o)

(* OnReady: pending ACKs are queued before the actor hears of it. *)
OnReady(o) ==
    /\ OwnsLease(o) /\ Unlocked
    /\ phase[o] = "starting"
    /\ phase' = [phase EXCEPT ![o] = "ready"]
    /\ queue' = [queue EXCEPT ![o] = QueueDurableACKs(@, PendingACKs)]
    /\ UNCHANGED <<lease, held, storeVars, batch, wired, deliveries>>

(* A lease cannot lapse under a coordination: admission extends it beyond the
   hard timeout of the transaction.  The control plane's fence waits. *)
LeaseChanges ==
    /\ Unlocked
    /\ LeaseLapses \/ FenceConnectionLease
    /\ UNCHANGED <<storeVars, clientVars, wired, deliveries>>

IngressNext ==
    \/ \E o \in Owners :
         \/ StartGeneration(o) \/ StopGeneration(o) \/ CrashGeneration(o) \/ OnReady(o)
         \/ AdmitACKs(o) \/ SendACKBatch(o) \/ CompleteACKs(o)
         \/ ProviderACKFails(o) \/ CommitACKsFails(o)
         \/ \E e \in Envelopes, replayed \in BOOLEAN : HandleEnvelope(o, e, replayed)
    \/ \E m \in Messages : DispatchObserves(m)
    \/ LeaseChanges

(* The client calls OnReady once it polls, the ACK ticker never stops, a
   provider that keeps being asked answers now and then, and the actor ends a
   generation that has failed. *)
IngressFairness ==
    \A o \in Owners : /\ WF_ingressVars(OnReady(o))
                      /\ WF_ingressVars(AdmitACKs(o))
                      /\ SF_ingressVars(SendACKBatch(o))
                      /\ SF_ingressVars(CompleteACKs(o))
                      /\ WF_ingressVars(phase[o] = "failed" /\ StopGeneration(o))

IngressSpec == IngressInit /\ [][IngressNext]_ingressVars /\ IngressFairness

-----------------------------------------------------------------------------
(* Durable before acknowledged: whatever an ACK request ever named is in the
   database, and if its envelope was valid its message is there with the
   events that announce it.  The provider forgets what is acknowledged, so a
   hole here is a lost message.  And "a conflicting envelope on any replica
   either commits first and is filtered, or waits": a request under way names
   neither a conflicted response nor one whose ACK is withheld. *)
DurableBeforeACK ==
    /\ \A r \in wired :
         /\ row[r].disp # "none"
         /\ ~row[r].poisoned => /\ message[row[r].env.msg].known
                               /\ \E ev \in events : ev.of = row[r].env.msg
    /\ \A o \in Owners : batch[o].sent =>
         \A r \in batch[o].admitted :
            ~row[r].conflicted /\ row[r].reason # "invalid_settings_snapshot"

(* A message is announced as received at most once, however many responses
   carry it and however often each is redelivered live or as backlog; and no
   receipt is wedged for ever by the ID of its own transition event. *)
AnnouncedOnce ==
    /\ \A m \in Messages :
         Cardinality({ev \in events : ev.type = "message.received" /\ ev.of = m}) <= 1
    /\ \A e \in Envelopes :
         row[e.rid].disp = "none" /\ e.kind = "message" /\ Transitions(e)
            => TransitionEvent(e) \notin events

(* Every pending ACK is sent and settled while its connection keeps an owner:
   nothing dropped by the bounded queue, a rollback or a restart is forgotten. *)
PendingACKDrains ==
    \A r \in Responses :
        PendingACK(r) ~> ~PendingACK(r) \/ ~\E o \in Owners : OwnsLease(o)
=============================================================================
