----------------------------- MODULE KafkaBridge -----------------------------
(***************************************************************************)
(* The Kafka side of the gateway: the outbox worker that publishes events  *)
(* (kafka/outbox.go) and the command consumer (kafka/consumer.go,          *)
(* kafka/franz.go) with the transaction a command becomes                  *)
(* (messaging/service.go, CreateOutbound of store/postgres/messages.go).   *)
(* Several gateway processes share the outbox and the consumer group; the  *)
(* broker may move a partition at any time, and a process may fail between *)
(* the database and the broker.  The broker is external.                   *)
(***************************************************************************)
EXTENDS Naturals, Sequences, SequencesExt, FiniteSets

CONSTANTS KafkaEvents,   \* events with an outbox row for destination kafka
          Processes,     \* gateway processes: outbox worker and consumer
          NoProcess,     \* no claim, no assignment
          Partitions,    \* command partitions
          Log,           \* Log[p]: the command records of partition p
          NoBody,        \* no request stored under an idempotency key
          MaxFailures    \* bound on failures, rebalances and expired claims

\* A record: trusted (maps to a producer), signed (by its HMAC, which is good for
\* a time only), valid (decodes, right tenant, valid content and route), whether
\* it fails for good (the producer has no tenant, or the store refuses the
\* message, as for a connection that does not exist), idempotency key, and the
\* body the digest is taken of.
ASSUME KafkaAssumption ==
    /\ NoProcess \notin Processes
    /\ MaxFailures \in Nat
    /\ IsFiniteSet(Partitions) /\ \A p \in Partitions : Len(Log[p]) \in Nat
    /\ \A p \in Partitions : \A i \in DOMAIN Log[p] :
          /\ {Log[p][i].trusted, Log[p][i].signed, Log[p][i].valid} \subseteq BOOLEAN
          /\ Log[p][i].fails \in {"never", "authorize", "submit"}

VARIABLES claims,     \* event_outbox: owner, unexpired, published
          claimed,    \* events a worker has claimed and not yet published
          sent,       \* the broker has acknowledged the first of the claimed
          topic,      \* events the broker has acknowledged
          assigned,   \* owner of each command partition
          committedOffset, \* committed offsets: records of the partition consumed
          position,   \* the fetch position of every consumer
          paused,     \* partitions a consumer has paused
          fetched,    \* what is left of the current fetch: a run of records per partition
          stored,     \* the head of the fetch is in the database, its offset is not committed
          request,    \* message_idempotency: the body first stored under a key
          audit,      \* kafka_commands rows
          commandDLQ, \* kafka_command_dlq rows
          lapsed,     \* signed records that are too old by now
          failures

outboxVars == <<claims, claimed, sent, topic>>
commandVars == <<assigned, committedOffset, position, paused, fetched, stored>>
commandStore == <<request, audit, commandDLQ, lapsed>>
kafkaVars == <<claims, claimed, sent, topic, assigned, committedOffset, position, paused,
               fetched, stored, request, audit, commandDLQ, lapsed, failures>>

Keys == UNION {{Log[p][i].key : i \in DOMAIN Log[p]} : p \in Partitions}

KafkaInit ==
    /\ claims = [v \in KafkaEvents |-> [owner |-> NoProcess, live |-> FALSE, published |-> FALSE]]
    /\ claimed = [o \in Processes |-> <<>>]
    /\ sent = [o \in Processes |-> FALSE]
    /\ topic = {}
    /\ assigned = [p \in Partitions |-> NoProcess]
    /\ committedOffset = [p \in Partitions |-> 0]
    /\ position = [o \in Processes |-> [p \in Partitions |-> 0]]
    /\ paused = [o \in Processes |-> {}]
    /\ fetched = [o \in Processes |-> <<>>]
    /\ stored = [o \in Processes |-> FALSE]
    /\ request = [k \in Keys |-> NoBody]
    /\ audit = {}
    /\ commandDLQ = {}
    /\ lapsed = {}
    /\ failures = 0

-----------------------------------------------------------------------------
(* The outbox worker *)

Unclaimed(v) == ~claims[v].published /\ ~claims[v].live

(* ClaimEvents: lease a batch for 30 seconds.  It comes back in the order of
   the event IDs, which is not the order the events were recorded in. *)
ClaimEvents(o) ==
    /\ claimed[o] = <<>>
    /\ \E taken \in SUBSET {v \in KafkaEvents : Unclaimed(v)} \ {{}} :
          /\ claims' = [v \in KafkaEvents |->
                          IF v \in taken THEN [claims[v] EXCEPT !.owner = o, !.live = TRUE]
                          ELSE claims[v]]
          /\ claimed' = [claimed EXCEPT ![o] = SetToSeq(taken)]
    /\ UNCHANGED <<sent, topic, commandVars, commandStore, failures>>

\* Publish: the broker acknowledges the record of the first event left.
Publish(o) ==
    /\ claimed[o] # <<>>
    /\ ~sent[o]
    /\ sent' = [sent EXCEPT ![o] = TRUE]
    /\ topic' = topic \cup {Head(claimed[o])}
    /\ UNCHANGED <<claims, claimed, commandVars, commandStore, failures>>

\* MarkPublished, whoever holds the claim by now.
MarkPublished(o) ==
    /\ sent[o]
    /\ sent' = [sent EXCEPT ![o] = FALSE]
    /\ claims' = [claims EXCEPT ![Head(claimed[o])] =
                    [owner |-> NoProcess, live |-> FALSE, published |-> TRUE]]
    /\ claimed' = [claimed EXCEPT ![o] = Tail(@)]
    /\ UNCHANGED <<topic, commandVars, commandStore, failures>>

(* RunBatch ends with an error of the broker or the store: the rest of the
   batch is dropped with its claims, the event at hand maybe published and not
   marked.  (A refused event would do the same, but every writer of events gives
   them a connection and the table bounds the body.) *)
BatchFails(o) ==
    /\ claimed[o] # <<>>
    /\ failures < MaxFailures
    /\ failures' = failures + 1
    /\ claimed' = [claimed EXCEPT ![o] = <<>>]
    /\ sent' = [sent EXCEPT ![o] = FALSE]
    /\ UNCHANGED <<claims, topic, commandVars, commandStore>>

ClaimElapses(v) ==
    /\ claims[v].live
    /\ claims' = [claims EXCEPT ![v].live = FALSE]
    /\ UNCHANGED <<claimed, sent, topic, commandVars, commandStore, failures>>

-----------------------------------------------------------------------------
(* The command consumer *)

Record(r) == Log[r[1]][r[2]]

\* The record the consumer is at.
CurrentRecord(o) == <<Head(fetched[o]).partition, Head(fetched[o]).next>>

\* The rest of a fetch after the record it is at.
AfterRecord(runs) ==
    IF Head(runs).next = Head(runs).last THEN Tail(runs) ELSE [runs EXCEPT ![1].next = @ + 1]

(* trustedCommandRecord: the topic is bound to a principal, or the record's
   HMAC names one and is not older than the skew it allows. *)
Trusted(r) == Record(r).trusted /\ r \notin lapsed

SignatureLapses(p, i) ==
    /\ Record(<<p, i>>).signed
    /\ <<p, i>> \notin lapsed
    /\ lapsed' = lapsed \cup {<<p, i>>}
    /\ UNCHANGED <<outboxVars, commandVars, request, audit, commandDLQ, failures>>

\* PollFetches: a run of records from the position of partitions in service, one
\* partition after the other.
PollFetches(o) ==
    /\ fetched[o] = <<>>
    /\ \E served \in SUBSET {p \in Partitions : assigned[p] = o /\ p \notin paused[o]} \ {{}} :
       \E upto \in [served -> UNION {1..Len(Log[p]) : p \in served}], order \in SetToSeqs(served) :
          /\ \A p \in served : upto[p] \in (position[o][p] + 1)..Len(Log[p])
          /\ fetched' = [fetched EXCEPT ![o] = [k \in 1..Len(order) |->
                [partition |-> order[k], next |-> position[o][order[k]] + 1, last |-> upto[order[k]]]]]
          /\ position' = [position EXCEPT ![o] = [p \in Partitions |->
                IF p \in served THEN upto[p] ELSE position[o][p]]]
    /\ UNCHANGED <<outboxVars, assigned, committedOffset, paused, stored, commandStore, failures>>

\* Mutant: only the unauthenticated record itself is skipped.
AfterBarrierOnlyThis(runs) == AfterRecord(runs)

\* Mutant: the quarantine of one partition drops the whole fetch.
AfterBarrierStopsAll(runs) == <<>>

\* What processCommandFetch still handles after an unauthenticated record: the
\* rest of its partition is skipped.
AfterBarrier(runs) == Tail(runs)

(* processCommandFetch on an unauthenticated record: a barrier for its
   partition.  The partition is paused, the rest of it in this fetch skipped,
   nothing committed. *)
Quarantine(o) ==
    /\ fetched[o] # <<>>
    /\ ~stored[o]
    /\ ~Trusted(CurrentRecord(o))
    /\ paused' = [paused EXCEPT ![o] = @ \cup {CurrentRecord(o)[1]}]
    /\ fetched' = [fetched EXCEPT ![o] = AfterBarrier(@)]
    /\ UNCHANGED <<outboxVars, assigned, committedOffset, position, stored, commandStore, failures>>

\* decodeCommand and the tenant of the principal: what fails is rejected for good,
\* and so is another body under a stored key.
Rejected(c) == ~c.valid \/ request[c.key] \notin {NoBody, c.body}

\* Authorize fails, or the submission with an error that is no rejection: a
\* duplicate is answered before the message would be inserted.
Fails(c) ==
    \/ c.fails = "authorize"
    \/ c.fails = "submit" /\ ~Rejected(c) /\ request[c.key] = NoBody

(* Handle up to the commit of its transaction: SubmitAuthenticatedCommand
   stores the message, the idempotency row and the audit row of this offset
   together (a duplicate only the audit row); a rejected command goes to the
   tenant's dead letters. *)
Handle(o) ==
    /\ fetched[o] # <<>>
    /\ ~stored[o]
    /\ LET r == CurrentRecord(o)
           c == Record(r)
       IN  /\ Trusted(r)
           /\ ~Fails(c)
           /\ \/ /\ Rejected(c)
                 /\ commandDLQ' = commandDLQ \cup {r}
                 /\ UNCHANGED <<request, audit>>
              \/ /\ ~Rejected(c)
                 /\ request' = [request EXCEPT ![c.key] = c.body]
                 /\ audit' = audit \cup {r}
                 /\ UNCHANGED commandDLQ
    /\ stored' = [stored EXCEPT ![o] = TRUE]
    /\ UNCHANGED <<outboxVars, assigned, committedOffset, position, paused, fetched, lapsed,
                   failures>>

\* Commit: the broker takes it from the member the partition is assigned to.
Commit(o) ==
    /\ stored[o]
    /\ LET r == CurrentRecord(o)
       IN  /\ assigned[r[1]] = o
           /\ committedOffset' = [committedOffset EXCEPT ![r[1]] = r[2]]
    /\ fetched' = [fetched EXCEPT ![o] = AfterRecord(@)]
    /\ stored' = [stored EXCEPT ![o] = FALSE]
    /\ UNCHANGED <<outboxVars, assigned, position, paused, commandStore, failures>>

(* An error of any other kind ends RunCommands, and with it the process; it
   comes back as a new member of the group with nothing in memory. *)
Reborn(o) ==
    /\ claimed' = [claimed EXCEPT ![o] = <<>>]
    /\ sent' = [sent EXCEPT ![o] = FALSE]
    /\ fetched' = [fetched EXCEPT ![o] = <<>>]
    /\ stored' = [stored EXCEPT ![o] = FALSE]
    /\ paused' = [paused EXCEPT ![o] = {}]
    /\ position' = [position EXCEPT ![o] = committedOffset]
    /\ assigned' = [p \in Partitions |-> IF assigned[p] = o THEN NoProcess ELSE assigned[p]]
    /\ UNCHANGED <<claims, topic, committedOffset, commandStore>>

Restart(o) ==
    /\ failures < MaxFailures
    /\ failures' = failures + 1
    /\ Reborn(o)

\* The errors Handle returns are such: the record is neither a dead letter nor
\* committed, and comes again.
HandleFails(o) ==
    /\ fetched[o] # <<>>
    /\ ~stored[o]
    /\ Trusted(CurrentRecord(o))
    /\ Fails(Record(CurrentRecord(o)))
    /\ Reborn(o)
    /\ UNCHANGED failures

\* So is a commit the broker refuses.
CommitRefused(o) ==
    /\ stored[o]
    /\ assigned[CurrentRecord(o)[1]] # o
    /\ Reborn(o)
    /\ UNCHANGED failures

\* The group assigns a partition; its new owner starts at the committed offset.
Assign(p, o) ==
    /\ assigned[p] # o
    /\ IF assigned[p] = NoProcess THEN UNCHANGED failures
       ELSE failures < MaxFailures /\ failures' = failures + 1
    /\ assigned' = [assigned EXCEPT ![p] = o]
    /\ position' = [position EXCEPT ![o][p] = committedOffset[p]]
    /\ paused' = [paused EXCEPT ![o] = @ \ {p}]
    /\ UNCHANGED <<outboxVars, committedOffset, fetched, stored, commandStore>>

-----------------------------------------------------------------------------
OutboxStep(o) == ClaimEvents(o) \/ Publish(o) \/ MarkPublished(o)

ConsumerStep(o) == \/ PollFetches(o) \/ Quarantine(o) \/ Handle(o) \/ HandleFails(o)
                   \/ Commit(o) \/ CommitRefused(o)

KafkaNext ==
    \/ \E o \in Processes :
          \/ OutboxStep(o) \/ BatchFails(o) \/ ConsumerStep(o) \/ Restart(o)
          \/ \E p \in Partitions : Assign(p, o)
    \/ \E p \in Partitions : \E i \in DOMAIN Log[p] : SignatureLapses(p, i)
    \/ \E v \in KafkaEvents : ClaimElapses(v)

\* The group assigns a partition nobody has.
Adopt(p) == assigned[p] = NoProcess /\ \E o \in Processes : Assign(p, o)

(* The supervisor runs the outbox worker again and again, the consumer polls
   in a loop, the broker assigns an orphaned partition, and a claim expires
   when nothing renews it. *)
KafkaFairness ==
    /\ \A v \in KafkaEvents : WF_kafkaVars(ClaimElapses(v))
    /\ \A o \in Processes : WF_kafkaVars(OutboxStep(o)) /\ WF_kafkaVars(ConsumerStep(o))
    /\ \A p \in Partitions : WF_kafkaVars(Adopt(p))

KafkaSpec == KafkaInit /\ [][KafkaNext]_kafkaVars /\ KafkaFairness

-----------------------------------------------------------------------------
(* A committed offset hides nothing: every record below it is an audited
   command or a dead letter.  A record that is not authenticated, or no longer,
   and one whose submission fails are neither, so no commit ever passes one,
   whatever was fetched with it and however often the partition moved. *)
CommittedIsSettled ==
    \A p \in Partitions : \A i \in 1..committedOffset[p] : <<p, i>> \in audit \cup commandDLQ

\* A record that is not authenticated stands between the committed offset and i.
BehindBarrier(p, i) == \E j \in (committedOffset[p] + 1)..i : ~Trusted(<<p, j>>)

\* The next record of a partition ends the process whenever it is handled.
AtFailingRecord ==
    \E p \in Partitions : LET i == committedOffset[p] + 1
                          IN  i <= Len(Log[p]) /\ Trusted(<<p, i>>) /\ Fails(Record(<<p, i>>))

(* No record waits forever behind anything but an unauthenticated record of
   its own partition: every other one is settled and its offset committed.  And
   every event reaches the topic and is marked, whoever crashed with it in a
   claimed batch.  One thing stops all of it: a partition has been consumed up
   to a command whose submission fails for good, which takes down whichever
   process is given it, each time. *)
Settled ==
    \/ AtFailingRecord
    \/ /\ \A p \in Partitions : \A i \in DOMAIN Log[p] :
              BehindBarrier(p, i) \/ committedOffset[p] >= i
       /\ \A v \in KafkaEvents : claims[v].published /\ v \in topic
CommandSettles == <>Settled
=============================================================================
