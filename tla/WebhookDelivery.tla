--------------------------- MODULE WebhookDelivery ---------------------------
(***************************************************************************)
(* Signed webhooks of one tenant: the endpoint registry                    *)
(* (webhook/endpoints.go), the delivery rows and the dead letter queue     *)
(* (store/postgres/delivery.go) and the workers of the gateway processes   *)
(* (webhook/worker.go).  Every repository call is one transaction and one  *)
(* step; a task is a goroutine of RunBatch between its repository calls.   *)
(*                                                                         *)
(* Secrets, their rotation and their purge are in the module               *)
(* WebhookRegistry: no delivery row depends on them.  The endpoint         *)
(* generation is left out: it changes only in the step that clears active, *)
(* and no operation sets active again.                                     *)
(***************************************************************************)
EXTENDS Naturals, FiniteSets

CONSTANTS Endpoints,     \* endpoint IDs
          Events,        \* events of the tenant
          Workers,       \* one webhook worker per gateway process
          NoWorker,      \* claimed_by IS NULL
          MaxEndpoints,  \* quota of active endpoints
          ClaimLimit,    \* rows locked and claimed by one pass of Claim
          MaxAttempts,   \* attempts in a retry cycle before the delivery is dead
          MaxLosses      \* bound on crashes, abandoned attempts and slow renewals

ASSUME WebhookAssumption ==
    /\ NoWorker \notin Workers
    /\ {MaxEndpoints, ClaimLimit, MaxAttempts} \subseteq Nat \ {0}
    /\ MaxLosses \in Nat

Pairs == Endpoints \X Events

VARIABLES endpoint,   \* webhook_endpoints: absent, active, revoked
          outbox,     \* event_outbox rows for destination webhook: absent, open, closed
          owed,       \* ghost: pairs whose endpoint was active when the event was recorded
          delivery,   \* webhook_deliveries, one row per endpoint and event
          dlq,        \* webhook_dlq by delivery: none, dead, replayed
          tasks,      \* attempts in the memory of the workers
          accepted,   \* ghost: deliveries some endpoint answered with 2xx
          losses      \* crashes, abandoned attempts and slow renewals so far

webhookVars == <<endpoint, outbox, owed, delivery, dlq, tasks, accepted, losses>>

NoDelivery == [state |-> "none", owner |-> NoWorker, token |-> 0, cycle |-> 0,
               http |-> FALSE, live |-> FALSE]

WebhookInit ==
    /\ endpoint = [e \in Endpoints |-> "absent"]
    /\ outbox = [v \in Events |-> "absent"]
    /\ owed = {}
    /\ delivery = [p \in Pairs |-> NoDelivery]
    /\ dlq = [p \in Pairs |-> "none"]
    /\ tasks = {}
    /\ accepted = {}
    /\ losses = 0

Active(e) == endpoint[e] = "active"
Queued(p) == delivery[p].state \in {"pending", "delivering"}

-----------------------------------------------------------------------------
(* The registry *)

\* CreateEndpoint: the tenant row lock makes the quota check and the insert one step.
CreateEndpoint(e) ==
    /\ endpoint[e] = "absent"
    /\ Cardinality({x \in Endpoints : Active(x)}) < MaxEndpoints
    /\ endpoint' = [endpoint EXCEPT ![e] = "active"]
    /\ UNCHANGED <<outbox, owed, delivery, dlq, tasks, accepted, losses>>

(* The rows DeleteEndpoint revokes: queued, and not started or with an expired
   claim.  claim_expires_at is NULL in an unclaimed row, and NULL <= now is not
   true: an unclaimed row whose last attempt started HTTP is not selected. *)
Revocable(p) ==
    /\ Queued(p)
    /\ ~delivery[p].http \/ (delivery[p].owner # NoWorker /\ ~delivery[p].live)

Dead(d) == [d EXCEPT !.state = "dead", !.owner = NoWorker, !.live = FALSE]

\* INSERT INTO webhook_dlq ... ON CONFLICT (tenant_id, delivery_id) DO NOTHING.
DeadLetter(p) == IF dlq[p] = "none" THEN "dead" ELSE dlq[p]

DeleteEndpoint(e) ==
    LET revoked == {p \in Pairs : p[1] = e /\ Revocable(p)}
    IN  /\ endpoint[e] # "absent"
        /\ endpoint' = [endpoint EXCEPT ![e] = "revoked"]
        /\ delivery' = [p \in Pairs |->
                          IF p \in revoked
                          THEN [Dead(delivery[p]) EXCEPT !.token = @ + 1]
                          ELSE delivery[p]]
        /\ dlq' = [p \in Pairs |-> IF p \in revoked THEN DeadLetter(p) ELSE dlq[p]]
        /\ UNCHANGED <<outbox, owed, tasks, accepted, losses>>

\* ReplayDLQ: a dead letter is replayed once.
ReplayDLQ(p) ==
    /\ Active(p[1])
    /\ dlq[p] = "dead"
    /\ delivery' = [delivery EXCEPT ![p].state = "pending", ![p].cycle = 0,
                                    ![p].owner = NoWorker, ![p].live = FALSE,
                                    ![p].token = @ + 1]
    /\ dlq' = [dlq EXCEPT ![p] = "replayed"]
    /\ UNCHANGED <<endpoint, outbox, owed, tasks, accepted, losses>>

-----------------------------------------------------------------------------
(* The event outbox and the claims *)

\* insertGatewayEventSQL and insertEventOutboxSQL of the recording transaction.
RecordEvent(v) ==
    /\ outbox[v] = "absent"
    /\ outbox' = [outbox EXCEPT ![v] = "open"]
    /\ owed' = owed \cup {<<e, v>> : e \in {x \in Endpoints : Active(x)}}
    /\ UNCHANGED <<endpoint, delivery, dlq, tasks, accepted, losses>>

Missing(locked) == {p \in Pairs : p[2] \in locked /\ Active(p[1]) /\ delivery[p].state = "none"}

\* Mutant: the completeness check of closed_outbox is forgotten.
CompletedUnchecked(locked, new) == locked

(* closed_outbox: an event of the locked batch is done when every active
   endpoint has its delivery, existing or just materialized. *)
Completed(locked, new) ==
    {v \in locked : \A e \in Endpoints :
        Active(e) => delivery[<<e, v>>].state # "none" \/ <<e, v>> \in new}

\* Mutant: a claim is never taken over.
ClaimableUnowned(p) == Active(p[1]) /\ Queued(p) /\ delivery[p].owner = NoWorker

Claimable(p) ==
    /\ Active(p[1])
    /\ Queued(p)
    /\ delivery[p].owner = NoWorker \/ ~delivery[p].live

ClaimedBy(d, w) ==
    [d EXCEPT !.state = "delivering", !.owner = w, !.live = TRUE,
              !.token = @ + 1, !.cycle = @ + 1, !.http = FALSE]

Task(p, w) == [pair |-> p, owner |-> w, token |-> delivery[p].token + 1,
               attempt |-> delivery[p].cycle + 1, stage |-> "claimed"]

(* Claim: materialize the missing pairs of a locked batch of events, close the
   complete ones, and lease deliveries.  The statement does not see the rows it
   inserts, so only a second pass, run when the first leased nothing, leases
   new rows.  SKIP LOCKED and the limit leave any subset to a pass.  RunBatch
   waits for its attempts before the worker claims again. *)
Claim(w) ==
    /\ \A t \in tasks : t.owner # w
    /\ LET ready == {p \in Pairs : Claimable(p)}
           passes == IF ready = {} THEN 2 ELSE 1
       IN  \E locked \in SUBSET {v \in Events : outbox[v] = "open"} :
           \E new \in SUBSET Missing(locked) :
           \E taken \in SUBSET (IF ready = {} THEN new ELSE ready) :
              /\ Cardinality(locked) <= passes * ClaimLimit
              /\ Cardinality(new) <= passes * ClaimLimit
              /\ Cardinality(taken) <= ClaimLimit
              /\ locked # {} \/ taken # {}
              /\ outbox' = [v \in Events |->
                              IF v \in Completed(locked, new) THEN "closed" ELSE outbox[v]]
              /\ delivery' = [p \in Pairs |->
                    IF p \in taken THEN ClaimedBy(delivery[p], w)
                    ELSE IF p \in new THEN [NoDelivery EXCEPT !.state = "pending"]
                    ELSE delivery[p]]
              /\ tasks' = tasks \cup {Task(p, w) : p \in taken}
    /\ UNCHANGED <<endpoint, owed, dlq, accepted, losses>>

-----------------------------------------------------------------------------
(* One attempt: open the secret, admit the claim, send, complete *)

Owns(t) == LET d == delivery[t.pair]
           IN  d.state = "delivering" /\ d.owner = t.owner /\ d.token = t.token

Admissible(t) == Owns(t) /\ Active(t.pair[1]) /\ ~delivery[t.pair].http /\ delivery[t.pair].live

\* AdmitClaim: the last check before the request, or the claim is lost.
AdmitClaim(t) ==
    /\ t.stage = "claimed"
    /\ \/ /\ Admissible(t)
          /\ delivery' = [delivery EXCEPT ![t.pair].http = TRUE]
          /\ tasks' = (tasks \ {t}) \cup {[t EXCEPT !.stage = "wire"]}
       \/ /\ ~Admissible(t)
          /\ tasks' = tasks \ {t}
          /\ UNCHANGED delivery
    /\ UNCHANGED <<endpoint, outbox, owed, dlq, accepted, losses>>

\* Deliver: a 2xx status, or a redirect, an error status, a transport failure.
Deliver(t) ==
    /\ t.stage = "wire"
    /\ \E answer \in {"ok", "refused"} :
          /\ tasks' = (tasks \ {t}) \cup {[t EXCEPT !.stage = answer]}
          /\ accepted' = IF answer = "ok" THEN accepted \cup {t.pair} ELSE accepted
    /\ UNCHANGED <<endpoint, outbox, owed, delivery, dlq, losses>>

\* renewClaim finds the claim lost, cancels the request and nothing is completed.
RenewalLost(t) ==
    /\ t.stage = "wire"
    /\ ~(Owns(t) /\ delivery[t.pair].live)
    /\ tasks' = tasks \ {t}
    /\ UNCHANGED <<endpoint, outbox, owed, delivery, dlq, accepted, losses>>

\* CompleteAttempt decides the row; the expiry of the claim is not checked.
Outcome(t, success) ==
    CASE ~Active(t.pair[1])        -> "dead"
      [] success                   -> "succeeded"
      [] t.attempt >= MaxAttempts  -> "dead"
      [] OTHER                     -> "pending"

Completes(t) == Owns(t) /\ delivery[t.pair].cycle = t.attempt

CompleteAttempt(t) ==
    /\ t.stage \in {"claimed", "ok", "refused"}    \* claimed: the secret did not open
    /\ tasks' = tasks \ {t}
    /\ \/ /\ Completes(t)
          /\ LET outcome == Outcome(t, t.stage = "ok")
             IN  /\ delivery' = [delivery EXCEPT ![t.pair].state = outcome,
                                                 ![t.pair].owner = NoWorker,
                                                 ![t.pair].live = FALSE]
                 /\ dlq' = IF outcome = "dead"
                           THEN [dlq EXCEPT ![t.pair] = DeadLetter(t.pair)]
                           ELSE dlq
       \/ ~Completes(t) /\ UNCHANGED <<delivery, dlq>>
    /\ UNCHANGED <<endpoint, outbox, owed, accepted, losses>>

(* A repository call of the attempt fails, or the process crashes with its
   attempts: the claim stays until it expires. *)
AttemptsLost(w) ==
    /\ losses < MaxLosses
    /\ \E lost \in SUBSET {t \in tasks : t.owner = w} \ {{}} : tasks' = tasks \ lost
    /\ losses' = losses + 1
    /\ UNCHANGED <<endpoint, outbox, owed, delivery, dlq, accepted>>

(* The 30 seconds of a claim pass: its attempt is gone, or the worker is too
   slow to renew it, which counts as a loss. *)
Held(p) == \E t \in tasks : t.pair = p /\ Owns(t)
ClaimExpires(p) ==
    /\ delivery[p].live
    /\ delivery' = [delivery EXCEPT ![p].live = FALSE]
    /\ \/ ~Held(p) /\ UNCHANGED losses
       \/ Held(p) /\ losses < MaxLosses /\ losses' = losses + 1
    /\ UNCHANGED <<endpoint, outbox, owed, dlq, tasks, accepted>>

-----------------------------------------------------------------------------
WebhookNext ==
    \/ \E e \in Endpoints : CreateEndpoint(e) \/ DeleteEndpoint(e)
    \/ \E p \in Pairs : ReplayDLQ(p) \/ ClaimExpires(p)
    \/ \E v \in Events : RecordEvent(v)
    \/ \E w \in Workers : Claim(w) \/ AttemptsLost(w)
    \/ \E t \in tasks : \/ AdmitClaim(t) \/ Deliver(t)
                        \/ RenewalLost(t) \/ CompleteAttempt(t)

(* The supervisor runs every worker again and again, Deliver and the
   repository calls have timeouts, and claims are taken in the order of
   available_at, so a delivery that is due again and again is claimed. *)
WebhookFairness ==
    /\ \A v \in Events, e \in Endpoints :
          /\ SF_webhookVars(\E w \in Workers : Claim(w) /\ delivery'[<<e, v>>] # delivery[<<e, v>>])
          /\ WF_webhookVars(ClaimExpires(<<e, v>>) /\ ~Held(<<e, v>>))
    /\ WF_webhookVars(\E t \in tasks : AdmitClaim(t))
    /\ WF_webhookVars(\E t \in tasks : Deliver(t))
    /\ WF_webhookVars(\E t \in tasks : CompleteAttempt(t) /\ t.stage # "claimed")

WebhookSpec == WebhookInit /\ [][WebhookNext]_webhookVars /\ WebhookFairness

-----------------------------------------------------------------------------
(* No event is lost on its way to an endpoint that was active when it was
   recorded and still is: its outbox row is open or it has a delivery; and a
   delivery is settled only with evidence, a 2xx answer or a dead letter,
   whatever stale worker, revocation or replay came in between
   (store/postgres/delivery.go, Claim and CompleteAttempt). *)
NoEventLost ==
    /\ \A p \in owed :
          Active(p[1]) => outbox[p[2]] = "open" \/ delivery[p].state # "none"
    /\ \A p \in Pairs : /\ delivery[p].state = "succeeded" => p \in accepted
                        /\ delivery[p].state = "dead" => dlq[p] # "none"

(* Every event reaches a verdict at every endpoint that was there for it:
   delivered, dead after MaxAttempts, or the endpoint is gone. *)
DeliverySettles ==
    \A p \in Pairs :
        p \in owed ~> (delivery[p].state \in {"succeeded", "dead"} \/ ~Active(p[1]))
=============================================================================
