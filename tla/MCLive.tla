------------------------------- MODULE MCLive --------------------------------
(***************************************************************************)
(* What must eventually happen, checked in one run: a behaviour picks one  *)
(* component at the start and takes its steps only, under the fairness its *)
(* module states; the others rest in their initial states and are owed     *)
(* nothing.                                                                *)
(***************************************************************************)
EXTENDS Ingress, WebhookDelivery, KafkaBridge, Pairing

CONSTANTS r1, r2, m1, a1, a2, Components

VARIABLE component

LiveInit ==
    component \in Components /\ IngressInit /\ WebhookInit /\ KafkaInit /\ PairingInit

LiveNext ==
    /\ UNCHANGED component
    /\ \/ component = "ingress" /\ IngressNext /\ UNCHANGED <<webhookVars, kafkaVars, pairingVars>>
       \/ component = "webhook" /\ WebhookNext /\ UNCHANGED <<ingressVars, kafkaVars, pairingVars>>
       \/ component = "kafka" /\ KafkaNext /\ UNCHANGED <<ingressVars, webhookVars, pairingVars>>
       \/ component = "pairing" /\ PairingNext /\ UNCHANGED <<ingressVars, webhookVars, kafkaVars>>

LiveVars == <<component, ingressVars, webhookVars, kafkaVars, pairingVars>>

(* The fairness of the modules.  A component that rests has no fair step in its
   initial state, but for the loops of the Kafka bridge, which are owed steps
   only in the behaviours that run it. *)
LiveSpec ==
    /\ LiveInit /\ [][LiveNext]_LiveVars
    /\ IngressFairness /\ WebhookFairness /\ PairingFairness
    /\ \A v \in KafkaEvents : WF_kafkaVars(component = "kafka" /\ ClaimElapses(v))
    /\ \A o \in Processes : /\ WF_kafkaVars(component = "kafka" /\ OutboxStep(o))
                            /\ WF_kafkaVars(component = "kafka" /\ ConsumerStep(o))
    /\ \A p \in Partitions : WF_kafkaVars(component = "kafka" /\ Adopt(p))

\* CommandSettles of KafkaBridge, in the behaviours in which the bridge runs:
\* the consumer commits every command before a barrier, and the outbox worker
\* publishes every event, unless a command fails for good.
CommandsSettle == component = "kafka" ~> Settled

-----------------------------------------------------------------------------
\* An envelope whose projection breaks a limit, and two of one message.
Env(r, k, m, s, a) == [rid |-> r, kind |-> k, msg |-> m, state |-> s, media |-> a,
                       complete |-> k = "message"]
MCEnvelopes == {Env(r1, "message", m1, "delivered", a1),
                Env(r2, "message", m1, "delivered", a2),
                Env(r2, "oversized", m1, "", None)}

\* The records of MCPlatform, but for the signature: the one whose submission
\* fails may lapse, and then everything before it and beside it has to settle.
Cmd(t, v, k, b) == [trusted |-> t, signed |-> FALSE, valid |-> v, fails |-> "never",
                    key |-> k, body |-> b]
MCLog == [p1 |-> <<Cmd(TRUE, TRUE, "k1", "a"), Cmd(FALSE, TRUE, "k2", "a"),
                   Cmd(TRUE, TRUE, "k3", "a")>>,
          p2 |-> <<Cmd(TRUE, TRUE, "k1", "b"), Cmd(TRUE, FALSE, "k2", "a"),
                   [Cmd(TRUE, TRUE, "k4", "a") EXCEPT !.fails = "submit", !.signed = TRUE]>>]
=============================================================================
