----------------------------- MODULE MCPlatform ------------------------------
(***************************************************************************)
(* The components around the messages, checked in one run: a behaviour     *)
(* picks one of them at the start and takes its steps only, the others     *)
(* rest in their initial states.                                           *)
(***************************************************************************)
EXTENDS StatusHistory, TenantControl, WebhookDelivery, WebhookRegistry, KafkaBridge, Pairing,
        Supervisor, Migrations

CONSTANTS g1, g2, Components

VARIABLE component

PlatformInit ==
    /\ component \in Components
    /\ HistoryInit /\ TenantInit /\ WebhookInit /\ RegistryInit /\ KafkaInit /\ PairingInit
    /\ SupervisorInit /\ MigrationInit
    /\ component = "migrations" \/ byHand = {}

PlatformNext ==
    /\ UNCHANGED component
    /\ \/ /\ component = "status" /\ HistoryNext
          /\ UNCHANGED <<tenantVars, webhookVars, registryVars, kafkaVars, pairingVars,
                         supervisorVars, migrationVars>>
       \/ /\ component = "tenant" /\ TenantNext
          /\ UNCHANGED <<history, webhookVars, registryVars, kafkaVars, pairingVars,
                         supervisorVars, migrationVars>>
       \/ /\ component = "webhook" /\ WebhookNext
          /\ UNCHANGED <<history, tenantVars, registryVars, kafkaVars, pairingVars,
                         supervisorVars, migrationVars>>
       \/ /\ component = "registry" /\ RegistryNext
          /\ UNCHANGED <<history, tenantVars, webhookVars, kafkaVars, pairingVars,
                         supervisorVars, migrationVars>>
       \/ /\ component = "kafka" /\ KafkaNext
          /\ UNCHANGED <<history, tenantVars, webhookVars, registryVars, pairingVars,
                         supervisorVars, migrationVars>>
       \/ /\ component = "pairing" /\ PairingNext
          /\ UNCHANGED <<history, tenantVars, webhookVars, registryVars, kafkaVars,
                         supervisorVars, migrationVars>>
       \/ /\ component = "supervisor" /\ SupervisorNext
          /\ UNCHANGED <<history, tenantVars, webhookVars, registryVars, kafkaVars,
                         pairingVars, migrationVars>>
       \/ /\ component = "migrations" /\ MigrationNext
          /\ UNCHANGED <<history, tenantVars, webhookVars, registryVars, kafkaVars,
                         pairingVars, supervisorVars>>

PlatformSpec ==
    /\ PlatformInit
    /\ [][PlatformNext]_<<component, history, tenantVars, webhookVars, registryVars, kafkaVars,
                          pairingVars, supervisorVars, migrationVars>>

\* g1 and g2 are the gateway processes (webhook workers, consumers, pairing services),
\* two calls of the endpoint API and two connections of a tenant.
PlatformSymmetry == Permutations({g1, g2})

-----------------------------------------------------------------------------
(* An unauthenticated record in front of a valid one; another body under a
   known key, in a record whose signature may lapse; a command that does not
   decode; and one the store will not take. *)
Cmd(t, v, k, b) == [trusted |-> t, signed |-> FALSE, valid |-> v, fails |-> "never",
                    key |-> k, body |-> b]
MCLog == [p1 |-> <<Cmd(TRUE, TRUE, "k1", "a"), Cmd(FALSE, TRUE, "k2", "a"),
                   Cmd(TRUE, TRUE, "k3", "a")>>,
          p2 |-> <<[Cmd(TRUE, TRUE, "k1", "b") EXCEPT !.signed = TRUE],
                   Cmd(TRUE, FALSE, "k2", "a"),
                   [Cmd(TRUE, TRUE, "k4", "a") EXCEPT !.fails = "submit"]>>]

(* An old binary, a newer one and one whose second migration was rewritten;
   the second migration carries its own BEGIN and COMMIT.  h1 is the first one,
   cut short by hand. *)
MCCatalog == [r1 |-> <<"d1", "d2">>, r2 |-> <<"d1", "d2", "d3">>, r3 |-> <<"d1", "x2">>]
MCText == [d1 |-> <<"ddl">>, d2 |-> <<"begin", "ddl", "commit">>, d3 |-> <<"ddl">>,
           x2 |-> <<"ddl", "ddl">>, h1 |-> <<"ddl">>]
MCLeaves == [d1 |-> {"tenants", "lines"}, d2 |-> {"provider"}, d3 |-> {"revision"},
             x2 |-> {"provider", "index"}, h1 |-> {"tenants"}]
MCProbes == <<{"tenants", "lines"}, {"provider"}, {"revision"}>>
MCLegacy == {{}, {"d1"}, {"d1", "d2"}, {"d1", "d2", "d3"}, {"d1", "x2"}, {"h1", "d2"}}
=============================================================================
