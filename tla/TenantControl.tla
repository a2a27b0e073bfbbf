---------------------------- MODULE TenantControl ----------------------------
(***************************************************************************)
(* Tenant administration (store/postgres/tenant_admin.go, the tenant       *)
(* command) against the operations of the tenant's connections: creation   *)
(* under the quota, pairing, the actor generations of a gateway, their     *)
(* reauthorization and the quarantine of a poisoned backfill.              *)
(*                                                                         *)
(* A single-statement transaction is one action.  Suspend is several       *)
(* statements at READ COMMITTED, so it is two: the statements, which lock  *)
(* the tenant, every connection and the lease rows that have an owner at   *)
(* that moment, and the commit, which makes them visible.  admin.open says *)
(* that its locks are held, admin.fenced which lease rows are among them.  *)
(*                                                                         *)
(* before is a history variable: the states Suspend found.                 *)
(***************************************************************************)
EXTENDS Naturals, FiniteSets

CONSTANTS TenantConnections,  \* connection ids the API may create
          Quotas,       \* max_connections values an operator may set
          MaxFences     \* bound on fencing_token

ASSUME TenantAssumption == Quotas \subseteq Nat \ {0} /\ MaxFences \in Nat

VARIABLES tenant,   \* the tenants row
          connection,     \* the connections rows
          leases,   \* the connection_leases rows; token 0 is a missing row
          admin,    \* the open Suspend transaction
          before,   \* history: the states Suspend found
          actor,    \* the generation the gateway runs per connection
          poisoned  \* connections whose backfill is about to be quarantined

tenantVars == <<tenant, connection, leases, admin, before, actor, poisoned>>

NoState == "none"

Absent == [state |-> "absent", prior |-> NoState, from |-> NoState]

Stored == {c \in TenantConnections : connection[c].state # "absent"}

TenantInit ==
    /\ tenant = [status |-> NoState, quota |-> 0]
    /\ connection = [c \in TenantConnections |-> Absent]
    /\ leases = [c \in TenantConnections |-> [owned |-> FALSE, live |-> FALSE, token |-> 0]]
    /\ admin = [open |-> FALSE, fenced |-> {}]
    /\ before = [c \in TenantConnections |-> NoState]
    /\ actor = [c \in TenantConnections |-> [pc |-> "off", token |-> 0]]
    /\ poisoned = {}

MovedTo(c, state) == [connection EXCEPT ![c].state = state]

Fenced(row) == [owned |-> FALSE, live |-> FALSE, token |-> row.token + 1]

OwnsConnection(c) ==
    /\ actor[c].token # 0
    /\ leases[c].owned /\ leases[c].live
    /\ leases[c].token = actor[c].token

-----------------------------------------------------------------------------
(* The operator. *)

(* Provision creates the tenant or changes its name and quota, below the
   number of its connections too. *)
Provision(quota) ==
    /\ ~admin.open
    /\ tenant' = [status |-> IF tenant.status = NoState THEN "active" ELSE tenant.status,
                  quota |-> quota]
    /\ UNCHANGED <<connection, leases, admin, before, actor, poisoned>>

(* Suspend is refused while a connection is being paired. *)
Suspendable ==
    /\ tenant.status = "active"
    /\ \A c \in TenantConnections : connection[c].state # "pairing"

(* The statements of Suspend: every connection row is locked, and of the
   leases those WHERE owner_id IS NOT NULL. *)
SuspendStatements ==
    /\ ~admin.open
    /\ Suspendable
    /\ admin' = [open |-> TRUE,
                 fenced |-> {c \in TenantConnections : leases[c].owned}]
    /\ \A c \in admin'.fenced : leases[c].token < MaxFences
    /\ UNCHANGED <<tenant, connection, leases, before, actor, poisoned>>

(* The states the UPDATE of connections covers: all but pairing. *)
SuspendableState(state) ==
    state \in {"unpaired", "connected", "reauthorization-required", "suspended"}

SuspendCommits ==
    /\ admin.open
    /\ before' = [c \in TenantConnections |-> connection[c].state]
    /\ connection' = [c \in TenantConnections |->
                  IF SuspendableState(connection[c].state) /\ connection[c].prior = NoState
                  THEN [connection[c] EXCEPT !.state = "suspended", !.prior = connection[c].state]
                  ELSE connection[c]]
    /\ leases' = [c \in TenantConnections |->
                    IF c \in admin.fenced THEN Fenced(leases[c]) ELSE leases[c]]
    /\ tenant' = [tenant EXCEPT !.status = "suspended"]
    /\ admin' = [open |-> FALSE, fenced |-> {}]
    /\ UNCHANGED <<actor, poisoned>>

(* A statement or the audit row fails: the transaction is rolled back. *)
SuspendFails ==
    /\ admin.open
    /\ admin' = [open |-> FALSE, fenced |-> {}]
    /\ UNCHANGED <<tenant, connection, leases, before, actor, poisoned>>

ResumeTenant ==
    /\ ~admin.open
    /\ tenant.status = "suspended"
    /\ connection' = [c \in TenantConnections |->
                  IF connection[c].state = "suspended" /\ connection[c].prior # NoState
                  THEN [connection[c] EXCEPT !.state = connection[c].prior, !.prior = NoState]
                  ELSE connection[c]]
    /\ tenant' = [tenant EXCEPT !.status = "active"]
    /\ UNCHANGED <<leases, admin, before, actor, poisoned>>

-----------------------------------------------------------------------------
(* The customer API. *)

(* createConnection and SaveConnection, under the tenant row's lock. *)
SaveConnection(c) ==
    /\ ~admin.open
    /\ tenant.status = "active"
    /\ c \notin Stored
    /\ Cardinality(Stored) < tenant.quota
    /\ connection' = MovedTo(c, "unpaired")
    /\ UNCHANGED <<tenant, leases, admin, before, actor, poisoned>>

(* BeginPairing takes the active tenant's row FOR SHARE first. *)
BeginPairingOf(c) ==
    /\ ~admin.open
    /\ tenant.status = "active"
    /\ connection[c].state \in {"unpaired", "reauthorization-required"}
    /\ connection' = [connection EXCEPT ![c].state = "pairing", ![c].from = connection[c].state]
    /\ UNCHANGED <<tenant, leases, admin, before, actor, poisoned>>

RestorePairingOf(c) ==
    /\ connection[c].state = "pairing"
    /\ connection' = [connection EXCEPT ![c].state = connection[c].from, ![c].from = NoState]
    /\ UNCHANGED <<tenant, leases, admin, before, actor, poisoned>>

CommitPairedSessionOf(c) ==
    /\ connection[c].state = "pairing"
    /\ connection' = [connection EXCEPT ![c].state = "connected", ![c].from = NoState]
    /\ UNCHANGED <<tenant, leases, admin, before, actor, poisoned>>

-----------------------------------------------------------------------------
(* The gateway. *)

(* discoverActors lists the connection as connected and starts an actor. *)
StartActor(c) ==
    /\ actor[c].pc = "off"
    /\ connection[c].state = "connected"
    /\ actor' = [actor EXCEPT ![c].pc = "starting"]
    /\ UNCHANGED <<tenant, connection, leases, admin, before, poisoned>>

(* AcquireConnectionLease reads neither the tenant nor the connection.  It
   waits for the open Suspend only where that locked the lease row, or where
   the row is missing and its insertion needs the tenant's key. *)
AcquireLeaseOf(c) ==
    /\ actor[c].pc = "starting"
    /\ admin.open => c \notin admin.fenced /\ leases[c].token # 0
    /\ LET kept == leases[c].owned /\ leases[c].live
           token == leases[c].token + (IF kept THEN 0 ELSE 1)
       IN /\ token <= MaxFences
          /\ leases' = [leases EXCEPT ![c] = [owned |-> TRUE, live |-> TRUE, token |-> token]]
          /\ actor' = [actor EXCEPT ![c] = [pc |-> "leased", token |-> token]]
    /\ UNCHANGED <<tenant, connection, admin, before, poisoned>>

(* The deferred release; it changes nothing when the lease was lost. *)
ReleasedBy(c) ==
    IF OwnsConnection(c)
    THEN [leases EXCEPT ![c].owned = FALSE, ![c].live = FALSE]
    ELSE leases

(* Run ends for any reason; its release waits for a Suspend that locked the
   row. *)
ActorStops(c) ==
    /\ actor[c].pc # "off"
    /\ ~(admin.open /\ c \in admin.fenced)
    /\ leases' = ReleasedBy(c)
    /\ actor' = [actor EXCEPT ![c] = [pc |-> "off", token |-> 0]]
    /\ UNCHANGED <<tenant, connection, admin, before, poisoned>>

(* GetConnection is a plain read: it sees the last committed state. *)
ReadConnectionOf(c) ==
    /\ actor[c].pc = "leased"
    /\ connection[c].state = "connected"
    /\ actor' = [actor EXCEPT ![c].pc = "announcing"]
    /\ UNCHANGED <<tenant, connection, leases, admin, before, poisoned>>

(* The first fenced health write locks the connection row, then the lease;
   it does not look at the connection's state.  The provider is connected. *)
LinkActor(c) ==
    /\ actor[c].pc = "announcing"
    /\ ~admin.open
    /\ OwnsConnection(c)
    /\ actor' = [actor EXCEPT ![c].pc = "linked"]
    /\ UNCHANGED <<tenant, connection, leases, admin, before, poisoned>>

LapseOf(c) ==
    /\ leases[c].live
    /\ leases' = [leases EXCEPT ![c].live = FALSE]
    /\ UNCHANGED <<tenant, connection, admin, before, actor, poisoned>>

(* Mutant: a connection the operator suspended may be marked. *)
MarkableWhileSuspended(c) ==
    connection[c].state \in {"connected", "suspended", "reauthorization-required"}

(* The states MarkReauthorizationRequiredFenced accepts, and the check
   constraint connections_tenant_suspension_state, under which the UPDATE of
   a connection the operator suspended fails. *)
Markable(c) ==
    /\ connection[c].state \in {"connected", "suspended", "reauthorization-required"}
    /\ connection[c].prior = NoState

(* The provider refuses the authorization; the generation ends. *)
MarkReauthorizationOf(c) ==
    /\ actor[c].pc = "linked"
    /\ ~admin.open
    /\ connection' = IF OwnsConnection(c) /\ Markable(c)
               THEN MovedTo(c, "reauthorization-required")
               ELSE connection
    /\ leases' = ReleasedBy(c)
    /\ actor' = [actor EXCEPT ![c] = [pc |-> "off", token |-> 0]]
    /\ UNCHANGED <<tenant, admin, before, poisoned>>

(* The backfill of a linked connection meets a poisoned page. *)
BackfillPoisoned(c) ==
    /\ actor[c].pc = "linked"
    /\ c \notin poisoned
    /\ poisoned' = poisoned \cup {c}
    /\ UNCHANGED <<tenant, connection, leases, admin, before, actor>>

(* QuarantineBackfillConnection: one statement under the connection's lock. *)
QuarantineConnection(c) ==
    /\ c \in poisoned
    /\ ~admin.open
    /\ poisoned' = poisoned \ {c}
    /\ IF connection[c].state \in {"connected", "suspended"}
       THEN /\ leases[c].token < MaxFences
            /\ leases' = [leases EXCEPT ![c] = Fenced(@)]
            /\ connection' = MovedTo(c, "suspended")
       ELSE UNCHANGED <<connection, leases>>
    /\ UNCHANGED <<tenant, admin, before, actor>>

TenantNext ==
    \/ \E quota \in Quotas : Provision(quota)
    \/ SuspendStatements \/ SuspendCommits \/ SuspendFails \/ ResumeTenant
    \/ \E c \in TenantConnections :
          \/ SaveConnection(c) \/ BeginPairingOf(c) \/ RestorePairingOf(c)
          \/ CommitPairedSessionOf(c)
          \/ StartActor(c) \/ AcquireLeaseOf(c) \/ ActorStops(c)
          \/ ReadConnectionOf(c) \/ LinkActor(c) \/ LapseOf(c)
          \/ MarkReauthorizationOf(c) \/ BackfillPoisoned(c) \/ QuarantineConnection(c)

TenantSpec == TenantInit /\ [][TenantNext]_tenantVars

-----------------------------------------------------------------------------
(* While a tenant is suspended every one of its connections is suspended and
   keeps the state it had, whatever its actors, pairings and backfills do in
   the meantime; in an active tenant nothing of a suspension is left.  This is
   what makes resume the inverse of suspend. *)
SuspensionKeepsState ==
    /\ tenant.status = "suspended" =>
         \A c \in Stored : connection[c].state = "suspended" /\ connection[c].prior = before[c]
    /\ tenant.status = "active" => \A c \in Stored : connection[c].prior = NoState

(* "Suspension ... fences live connection leases": no generation that owns its
   lease has the provider of a suspended tenant's connection connected. *)
SuspendedTenantIsDark ==
    tenant.status = "suspended" =>
        \A c \in TenantConnections : ~(actor[c].pc = "linked" /\ OwnsConnection(c))
=============================================================================
