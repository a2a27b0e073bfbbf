------------------------------ MODULE Migrations ------------------------------
(***************************************************************************)
(* The schema migration runner (store/postgres/migration_runner.go), the   *)
(* command `migrate up [--adopt-existing]` that drives it and the schema   *)
(* check of a starting or serving gateway (cmd/sirenaix-gateway/main.go).  *)
(*                                                                         *)
(* A migration is its name and digest; the name starts with the version,   *)
(* so no two of a catalogue are the same.  The text of a migration is the  *)
(* sequence of its top-level statements, of which only transaction control *)
(* matters: the runner's atomicity rests on there being none left.  Every  *)
(* binary carries its own catalogue; two releases may disagree on the      *)
(* latest version or on the contents of one.  The database starts empty or *)
(* with a schema that was applied by hand, complete, partial or edited,    *)
(* and has no ledger.  What a migration leaves in the database is a set of *)
(* objects: a probe asks for some of those of its version.                 *)
(*                                                                         *)
(* External, from how the runner uses it: PostgreSQL runs DDL in the       *)
(* transaction of the ledger row, ends that transaction at a COMMIT inside *)
(* the text, and drops the advisory lock with the session.                 *)
(***************************************************************************)
EXTENDS Integers, Sequences, FiniteSets, Functions

CONSTANTS
    Binaries,     \* binaries in use: each may migrate and each may serve
    Catalog,      \* the migrations of a binary, by version
    Text,         \* the top-level statements of a migration
    Leaves,       \* the tables, columns, constraints and policies it leaves
    Probes,       \* migrationAdoptionProbes: the objects asked for, by version
    Shipped,      \* migrations whose outer BEGIN/COMMIT is known by digest
    Legacy,       \* what may have been applied by hand before
    MaxMigrationFaults     \* bound: failed statements, crashes and lost commits

Digests == DOMAIN Text

NoLedger == <<"no ledger">>

NoOne == "no one"

ASSUME CatalogAssumption ==
    /\ Catalog \in [Binaries -> Seq(Digests)]
    /\ \A b \in Binaries : IsInjective(Catalog[b])
    /\ "no ledger" \notin Digests /\ NoOne \notin Binaries
    /\ \A d \in Digests : Text[d] \in Seq({"ddl", "begin", "commit", "control"})
    /\ DOMAIN Leaves = Digests
    /\ \A b \in Binaries : DOMAIN Catalog[b] \subseteq DOMAIN Probes
    /\ \A v \in DOMAIN Probes : Probes[v] # {}
    /\ Shipped \subseteq Digests
    /\ Legacy \subseteq SUBSET Digests
    /\ MaxMigrationFaults \in Nat

VARIABLES
    schema,       \* migrations whose statements are committed
    byHand,       \* those of them that predate the runner
    ledger,       \* sirenaix_schema_migrations by version, or NoLedger
    lock,         \* holder of the advisory lock, or NoOne
    runner,       \* the migrate command of a binary
    server,      \* the serve command of a binary
    migrationFaults

migrationVars == <<schema, byHand, ledger, lock, runner, server, migrationFaults>>

Stopped == [pc |-> "stopped", adopt |-> FALSE, found |-> FALSE]

MigrationInit ==
    /\ byHand \in Legacy
    /\ schema = byHand
    /\ ledger = NoLedger
    /\ lock = NoOne
    /\ runner = [b \in Binaries |-> Stopped]
    /\ server = [b \in Binaries |-> "down"]
    /\ migrationFaults = 0

-----------------------------------------------------------------------------
(* The catalogue. *)

Controls(text) == {i \in DOMAIN text : text[i] # "ddl"}

HasEnvelope(text) ==
    /\ Controls(text) = {1, Len(text)}
    /\ text[1] = "begin"
    /\ text[Len(text)] = "commit"
    /\ Len(text) > 2

\* Mutant: the shipped envelopes are executed as they are.
PreparedVerbatim(d) == Text[d]

\* What the runner executes of a migration: an envelope it knows is removed.
Prepared(d) ==
    IF d \in Shipped /\ HasEnvelope(Text[d])
    THEN SubSeq(Text[d], 2, Len(Text[d]) - 1)
    ELSE Text[d]

\* The catalogue a binary starts with: no transaction control that the runner
\* would not remove, and versions without a gap (they index the sequence).
ValidCatalog(b) ==
    /\ Catalog[b] # <<>>
    /\ \A d \in Range(Catalog[b]) :
          Controls(Text[d]) = {} \/ (d \in Shipped /\ HasEnvelope(Text[d]))

\* validateMigrationLedger: ahead of the binary, drifted, or usable.
ValidLedger(b, rows) ==
    /\ Len(rows) <= Len(Catalog[b])
    /\ \A i \in DOMAIN rows : rows[i] = Catalog[b][i]

Left(migrations) == UNION {Leaves[d] : d \in migrations}

\* A schema is seen by its tenants table.
SchemaExists == "tenants" \in Left(schema)

\* A probe belongs to the version, not to the contents: any migration that left
\* the objects it looks for will do.
AdoptionProbe(v) == Probes[v] \subseteq Left(schema)

-----------------------------------------------------------------------------
(* migrate up *)

Step(b, pc) == runner' = [runner EXCEPT ![b].pc = pc]

\* Up returns: the deferred unlock runs, an open transaction is rolled back.
Return(b) ==
    /\ runner' = [runner EXCEPT ![b] = Stopped]
    /\ lock' = IF lock = b THEN NoOne ELSE lock

MigrateUp(b, adopt) ==
    /\ runner[b] = Stopped
    /\ ValidCatalog(b)
    /\ runner' = [runner EXCEPT ![b] = [Stopped EXCEPT !.pc = "lock", !.adopt = adopt]]
    /\ UNCHANGED <<schema, byHand, ledger, lock, server, migrationFaults>>

AcquireLock(b) ==
    /\ runner[b].pc = "lock"
    /\ lock = NoOne
    /\ lock' = b
    /\ Step(b, "presence")
    /\ UNCHANGED <<schema, byHand, ledger, server, migrationFaults>>

LockTimesOut(b) ==
    /\ runner[b].pc = "lock"
    /\ lock # NoOne
    /\ Return(b)
    /\ UNCHANGED <<schema, byHand, ledger, server, migrationFaults>>

InspectPresence(b) ==
    /\ runner[b].pc = "presence"
    /\ runner' = [runner EXCEPT
          ![b].pc = IF ledger = NoLedger THEN "ensure" ELSE "read",
          ![b].found = SchemaExists]
    /\ UNCHANGED <<schema, byHand, ledger, lock, server, migrationFaults>>

\* The ledger is committed before the schema without one is refused below.
EnsureMigrationLedger(b) ==
    /\ runner[b].pc = "ensure"
    /\ ledger' = IF ledger = NoLedger THEN <<>> ELSE ledger
    /\ Step(b, "read")
    /\ UNCHANGED <<schema, byHand, lock, server, migrationFaults>>

ReadMigrationLedger(b) ==
    /\ runner[b].pc = "read"
    /\ \/ /\ ~ValidLedger(b, ledger)
          /\ Return(b)
       \/ /\ ValidLedger(b, ledger)
          /\ runner[b].found /\ ledger = <<>>
          /\ IF runner[b].adopt THEN Step(b, "adopt") /\ UNCHANGED lock ELSE Return(b)
       \/ /\ ValidLedger(b, ledger)
          /\ ~(runner[b].found /\ ledger = <<>>)
          /\ IF Len(ledger) = Len(Catalog[b])
             THEN Return(b)
             ELSE Step(b, "apply") /\ UNCHANGED lock
    /\ UNCHANGED <<schema, byHand, ledger, server, migrationFaults>>

Adoptable(b) == \A v \in DOMAIN Catalog[b] : AdoptionProbe(v)

\* One serializable transaction: every marker is there and every row is new.
AdoptExisting(b) ==
    /\ runner[b].pc = "adopt"
    /\ ledger' = IF Adoptable(b) /\ ledger = <<>> THEN Catalog[b] ELSE ledger
    /\ Return(b)
    /\ UNCHANGED <<schema, byHand, server, migrationFaults>>

NextMigration(b) == Catalog[b][Len(ledger) + 1]

\* The statements run in the runner's transaction; a COMMIT among them ends
\* it.  They fail, or have nothing to do, where their objects exist already.
ExecMigration(b) ==
    /\ runner[b].pc = "apply"
    /\ LET d == NextMigration(b)
       IN  \/ /\ Leaves[d] \cap Left(schema) # {}
              /\ Return(b)
              /\ UNCHANGED schema
           \/ /\ schema' = IF "commit" \in Range(Prepared(d)) THEN schema \cup {d} ELSE schema
              /\ Step(b, "record")
              /\ UNCHANGED lock
    /\ UNCHANGED <<byHand, ledger, server, migrationFaults>>

\* The ledger row and the statements become visible together.
RecordMigration(b) ==
    /\ runner[b].pc = "record"
    /\ schema' = schema \cup {NextMigration(b)}
    /\ ledger' = Append(ledger, NextMigration(b))
    /\ IF Len(ledger') = Len(Catalog[b])
       THEN Return(b)
       ELSE Step(b, "apply") /\ UNCHANGED lock
    /\ UNCHANGED <<byHand, server, migrationFaults>>

\* A statement fails, the process dies, or the session is lost: the open
\* transaction is gone and so is the lock.
RunnerFails(b) ==
    /\ runner[b].pc # "stopped"
    /\ migrationFaults < MaxMigrationFaults
    /\ migrationFaults' = migrationFaults + 1
    /\ Return(b)
    /\ UNCHANGED <<schema, byHand, ledger, server>>

\* The commit reached the database and its answer did not come back.
CommitAnswerLost(b) ==
    /\ runner[b].pc = "record"
    /\ migrationFaults < MaxMigrationFaults
    /\ migrationFaults' = migrationFaults + 1
    /\ schema' = schema \cup {NextMigration(b)}
    /\ ledger' = Append(ledger, NextMigration(b))
    /\ Return(b)
    /\ UNCHANGED <<byHand, server>>

-----------------------------------------------------------------------------
(* serve: Status reads presence and ledger without the lock. *)

SchemaIsCurrent(b) == ledger # NoLedger /\ ledger = Catalog[b]

StartGateway(b) ==
    /\ server[b] = "down"
    /\ ValidCatalog(b)
    /\ ledger # NoLedger
    /\ server' = [server EXCEPT ![b] = "checking"]
    /\ UNCHANGED <<schema, byHand, ledger, lock, runner, migrationFaults>>

CheckCurrent(b) ==
    /\ server[b] = "checking"
    /\ server' = [server EXCEPT ![b] = IF SchemaIsCurrent(b) THEN "ready" ELSE "down"]
    /\ UNCHANGED <<schema, byHand, ledger, lock, runner, migrationFaults>>

\* The readiness probe checks the schema again on every request.
Readiness(b) ==
    /\ server[b] \in {"ready", "unready"}
    /\ server' = [server EXCEPT ![b] = IF SchemaIsCurrent(b) THEN "ready" ELSE "unready"]
    /\ UNCHANGED <<schema, byHand, ledger, lock, runner, migrationFaults>>

ServerStops(b) ==
    /\ server[b] # "down"
    /\ server' = [server EXCEPT ![b] = "down"]
    /\ UNCHANGED <<schema, byHand, ledger, lock, runner, migrationFaults>>

-----------------------------------------------------------------------------
MigrationNext ==
    \E b \in Binaries :
        \/ \E adopt \in BOOLEAN : MigrateUp(b, adopt)
        \/ AcquireLock(b) \/ LockTimesOut(b)
        \/ InspectPresence(b) \/ EnsureMigrationLedger(b) \/ ReadMigrationLedger(b)
        \/ AdoptExisting(b) \/ ExecMigration(b) \/ RecordMigration(b)
        \/ RunnerFails(b) \/ CommitAnswerLost(b)
        \/ StartGateway(b) \/ CheckCurrent(b) \/ Readiness(b) \/ ServerStops(b)

MigrationSpec == MigrationInit /\ [][MigrationNext]_migrationVars

\* The markers of a version were there before the runner.
MarkedByHand(v) == Probes[v] \subseteq Left(byHand)

\* The ledger tells what it can of the schema (applyOne, adoptExisting):
\* whatever runners of different releases interleave, fail or lose an answer,
\* nothing is in the schema but what is recorded and what was applied by hand,
\* no version is recorded twice, and a recorded migration is in the schema, or it
\* was adopted and the schema made by hand has the markers of its version (and
\* may hold a variant of it: adoption takes the operator's word).  A gateway
\* that serves has every migration of its own catalogue in that sense; on a
\* database that was empty it has them exactly.
LedgerTellsSchema ==
    /\ ledger # NoLedger =>
          /\ byHand \subseteq schema
          /\ schema \ byHand \subseteq Range(ledger)
          /\ \A v \in DOMAIN ledger : ledger[v] \in schema \/ MarkedByHand(v)
          /\ IsInjective(ledger)
    /\ \A b \in Binaries : server[b] \in {"ready", "unready"} =>
          \A v \in DOMAIN Catalog[b] : Catalog[b][v] \in schema \/ MarkedByHand(v)

=============================================================================
