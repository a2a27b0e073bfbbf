------------------------------ MODULE Supervisor ------------------------------
(***************************************************************************)
(* The worker supervisor of one gateway process (app/supervisor.go), the   *)
(* servers it runs beside (Gateway.Run in app/gateway.go) and the process  *)
(* that ends when they do (runGatewayAndOperations in main.go).            *)
(*                                                                         *)
(* Every worker is a loop that polls; a loop that fails too often in a row *)
(* reports on a channel of one place and ends.  The pool of actors is seen *)
(* through what Start, Ready, Quarantine and Shutdown return: its entry is *)
(* "none", "running", or what the last actor left behind ("stale",         *)
(* "shared", "quarantined").  One tenant; connections are listed in order. *)
(* The actors themselves are the module ConnectionActor.                   *)
(***************************************************************************)
EXTENDS Integers, Sequences, FiniteSets

CONSTANTS
    ConnectionCount,      \* the tenant's connections, numbered in the order of their ids
    ConnectionLimit,      \* connections of one page of a pass
    FatalErrorThreshold,
    MaxErrors             \* bound: failures of the environment

Connections == 1..ConnectionCount

\* The loops in the order Run launches them.
LaunchOrder == <<"discover", "dispatch", "batch", "backfill">>

Loops == {LaunchOrder[i] : i \in DOMAIN LaunchOrder}

ASSUME SupervisorAssumption ==
    /\ ConnectionCount \in Nat
    /\ ConnectionLimit \in Nat \ {0}
    /\ FatalErrorThreshold \in Nat \ {0}
    /\ MaxErrors \in Nat

VARIABLES
    loop,                 \* where a loop is, its failures in a row, its pass
    entry,                \* the pool's entry of a connection
    closed,               \* the pool is shut down
    inService,            \* connections in state connected or degraded
    actorFailures, backfillFailures, backfillQuarantined,
    fatal,                \* an error waits in the channel
    supervisor,           \* where Supervisor.Run is
    servers,              \* servers of Gateway.Run and of the process that run
    gateway,              \* where Gateway.Run is
    process,              \* where runGatewayAndOperations is
    errors

supervisorVars ==
    <<loop, entry, closed, inService, actorFailures, backfillFailures,
      backfillQuarantined, fatal, supervisor, servers, gateway, process, errors>>

NewLoop == [pc |-> "unborn", failures |-> 0, page |-> <<>>, cursor |-> 0, failed |-> FALSE]

SupervisorInit ==
    /\ loop = [l \in Loops |-> NewLoop]
    /\ entry = [c \in Connections |-> "none"]
    /\ closed = FALSE
    /\ inService = Connections
    /\ actorFailures = [c \in Connections |-> 0]
    /\ backfillFailures = [c \in Connections |-> 0]
    /\ backfillQuarantined = {}
    /\ fatal = FALSE
    /\ supervisor = "launching"
    /\ servers = {"http", "commands", "ops"}
    /\ gateway = "running"
    /\ process = "running"
    /\ errors = 0

\* The context of the workers: cancelled by Run once it stops waiting.
Polling == supervisor \in {"launching", "waiting"}

Least(a, b) == IF a < b THEN a ELSE b

Environment == errors < MaxErrors /\ errors' = errors + 1

-----------------------------------------------------------------------------
(* Loops. *)

LaunchLoop(l) ==
    /\ supervisor = "launching"
    /\ loop[l].pc = "unborn"
    /\ \A i, j \in DOMAIN LaunchOrder :
          i < j /\ LaunchOrder[j] = l => loop[LaunchOrder[i]].pc # "unborn"
    /\ loop' = [loop EXCEPT ![l].pc = "work"]
    /\ UNCHANGED <<entry, closed, inService, actorFailures, backfillFailures,
                   backfillQuarantined, fatal, supervisor, servers, gateway, process, errors>>

Launched ==
    /\ supervisor = "launching"
    /\ \A l \in Loops : loop[l].pc # "unborn"
    /\ supervisor' = "waiting"
    /\ UNCHANGED <<loop, entry, closed, inService, actorFailures, backfillFailures,
                   backfillQuarantined, fatal, servers, gateway, process, errors>>

\* Mutant: the channel has no place, a report nobody waits for is dropped.
ReportUnbuffered == fatal' = (fatal \/ supervisor = "waiting")

\* The report is dropped only when another one waits.
Report == fatal' = TRUE

\* The work of a loop returned, and the loop decides (runLoop).
WorkReturns(l, failed, next) ==
    LET count  == IF failed /\ Polling THEN loop[l].failures + 1 ELSE 0
        ending == count >= FatalErrorThreshold
    IN  /\ loop' = [loop EXCEPT ![l] = [next EXCEPT
              !.pc = IF ending \/ ~Polling THEN "ended" ELSE "tick",
              !.failures = count, !.failed = FALSE, !.page = <<>>]]
        /\ IF ending THEN Report ELSE UNCHANGED fatal

Tick(l) ==
    /\ loop[l].pc = "tick"
    /\ loop' = [loop EXCEPT ![l].pc = IF Polling THEN "work" ELSE "ended"]
    /\ UNCHANGED <<entry, closed, inService, actorFailures, backfillFailures,
                   backfillQuarantined, fatal, supervisor, servers, gateway, process, errors>>

\* A batch worker (media, webhooks, Kafka outbox) succeeds or fails.
RunBatch(failed) ==
    /\ loop["batch"].pc = "work"
    /\ IF failed THEN Environment ELSE UNCHANGED errors
    /\ WorkReturns("batch", failed, loop["batch"])
    /\ UNCHANGED <<entry, closed, inService, actorFailures, backfillFailures,
                   backfillQuarantined, supervisor, servers, gateway, process>>

\* ListConnectionsPage after a cursor: the page, and the cursor of the next.
PageListed(l) ==
    LET from == loop[l].cursor
        to   == Least(from + ConnectionLimit, ConnectionCount)
    IN  [page |-> [i \in 1..(to - from) |-> from + i],
         next |-> IF to < ConnectionCount THEN to ELSE 0]

\* A pass of discoverActors or runBackfill reads its page; the cursor moves
\* before anything on the page is tried.
ListConnections(l, failed) ==
    /\ l \in {"discover", "backfill"}
    /\ loop[l].pc = "work"
    /\ IF failed \/ ~Polling
       THEN /\ (failed => Environment) /\ (~failed => UNCHANGED errors)
            /\ WorkReturns(l, TRUE, loop[l])
       ELSE /\ loop' = [loop EXCEPT ![l].pc = "pass", ![l].page = PageListed(l).page,
                                    ![l].cursor = PageListed(l).next]
            /\ UNCHANGED <<fatal, errors>>
    /\ UNCHANGED <<entry, closed, inService, actorFailures, backfillFailures,
                   backfillQuarantined, supervisor, servers, gateway, process>>

PassEnds(l) ==
    /\ loop[l].pc = "pass"
    /\ loop[l].page = <<>>
    /\ WorkReturns(l, loop[l].failed, loop[l])
    /\ UNCHANGED <<entry, closed, inService, actorFailures, backfillFailures,
                   backfillQuarantined, supervisor, servers, gateway, process, errors>>

\* What Pool.Start returns for a connection.
StartResult(c) ==
    CASE ~Polling -> "cancelled"
      [] Polling /\ closed -> "local"
      [] Polling /\ ~closed /\ entry[c] \in {"none", "running"} -> "ok"
      [] Polling /\ ~closed /\ entry[c] = "shared" -> "shared"
      [] Polling /\ ~closed /\ entry[c] = "stale" -> "stale"
      [] Polling /\ ~closed /\ entry[c] = "quarantined" -> "local"

Started(c) == IF StartResult(c) = "ok" THEN [entry EXCEPT ![c] = "running"] ELSE entry

InFocus(l) == Head(loop[l].page)

\* Failures of the shared infrastructure in a row, per connection.
Counted(c) ==
    CASE StartResult(c) = "shared" -> Least(actorFailures[c] + 1, FatalErrorThreshold)
      [] StartResult(c) \in {"ok", "cancelled"} -> 0
      [] StartResult(c) \in {"local", "stale"} -> actorFailures[c]

DiscoverActor ==
    /\ loop["discover"].pc = "pass"
    /\ loop["discover"].page # <<>>
    /\ loop' = [loop EXCEPT !["discover"].page = Tail(@)]
    /\ LET c == InFocus("discover")
       IN  IF c \in inService
           THEN /\ entry' = Started(c)
                /\ actorFailures' = [actorFailures EXCEPT ![c] = Counted(c)]
                /\ IF Counted(c) >= FatalErrorThreshold THEN Report ELSE UNCHANGED fatal
           ELSE UNCHANGED <<entry, actorFailures, fatal>>
    /\ UNCHANGED <<closed, inService, backfillFailures, backfillQuarantined, supervisor,
                   servers, gateway, process, errors>>

\* The lanes of a pass are dispatched by several workers; their errors join.
Dispatch(lanes, failed) ==
    /\ loop["dispatch"].pc = "work"
    /\ IF failed THEN Environment ELSE UNCHANGED errors
    /\ entry' = [c \in Connections |-> IF c \in lanes THEN Started(c)[c] ELSE entry[c]]
    /\ WorkReturns("dispatch", failed \/ \E c \in lanes : StartResult(c) = "shared",
                   loop["dispatch"])
    /\ UNCHANGED <<closed, inService, actorFailures, backfillFailures, backfillQuarantined,
                   supervisor, servers, gateway, process>>

\* What the backfill of one connection comes to: the error of Start, nothing
\* when the actor is not ready, or the outcome of RunConnection.
BackfillOutcomes(c) ==
    CASE StartResult(c) = "cancelled" -> {"unready"}
      [] StartResult(c) \in {"local", "shared", "stale"} -> {StartResult(c)}
      [] StartResult(c) = "ok" -> {"unready", "done", "local", "stale", "shared", "poisoned"}

\* recordBackfillResult: the count after an outcome.
BackfillCount(c, outcome) ==
    CASE outcome = "poisoned" -> FatalErrorThreshold
      [] outcome \in {"done", "stale"} -> 0
      [] outcome = "unready" -> backfillFailures[c]
      [] outcome \in {"local", "shared"} -> Least(backfillFailures[c] + 1, FatalErrorThreshold)

Unusable(c, outcome) ==
    outcome \in {"poisoned", "local", "shared"} /\ BackfillCount(c, outcome) >= FatalErrorThreshold

\* The connection is taken out of service in the store, then in the pool, then
\* in memory.  A store that refuses fails the pass before, a pool whose actor
\* does not end in time fails it when all is done.
QuarantineBackfill(c, error) ==
    /\ error = "join" => entry[c] \notin {"shared", "stale"}
    /\ loop' = [loop EXCEPT !["backfill"].page = Tail(@),
                            !["backfill"].failed = IF error = "none" THEN @ ELSE TRUE]
    /\ IF error = "store"
       THEN UNCHANGED <<entry, inService, backfillQuarantined>>
       ELSE /\ inService' = inService \ {c}
            /\ entry' = [entry EXCEPT ![c] = IF @ \in {"none", "running"} THEN "quarantined" ELSE @]
            /\ backfillQuarantined' = backfillQuarantined \cup {c}

BackfillConnection(outcome, error) ==
    /\ loop["backfill"].pc = "pass"
    /\ loop["backfill"].page # <<>>
    /\ LET c == InFocus("backfill")
       IN  IF c \notin inService \/ c \in backfillQuarantined
           THEN /\ outcome = "unready" /\ error = "none"
                /\ loop' = [loop EXCEPT !["backfill"].page = Tail(@)]
                /\ UNCHANGED <<entry, inService, backfillFailures, backfillQuarantined, fatal, errors>>
           ELSE /\ outcome \in BackfillOutcomes(c)
                /\ IF error # "none" \/ (StartResult(c) = "ok" /\ outcome \notin {"unready", "done"})
                   THEN Environment ELSE UNCHANGED errors
                /\ backfillFailures' = [backfillFailures EXCEPT ![c] =
                      IF Unusable(c, outcome) /\ outcome # "shared" /\ error # "store"
                      THEN 0 ELSE BackfillCount(c, outcome)]
                /\ IF Unusable(c, outcome) /\ outcome # "shared"
                   THEN QuarantineBackfill(c, error)
                   ELSE /\ error = "none"
                        /\ loop' = [loop EXCEPT !["backfill"].page = Tail(@)]
                        /\ entry' = Started(c)
                        /\ UNCHANGED <<inService, backfillQuarantined>>
                /\ IF Unusable(c, outcome) /\ outcome = "shared" THEN Report ELSE UNCHANGED fatal
    /\ UNCHANGED <<closed, actorFailures, supervisor, servers, gateway, process>>

\* An actor ends by itself and leaves its entry behind (Pool.Start).
ActorEnds(c, left) ==
    /\ entry[c] = "running"
    /\ IF closed THEN left = "none" /\ UNCHANGED errors
       ELSE left \in {"none", "stale", "shared", "quarantined"} /\ Environment
    /\ entry' = [entry EXCEPT ![c] = left]
    /\ UNCHANGED <<loop, closed, inService, actorFailures, backfillFailures,
                   backfillQuarantined, fatal, supervisor, servers, gateway, process>>

-----------------------------------------------------------------------------
(* Shutdown: Supervisor.Run, Gateway.Run, runGatewayAndOperations. *)

StopWorkers ==
    /\ supervisor = "waiting"
    /\ fatal \/ gateway # "running"
    /\ supervisor' = "joining"
    /\ UNCHANGED <<loop, entry, closed, inService, actorFailures, backfillFailures,
                   backfillQuarantined, fatal, servers, gateway, process, errors>>

ShutdownActors ==
    /\ supervisor = "joining"
    /\ \A l \in Loops : loop[l].pc = "ended"
    /\ supervisor' = "shutdown"
    /\ closed' = TRUE
    /\ UNCHANGED <<loop, entry, inService, actorFailures, backfillFailures,
                   backfillQuarantined, fatal, servers, gateway, process, errors>>

\* Every actor has ended, or the join timeout has passed.
SupervisorReturns ==
    /\ supervisor = "shutdown"
    /\ supervisor' = "returned"
    /\ UNCHANGED <<loop, entry, closed, inService, actorFailures, backfillFailures,
                   backfillQuarantined, fatal, servers, gateway, process, errors>>

\* A listener breaks, or the command consumer gives up.
ServerFails(s) ==
    /\ s \in servers
    /\ Environment
    /\ servers' = servers \ {s}
    /\ UNCHANGED <<loop, entry, closed, inService, actorFailures, backfillFailures,
                   backfillQuarantined, fatal, supervisor, gateway, process>>

\* Mutant: only the servers' results are awaited, the supervisor's is not.
GatewayStopsForServers ==
    /\ gateway = "running"
    /\ process # "running" \/ ~({"http", "commands"} \subseteq servers)
    /\ gateway' = "stopping"
    /\ servers' = servers \ {"http"}
    /\ UNCHANGED <<loop, entry, closed, inService, actorFailures, backfillFailures,
                   backfillQuarantined, fatal, supervisor, process, errors>>

\* The first result, or the process that stops, cancels the others; the HTTP
\* server shuts down.
GatewayStops ==
    /\ gateway = "running"
    /\ \/ process # "running"
       \/ supervisor = "returned"
       \/ ~({"http", "commands"} \subseteq servers)
    /\ gateway' = "stopping"
    /\ servers' = servers \ {"http"}
    /\ UNCHANGED <<loop, entry, closed, inService, actorFailures, backfillFailures,
                   backfillQuarantined, fatal, supervisor, process, errors>>

CommandsStop ==
    /\ gateway = "stopping"
    /\ "commands" \in servers
    /\ servers' = servers \ {"commands"}
    /\ UNCHANGED <<loop, entry, closed, inService, actorFailures, backfillFailures,
                   backfillQuarantined, fatal, supervisor, gateway, process, errors>>

GatewayReturns ==
    /\ gateway = "stopping"
    /\ supervisor = "returned"
    /\ servers \subseteq {"ops"}
    /\ gateway' = "returned"
    /\ UNCHANGED <<loop, entry, closed, inService, actorFailures, backfillFailures,
                   backfillQuarantined, fatal, supervisor, servers, process, errors>>

\* A signal, a gateway that returned or a broken operations listener.
ProcessStops(signal) ==
    /\ process = "running"
    /\ signal \/ gateway = "returned" \/ "ops" \notin servers
    /\ process' = "stopping"
    /\ servers' = servers \ {"ops"}
    /\ UNCHANGED <<loop, entry, closed, inService, actorFailures, backfillFailures,
                   backfillQuarantined, fatal, supervisor, gateway, errors>>

\* Both results are in, or the last one did not come within its timeout.
ProcessExits(timeout) ==
    /\ process = "stopping"
    /\ timeout \/ gateway = "returned"
    /\ process' = "exited"
    /\ UNCHANGED <<loop, entry, closed, inService, actorFailures, backfillFailures,
                   backfillQuarantined, fatal, supervisor, servers, gateway, errors>>

-----------------------------------------------------------------------------
SupervisorLoopStep(l) ==
    \/ LaunchLoop(l) \/ Tick(l) \/ PassEnds(l) \/ ListConnections(l, FALSE)
    \/ l = "batch" /\ RunBatch(FALSE)
    \/ l = "discover" /\ DiscoverActor
    \/ l = "dispatch" /\ \E lanes \in SUBSET Connections : Dispatch(lanes, FALSE)
    \/ l = "backfill" /\ \E outcome \in {"unready", "done", "local", "stale", "shared", "poisoned"} :
                             BackfillConnection(outcome, "none")

StopStep ==
    \/ Launched \/ StopWorkers \/ ShutdownActors \/ SupervisorReturns
    \/ GatewayStops \/ CommandsStop \/ GatewayReturns
    \/ ProcessStops(FALSE) \/ ProcessExits(FALSE)

Failure ==
    \/ ListConnections("discover", TRUE) \/ ListConnections("backfill", TRUE)
    \/ RunBatch(TRUE)
    \/ \E lanes \in SUBSET Connections : Dispatch(lanes, TRUE)
    \/ \E outcome \in {"local", "poisoned"}, error \in {"store", "join"} :
          BackfillConnection(outcome, error)
    \/ \E c \in Connections, left \in {"none", "stale", "shared", "quarantined"} :
          ActorEnds(c, left)
    \/ \E s \in {"http", "commands", "ops"} : ServerFails(s)
    \/ ProcessStops(TRUE) \/ ProcessExits(TRUE)

SupervisorNext ==
    /\ process # "exited"
    /\ (\E l \in Loops : SupervisorLoopStep(l)) \/ StopStep \/ Failure

SupervisorSpec == SupervisorInit /\ [][SupervisorNext]_supervisorVars

\* Fairness: every loop is a goroutine with a ticker, the joins and returns are
\* made by goroutines, and every wait in them has a timeout.
SupervisorFairness ==
    /\ \A l \in Loops : WF_supervisorVars(process # "exited" /\ SupervisorLoopStep(l))
    /\ WF_supervisorVars(process # "exited" /\ StopStep)

\* No worker dies silently (runLoop, Run): a loop that has ended is one the
\* supervisor stopped, or one whose error the supervisor is about to receive.
NoSilentLoopDeath ==
    \A l \in Loops : loop[l].pc = "ended" => (fatal \/ ~Polling)

\* A failure of the shared infrastructure is not survived (Pool.Start,
\* recordActorInfrastructureFailure, Gateway.Run, runGatewayAndOperations):
\* once an actor of a connection in service has left it behind, the process
\* exits, or the connection leaves service.
SharedFailureStopsProcess ==
    \A c \in Connections :
        (entry[c] = "shared") ~> (process = "exited" \/ c \notin inService)

=============================================================================
