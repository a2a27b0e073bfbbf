--------------------------- MODULE ConnectionActor ---------------------------
(***************************************************************************)
(* The actor that owns a provider connection (connectionactor/actor.go),   *)
(* one per gateway process, with the rows it writes: the connection state, *)
(* the encrypted session and the actor health, all fenced by the lease.    *)
(* The control plane (reauthorization, quarantine, pairing) changes the    *)
(* same rows from outside.                                                 *)
(*                                                                         *)
(* A session is named by a number: the order in which the provider or a    *)
(* pairing produced it; 0 is no session.  Of the connection states only    *)
(* the ones some statement writes occur: connected is in service, the      *)
(* others are not.  Of the health row the model keeps the fencing token    *)
(* and the actor state.                                                    *)
(***************************************************************************)
EXTENDS ConnectionLease

CONSTANT MaxSessions   \* bound on the sessions produced

ASSUME ActorAssumption == MaxSessions \in Nat

VARIABLES conn,     \* connections.state, pairing_prior_state and the lock of an open mark
          session,  \* connection_sessions: revision and plaintext
          health,   \* connection_actor_health
          issued,   \* sessions produced so far
          gen,      \* the actor of each process
          link,     \* the process has a provider client up
          tomb      \* why the process' pool refuses to start the actor again

rowVars == <<conn, session, health, issued>>
vars == <<lease, held, conn, session, health, issued, gen, link, tomb>>

-----------------------------------------------------------------------------
Versions == 0..MaxSessions
Snapshot == [rev : Versions, data : Versions]

\* Actor.Run: where it is, ctx.Err() # nil, generationExit (kind, provider
\* error class, joined), the session snapshot, the callbacks' session mailbox
\* and whether they still accept, the pending session, and whether the provider
\* reported ready.  newest is the last session the callbacks accepted.
Generation == [pc : {"stopped", "acquired", "loading", "announcing", "restoring",
                     "running", "closing", "flushing", "deciding", "marking",
                     "backoff", "releasing"},
               done : BOOLEAN,
               exit : {"none", "shutdown", "leaseLost", "conflict", "provider"},
               cause : {"none", "transient", "auth", "fatal"},
               joined : BOOLEAN,
               snap : Snapshot,
               mailbox : Versions, accepting : BOOLEAN, pending : Versions,
               ready : BOOLEAN,
               newest : Versions]

Stopped == [pc |-> "stopped", done |-> FALSE, exit |-> "none", cause |-> "none",
            joined |-> FALSE, snap |-> [rev |-> 0, data |-> 0], mailbox |-> 0,
            accepting |-> FALSE, pending |-> 0, ready |-> FALSE, newest |-> 0]

(* poolEntry.terminalErr and quarantined once the run has ended: quarantined is
   what Resume clears, terminal and joinTimeout are what it refuses.  due is
   the moment between the supervisor's two calls that quarantine a connection,
   the store's (made) and the pool's. *)
Tombstones == {"clear", "due", "quarantined", "terminal", "joinTimeout"}

ActorTypeOK ==
    /\ LeaseTypeOK
    /\ conn \in [state : {"unpaired", "pairing", "connected", "suspended",
                          "reauthorization-required"},
                 prior : {"none", "unpaired", "reauthorization-required"},
                 locked : BOOLEAN]
    /\ session \in Snapshot
    /\ health \in [token : 0..MaxToken,
                   actor : {"none", "connecting", "ready", "backoff", "stopped"}]
    /\ issued \in Versions
    /\ gen \in [Owners -> Generation]
    /\ link \in [Owners -> BOOLEAN]
    /\ tomb \in [Owners -> Tombstones]

Init ==
    /\ LeaseInit
    /\ conn = [state |-> "unpaired", prior |-> "none", locked |-> FALSE]
    /\ session = [rev |-> 0, data |-> 0]
    /\ health = [token |-> 0, actor |-> "none"]
    /\ issued = 0
    /\ gen = [o \in Owners |-> Stopped]
    /\ link = [o \in Owners |-> FALSE]
    /\ tomb = [o \in Owners |-> "clear"]

-----------------------------------------------------------------------------
(* Mutant: the health write is not fenced by the lease. *)
HealthWritableUnfenced(o) == TRUE

(* WriteConnectionHealthFenced affects a row. *)
HealthWritable(o) == OwnsLease(o) /\ health.token <= held[o]

(* A health write whose result is discarded: it may be lost. *)
WriteHealth(o, s) ==
    \/ HealthWritable(o) /\ health' = [token |-> held[o], actor |-> s]
    \/ UNCHANGED health

\* A health write with the run's own context: nothing is written once that
\* is cancelled.
HealthAccepted(o) == HealthWritable(o) /\ ~gen[o].done

WriteHealthLive(o, s) ==
    health' = IF HealthAccepted(o) THEN [token |-> held[o], actor |-> s] ELSE health

\* Run returns: only the deferred release is left, on a context of its own.
Returned == [Stopped EXCEPT !.pc = "releasing"]

Goto(o, pc) ==
    gen' = [gen EXCEPT ![o] = IF pc = "releasing" THEN Returned ELSE [@ EXCEPT !.pc = pc]]

(* Pool.Start and the acquisition at the head of Run. *)
Start(o) ==
    /\ gen[o].pc = "stopped"
    /\ tomb[o] \in {"clear", "due"}
    /\ AcquireConnectionLease(o)
    /\ gen' = [gen EXCEPT ![o] = [Stopped EXCEPT !.pc = "acquired"]]
    /\ UNCHANGED <<rowVars, link, tomb>>

(* Pool.Shutdown or the supervisor cancel the run. *)
Cancel(o) ==
    /\ gen[o].pc \notin {"stopped", "releasing"}
    /\ gen' = [gen EXCEPT ![o].done = TRUE]
    /\ UNCHANGED <<leaseVars, rowVars, link, tomb>>

(* Mutant: a quarantine replaces a join timeout too. *)
QuarantineReplacesTombstone(o) ==
    /\ tomb[o] \in {"due", "joinTimeout"}
    /\ tomb' = [tomb EXCEPT ![o] = "quarantined"]
    /\ gen' = [gen EXCEPT ![o].done = gen[o].pc \notin {"stopped", "releasing"}]
    /\ UNCHANGED <<leaseVars, rowVars, link>>

(* Pool.Quarantine: the run is cancelled and a tombstone that Resume may clear
   is left, with or without a run.  A join timeout is stronger and stays. *)
Quarantine(o) ==
    /\ tomb[o] = "due"
    /\ tomb' = [tomb EXCEPT ![o] = "quarantined"]
    /\ gen' = [gen EXCEPT ![o].done = gen[o].pc \notin {"stopped", "releasing"}]
    /\ UNCHANGED <<leaseVars, rowVars, link>>

(* Pool.Resume, once the run has ended. *)
Resume(o) ==
    /\ gen[o].pc = "stopped"
    /\ tomb[o] = "quarantined"
    /\ tomb' = [tomb EXCEPT ![o] = "clear"]
    /\ UNCHANGED <<leaseVars, rowVars, gen, link>>

(* GetConnection: only a connection in service is run. *)
ReadConnection(o) ==
    /\ gen[o].pc = "acquired"
    /\ Goto(o, IF gen[o].done \/ conn.state # "connected" THEN "releasing" ELSE "loading")
    /\ UNCHANGED <<leaseVars, rowVars, link, tomb>>

(* LoadVersioned. *)
LoadSession(o) ==
    /\ gen[o].pc = "loading"
    /\ IF gen[o].done \/ session.rev = 0
       THEN Goto(o, "releasing")
       ELSE gen' = [gen EXCEPT ![o].pc = "announcing", ![o].snap = session,
                               ![o].newest = session.data]
    /\ UNCHANGED <<leaseVars, rowVars, link, tomb>>

(* The health write before the first connection, and after a backoff. *)
Announce(o) ==
    /\ gen[o].pc = "announcing"
    /\ WriteHealthLive(o, "connecting")
    /\ Goto(o, IF HealthAccepted(o) THEN "restoring" ELSE "releasing")
    /\ UNCHANGED <<leaseVars, conn, session, issued, link, tomb>>

(* Restore builds a provider from the snapshot; runGeneration starts Connect. *)
Restore(o) ==
    /\ gen[o].pc = "restoring"
    /\ gen' = [gen EXCEPT ![o] = [@ EXCEPT !.pc = "running", !.exit = "none",
                   !.cause = "none", !.joined = FALSE, !.mailbox = 0,
                   !.accepting = TRUE, !.pending = 0, !.ready = FALSE,
                   !.newest = gen[o].snap.data]]
    /\ link' = [link EXCEPT ![o] = TRUE]
    /\ UNCHANGED <<leaseVars, rowVars, tomb>>

RestoreFails(o) ==
    /\ gen[o].pc = "restoring"
    /\ WriteHealthLive(o, "stopped") \/ UNCHANGED health
    /\ Goto(o, "releasing")
    /\ UNCHANGED <<leaseVars, conn, session, issued, link, tomb>>

-----------------------------------------------------------------------------
(* The generation loop. *)

Leave(o, kind) ==
    gen' = [gen EXCEPT ![o].pc = "closing", ![o].exit = kind, ![o].ready = FALSE]

(* A ready, frame or phone-response event: the health row follows. *)
ProviderEvent(o) ==
    /\ gen[o].pc = "running"
    /\ \E ready \in {TRUE, gen[o].ready} :
          /\ WriteHealthLive(o, IF ready THEN "ready" ELSE "connecting")
          /\ IF HealthAccepted(o)
             THEN gen' = [gen EXCEPT ![o].ready = ready]
             ELSE Leave(o, IF gen[o].done THEN "shutdown" ELSE "leaseLost")
    /\ UNCHANGED <<leaseVars, conn, session, issued, link, tomb>>

(* The provider's SessionChanged callback, on a goroutine of its own:
   replaceSession overwrites the mailbox while it accepts. *)
SessionChanged(o) ==
    /\ gen[o].accepting
    /\ issued < MaxSessions
    /\ issued' = issued + 1
    /\ gen' = [gen EXCEPT ![o].mailbox = issued + 1, ![o].newest = issued + 1]
    /\ UNCHANGED <<leaseVars, conn, session, health, link, tomb>>

(* The loop takes the mailbox and arms the debounce timer. *)
TakeSession(o) ==
    /\ gen[o].pc = "running"
    /\ gen[o].mailbox # 0
    /\ gen' = [gen EXCEPT ![o].pending = gen[o].mailbox, ![o].mailbox = 0]
    /\ UNCHANGED <<leaseVars, rowVars, link, tomb>>

(* Mutant: a pending session is flushed although a newer one is waiting. *)
LatestPendingOnly(o) ==
    IF gen[o].pending # 0 THEN gen[o].pending ELSE gen[o].mailbox

(* takeLatest: the mailbox is newer than what is pending. *)
Latest(o) == IF gen[o].mailbox # 0 THEN gen[o].mailbox ELSE gen[o].pending

(* Mutant: neither the lease nor the revision is compared. *)
SwapUnconditional(o) == TRUE

(* The condition of CompareAndSwapEncryptedSessionFenced. *)
SwapAdmitted(o) == OwnsLease(o) /\ session.rev = gen[o].snap.rev

Swapped(o) == [rev |-> session.rev + 1, data |-> Latest(o)]

(* flushPendingSessionDetached stored the latest session. *)
Flushed(o, pc) ==
    gen' = [gen EXCEPT ![o].pc = pc, ![o].snap = Swapped(o),
                       ![o].pending = 0, ![o].mailbox = 0]

(* The debounce timer: flush, unless the run is cancelled.  The store may
   refuse, or fail before or after it committed. *)
DebounceFlush(o) ==
    /\ gen[o].pc = "running"
    /\ gen[o].pending # 0
    /\ \/ /\ gen[o].done
          /\ gen' = [gen EXCEPT ![o].pending = Latest(o), ![o].mailbox = 0,
                                ![o].pc = "closing", ![o].exit = "shutdown",
                                ![o].ready = FALSE]
          /\ UNCHANGED session
       \/ /\ ~gen[o].done
          /\ SwapAdmitted(o)
          /\ session' = Swapped(o)
          /\ Flushed(o, "running")
       \/ /\ ~gen[o].done
          /\ \/ UNCHANGED session
             \/ SwapAdmitted(o) /\ session' = Swapped(o)
          /\ gen' = [gen EXCEPT ![o].pending = 0, ![o].mailbox = 0,
                                ![o].pc = "closing", ![o].exit = "conflict",
                                ![o].ready = FALSE]
    /\ UNCHANGED <<leaseVars, conn, health, issued, link, tomb>>

(* The renewal is refused: the lease is another generation's, or expired. *)
LeaseLost(o) ==
    /\ gen[o].pc = "running"
    /\ ~OwnsLease(o)
    /\ Leave(o, IF gen[o].done THEN "shutdown" ELSE "leaseLost")
    /\ UNCHANGED <<leaseVars, rowVars, link, tomb>>

(* The renewal, or the health write of an event, returns an error although the
   lease is fine. *)
RenewErrors(o) ==
    /\ gen[o].pc = "running"
    /\ OwnsLease(o)
    /\ Leave(o, IF gen[o].done THEN "shutdown" ELSE "leaseLost")
    /\ UNCHANGED <<leaseVars, rowVars, link, tomb>>

(* Mutant: cancellation is looked at only before the provider is ready. *)
ShutDownWhenQuiet(o) ==
    /\ gen[o].pc = "running"
    /\ gen[o].done
    /\ ~gen[o].ready
    /\ Leave(o, "shutdown")
    /\ UNCHANGED <<leaseVars, rowVars, link, tomb>>

(* The loop's ctx.Done() case. *)
ShutDown(o) ==
    /\ gen[o].pc = "running"
    /\ gen[o].done
    /\ Leave(o, "shutdown")
    /\ UNCHANGED <<leaseVars, rowVars, link, tomb>>

(* Connect returns.  Its own cancellation is a shutdown, and so is any other
   return of a cancelled run, except with a terminal cause. *)
ConnectReturns(o) ==
    /\ gen[o].pc = "running"
    /\ \E c \in {"none", "auth", "fatal"} \cup
               (IF gen[o].done THEN {} ELSE {"transient"}) :
          gen' = [gen EXCEPT ![o] = [@ EXCEPT !.pc = "closing", !.joined = TRUE,
                    !.ready = FALSE, !.cause = c,
                    !.exit = IF c = "none" THEN "shutdown" ELSE "provider"]]
    /\ link' = [link EXCEPT ![o] = FALSE]
    /\ UNCHANGED <<leaseVars, rowVars, tomb>>

-----------------------------------------------------------------------------
(* finalizeGeneration. *)

(* Disconnect and join.  The joined Connect may bring a terminal cause. *)
Join(o) ==
    /\ gen[o].pc = "closing"
    /\ \E c \in IF gen[o].joined THEN {gen[o].cause} ELSE {"none", "auth", "fatal"} :
          gen' = [gen EXCEPT ![o] = [@ EXCEPT !.pc = "flushing", !.joined = TRUE,
                    !.cause = c,
                    !.exit = IF c \in {"auth", "fatal"} THEN "provider" ELSE gen[o].exit]]
    /\ link' = [link EXCEPT ![o] = FALSE]
    /\ UNCHANGED <<leaseVars, rowVars, tomb>>

(* Disconnect or Connect outlives joinTimeout. *)
JoinTimesOut(o) ==
    /\ gen[o].pc = "closing"
    /\ gen' = [gen EXCEPT ![o].pc = "flushing", ![o].joined = FALSE]
    /\ UNCHANGED <<leaseVars, rowVars, link, tomb>>

(* What Pool.Start's goroutine leaves when Run returns after a generation: a
   generation that could not be joined may never be replaced, and some fatal
   causes leave a tombstone, one of them (a protocol violation) a quarantine. *)
LeaveTombstone(o) ==
    \E t \in IF ~gen[o].joined THEN {"joinTimeout"}
             ELSE IF gen[o].cause # "fatal" THEN {tomb[o]}
             ELSE IF tomb[o] = "clear" THEN {"clear", "terminal", "quarantined"}
             ELSE {tomb[o]} :
        tomb' = [tomb EXCEPT ![o] = t]

(* stopAcceptingAndTakeLatest and the last flush.  When it is refused or fails,
   with the session stored or not, the run ends there. *)
FinalFlush(o) ==
    /\ gen[o].pc = "flushing"
    /\ \/ /\ Latest(o) = 0
          /\ gen' = [gen EXCEPT ![o].pc = "deciding", ![o].accepting = FALSE]
          /\ UNCHANGED <<session, health, tomb>>
       \/ /\ Latest(o) # 0
          /\ SwapAdmitted(o)
          /\ session' = Swapped(o)
          /\ gen' = [gen EXCEPT ![o] = [@ EXCEPT !.pc = "deciding",
                        !.accepting = FALSE, !.snap = Swapped(o),
                        !.pending = 0, !.mailbox = 0]]
          /\ UNCHANGED <<health, tomb>>
       \/ /\ Latest(o) # 0
          /\ \/ UNCHANGED session
             \/ SwapAdmitted(o) /\ session' = Swapped(o)
          /\ WriteHealth(o, "stopped")
          /\ LeaveTombstone(o)
          /\ Goto(o, "releasing")
    /\ UNCHANGED <<leaseVars, conn, issued, link>>

(* Every exit that ends the run with a detached health write. *)
Finish(o) ==
    /\ gen[o].pc = "deciding"
    /\ ~gen[o].joined \/ gen[o].exit # "provider" \/ gen[o].cause = "fatal"
    /\ WriteHealth(o, "stopped")
    /\ Goto(o, "releasing")
    /\ LeaveTombstone(o)
    /\ UNCHANGED <<leaseVars, conn, session, issued, link>>

(* A joined provider failure: authorization is recorded, a transient one is
   retried after a backoff. *)
HandleFailure(o) ==
    /\ gen[o].pc = "deciding"
    /\ gen[o].joined
    /\ gen[o].exit = "provider"
    /\ \/ /\ gen[o].cause = "auth"
          /\ Goto(o, "marking")
          /\ UNCHANGED health
       \/ /\ gen[o].cause = "transient"
          /\ WriteHealthLive(o, "backoff")
          /\ Goto(o, IF HealthAccepted(o) THEN "backoff" ELSE "releasing")
    /\ UNCHANGED <<leaseVars, conn, session, issued, link, tomb>>

(* MarkReauthorizationRequiredFenced, with the run's own context, and the
   health write after it. *)
MarkReauthorizationRequiredFenced(o) ==
    /\ gen[o].pc = "marking"
    /\ IF /\ ~gen[o].done
          /\ OwnsLease(o)
          /\ conn.state \in {"connected", "suspended", "reauthorization-required"}
       THEN /\ ~conn.locked
            /\ conn' = [conn EXCEPT !.state = "reauthorization-required"]
            /\ WriteHealth(o, "stopped")
       ELSE UNCHANGED <<conn, health>>
    /\ Goto(o, "releasing")
    /\ UNCHANGED <<leaseVars, session, issued, link, tomb>>

(* waitBackoff ends: the delay is over, the run cancelled or the lease lost. *)
BackoffEnds(o) ==
    /\ gen[o].pc = "backoff"
    /\ WriteHealthLive(o, "connecting")
    /\ Goto(o, IF HealthAccepted(o) THEN "restoring" ELSE "releasing")
    /\ UNCHANGED <<leaseVars, conn, session, issued, link, tomb>>

(* A store call of Run outside the loop returns an error: the run ends.  The
   write may have been made. *)
StoreFails(o) ==
    /\ \/ gen[o].pc \in {"acquired", "loading"} /\ UNCHANGED <<conn, health>>
       \/ /\ gen[o].pc \in {"announcing", "backoff"}
          /\ WriteHealthLive(o, "connecting") \/ UNCHANGED health
          /\ UNCHANGED conn
       \/ /\ gen[o].pc = "backoff"
          /\ WriteHealthLive(o, "stopped")
          /\ UNCHANGED conn
       \/ /\ gen[o].pc = "deciding" /\ gen[o].joined
          /\ gen[o].exit = "provider" /\ gen[o].cause = "transient"
          /\ WriteHealthLive(o, "backoff") \/ UNCHANGED health
          /\ UNCHANGED conn
       \/ gen[o].pc = "marking" /\ ~gen[o].done /\ UNCHANGED <<conn, health>>
    /\ Goto(o, "releasing")
    /\ UNCHANGED <<leaseVars, session, issued, link, tomb>>

(* The deferred release; its error is discarded. *)
Release(o) ==
    /\ gen[o].pc = "releasing"
    /\ ReleaseConnectionLease(o) \/ ReleaseLost(o)
    /\ gen' = [gen EXCEPT ![o] = Stopped]
    /\ UNCHANGED <<rowVars, link, tomb>>

-----------------------------------------------------------------------------
(* The control plane. *)

(* Mutant: the owner is cleared and the token is kept. *)
FenceForReauthorizationKeepsToken ==
    /\ lease.owner # NoOwner
    /\ lease' = [lease EXCEPT !.owner = NoOwner, !.live = FALSE]
    /\ UNCHANGED held

(* fenceConnectionLeaseForReauthorization, which passes over an unowned lease. *)
FenceForReauthorization == lease.owner # NoOwner /\ FenceConnectionLease

Markable == conn.state \in {"connected", "suspended", "reauthorization-required"} /\ ~conn.locked

(* markReauthorizationRequired.  A lease it fences stays locked until it
   commits, so nobody sees a state in between. *)
MarkReauthorizationRequired ==
    /\ Markable
    /\ conn' = [conn EXCEPT !.state = "reauthorization-required"]
    /\ FenceForReauthorization
    /\ UNCHANGED <<session, health, issued, gen, link, tomb>>

(* With no owner there is nothing to fence and nothing to lock: until the
   transaction ends a process may acquire the lease and read the old state. *)
MarkUnfenced ==
    /\ Markable
    /\ lease.owner = NoOwner
    /\ conn' = [conn EXCEPT !.locked = TRUE]
    /\ UNCHANGED <<leaseVars, session, health, issued, gen, link, tomb>>

MarkUnfencedEnds ==
    /\ conn.locked
    /\ \E state \in {conn.state, "reauthorization-required"} :
          conn' = [conn EXCEPT !.state = state, !.locked = FALSE]
    /\ UNCHANGED <<leaseVars, session, health, issued, gen, link, tomb>>

(* QuarantineBackfillConnection, which fails without a lease row.  Unless its
   answer is lost, the process' supervisor calls Pool.Quarantine next. *)
QuarantineBackfillConnection(o) ==
    /\ conn.state \in {"connected", "suspended"} /\ ~conn.locked
    /\ FenceConnectionLease
    /\ conn' = [conn EXCEPT !.state = "suspended"]
    /\ health' = [token |-> lease.token + 1, actor |-> "stopped"]
    /\ tomb' \in {tomb, [tomb EXCEPT ![o] =
                          IF @ \in {"clear", "terminal"} THEN "due" ELSE @]}
    /\ UNCHANGED <<session, issued, gen, link>>

(* BeginPairing: the state before is kept for RestorePairing. *)
BeginPairing ==
    /\ conn.state \in {"unpaired", "reauthorization-required"} /\ ~conn.locked
    /\ conn' = [conn EXCEPT !.state = "pairing", !.prior = conn.state]
    /\ UNCHANGED <<leaseVars, session, health, issued, gen, link, tomb>>

(* RestorePairing and ReconcileStalePairings. *)
RestorePairing ==
    /\ conn.state = "pairing"
    /\ conn' = [conn EXCEPT !.state = conn.prior, !.prior = "none"]
    /\ UNCHANGED <<leaseVars, session, health, issued, gen, link, tomb>>

CommitPairedSession ==
    /\ conn.state = "pairing"
    /\ issued < MaxSessions
    /\ issued' = issued + 1
    /\ session' = [rev |-> session.rev + 1, data |-> issued + 1]
    /\ conn' = [conn EXCEPT !.state = "connected", !.prior = "none"]
    /\ UNCHANGED <<leaseVars, health, gen, link, tomb>>

-----------------------------------------------------------------------------
(* The environment. *)

LeaseExpires == LeaseLapses /\ UNCHANGED <<rowVars, gen, link, tomb>>

(* A provider client that could not be joined stops in the end. *)
StrayLinkDrops(o) ==
    /\ link[o]
    /\ gen[o].pc = "stopped"
    /\ link' = [link EXCEPT ![o] = FALSE]
    /\ UNCHANGED <<leaseVars, rowVars, gen, tomb>>

(* The process dies and is restarted under the same owner id. *)
Crash(o) ==
    /\ gen[o].pc # "stopped" \/ tomb[o] # "clear"
    /\ held' = [held EXCEPT ![o] = 0]
    /\ gen' = [gen EXCEPT ![o] = Stopped]
    /\ link' = [link EXCEPT ![o] = FALSE]
    /\ tomb' = [tomb EXCEPT ![o] = "clear"]
    /\ UNCHANGED <<lease, rowVars>>

RunStep(o) ==
    \/ ReadConnection(o) \/ LoadSession(o) \/ Announce(o)
    \/ Restore(o) \/ RestoreFails(o)
    \/ Join(o) \/ JoinTimesOut(o) \/ FinalFlush(o)
    \/ Finish(o) \/ HandleFailure(o) \/ MarkReauthorizationRequiredFenced(o)
    \/ BackoffEnds(o) \/ StoreFails(o) \/ Release(o)

LoopStep(o) ==
    \/ ProviderEvent(o) \/ SessionChanged(o) \/ TakeSession(o) \/ DebounceFlush(o)
    \/ RenewErrors(o) \/ ConnectReturns(o)

ControlPlane ==
    \/ MarkReauthorizationRequired \/ MarkUnfenced \/ MarkUnfencedEnds
    \/ \E o \in Owners : QuarantineBackfillConnection(o)
    \/ BeginPairing \/ RestorePairing \/ CommitPairedSession

Next ==
    \/ \E o \in Owners : \/ Start(o) \/ Cancel(o) \/ Quarantine(o) \/ Resume(o)
                         \/ RunStep(o) \/ LoopStep(o)
                         \/ LeaseLost(o) \/ ShutDown(o)
                         \/ StrayLinkDrops(o) \/ Crash(o)
    \/ ControlPlane
    \/ LeaseExpires

Spec == Init /\ [][Next]_vars

(* Every step of Run outside the loop ends (calls carry timeouts), a cancelled
   loop notices, and the renewal timer notices a lost lease.  Nothing is
   assumed of the provider, the control plane or the scheduler's starts. *)
Fairness ==
    \A o \in Owners : /\ WF_vars(RunStep(o))
                      /\ WF_vars(LeaseLost(o))
                      /\ WF_vars(ShutDown(o))

FairSpec == Spec /\ Fairness

-----------------------------------------------------------------------------
(* No accepted session is lost between the callbacks' mailbox, the debounced
   pending session and the last flush: a generation that shuts down, loses its
   renewal or reconnects goes past its flush with the newest session it ever
   accepted. *)
FlushedIsNewest ==
    \A o \in Owners :
        /\ gen[o].pc \in {"deciding", "backoff"}
        /\ gen[o].exit \in {"shutdown", "leaseLost"} \/ gen[o].cause = "transient"
        => gen[o].snap.data = gen[o].newest

(* A session produced earlier never replaces one produced later, by any
   interleaving of flushes, pairings and handovers between processes. *)
SessionNeverRegresses ==
    [][session'.rev >= session.rev /\ session'.data >= session.data]_vars

(* "the durable connection-local circuit breaker": while a connection stays
   suspended its health row keeps saying so, whatever the fenced generation
   and new ones try to write. *)
QuarantineSticks ==
    [][conn.state = "suspended" /\ conn'.state = "suspended" =>
          health'.actor = health.actor /\ health'.token >= health.token]_vars

(* A cancelled run ends, wherever it is. *)
CancelledRunEnds ==
    \A o \in Owners : gen[o].done ~> gen[o].pc = "stopped"

(* "so a replacement generation can never overlap that unknown operation": a
   process whose provider client is still up, because its join timed out, is
   not on the way to a new one, whatever is quarantined and resumed meanwhile. *)
ReplacementNeverOverlaps ==
    \A o \in Owners :
        gen[o].pc \in {"acquired", "loading", "announcing", "restoring"} => ~link[o]

(* "Normalize here so no earlier exit kind can discard the joined cause": a
   generation that was shut down, joined an authorization failure and still
   owns the lease does not end without recording it. *)
AuthCauseRecorded ==
    [][\A o \in Owners :
          /\ gen[o].pc = "marking" /\ gen[o].done
          /\ gen'[o].pc = "releasing" /\ OwnsLease(o)
          => conn'.state = "reauthorization-required"]_vars
=============================================================================
