-------------------------- MODULE ClientLifecycle --------------------------
(***************************************************************************)
(* The connection lifecycle of the Google Messages client                  *)
(* (pkg/libgm/lifecycle.go, client.go, longpoll.go).  Connect, Disconnect  *)
(* and ClearSessionSecrets are called concurrently; a connection is a      *)
(* generation with its own context and goroutines (activity loop, ACK      *)
(* loop, long poll, post-connect, browser-presence ACKs); pairing runs an  *)
(* auxiliary long poll that may reconnect by itself.  The model keeps the  *)
(* steps between two acquisitions of a lock or two channel operations.     *)
(***************************************************************************)
EXTENDS Naturals, Sequences

CONSTANTS Callers,          \* goroutines calling the client's methods
          AuxCaller,        \* the auxiliary poll's own call of Connect
          NoCaller,
          MaxGenerations,   \* bound: generations of one behaviour
          MaxTokens,        \* bound: tokens received from refreshes
          MaxCalls          \* bound: calls of Connect, Disconnect and ClearSessionSecrets

ASSUME ClientConstants ==
    /\ AuxCaller \in Callers /\ NoCaller \notin Callers
    /\ MaxGenerations \in Nat \ {0} /\ MaxTokens \in Nat /\ MaxCalls \in Nat

VARIABLES
    lifecycle,   \* c.lifecycle: index of the current generation, 0 for nil
    gens,        \* every generation created so far
    caller,      \* program counter of each call, and the generation it handles
    reset,       \* c.credentialReset: the call that holds it
    secrets,     \* the session holds a token and a browser
    token,       \* tokens received so far; the newest one is in AuthData
    hooked,      \* the newest token the session-change hook has read
    late,        \* the newest token whose change was dropped after a cancel
    calls,       \* calls made so far
    listener,    \* whose listen ID is the current one
    auxiliary    \* the auxiliary long poll

lifecycleVars == <<lifecycle, gens, caller, reset, secrets, token, hooked, late,
                calls, listener, auxiliary>>

Generations == 1..Len(gens)
\* "helpers" are the ACK loop and the post-connect task, which only have to be joined.
Goroutines == {"activity", "helpers", "poll", "presence"}
Aux == MaxGenerations + 1   \* the auxiliary poll as a listener
Nobody == 0

NewGeneration ==
    [state |-> "starting", cancelled |-> FALSE, accept |-> TRUE, signal |-> FALSE,
     live |-> {}, poll |-> "new", started |-> FALSE,
     failed |-> FALSE, done |-> FALSE]

\* A call that has returned keeps nothing.
IdleCall == [at |-> "idle", gen |-> 0, aux |-> FALSE]

At(p, where) == caller[p].at = where
MoveTo(p, where) ==
    caller' = [caller EXCEPT ![p] = IF where = "idle" THEN IdleCall ELSE [@ EXCEPT !.at = where]]
MoveFor(p, where, g) == caller' = [caller EXCEPT ![p].at = where, ![p].gen = g]
Mine(p) == caller[p].gen

(***************************************************************************)
(* Session changes.  A change is signalled to the CURRENT generation while *)
(* it accepts sessions, otherwise it is dropped; `late' remembers a drop   *)
(* by a generation whose context had already ended.                        *)
(***************************************************************************)
Accepting == lifecycle # 0 /\ gens[lifecycle].accept

SignalSessionChange(g) ==
    IF Accepting
    THEN gens' = [gens EXCEPT ![lifecycle].signal = TRUE, ![g].poll = "open"] /\ UNCHANGED late
    ELSE /\ gens' = [gens EXCEPT ![g].poll = "open"]
         /\ late' = IF gens[g].cancelled THEN token ELSE late

\* What finishLifecycleSessions leaves: no more changes, a pending one handed over.
FinishSessions(g) == [gens[g] EXCEPT !.accept = FALSE, !.signal = FALSE]
HookAfterFinish(g) == IF gens[g].signal THEN token ELSE hooked

----------------------------------------------------------------------------
(* ConnectContext *)

\* A new call by a goroutine that is in none.
Calls(p) ==
    /\ At(p, "idle") /\ p # AuxCaller
    /\ calls < MaxCalls /\ calls' = calls + 1

Connect(p) ==
    /\ Calls(p)
    /\ MoveTo(p, "stopAux")
    /\ UNCHANGED <<lifecycle, gens, reset, secrets, token, hooked, late, listener, auxiliary>>

\* stopAuxiliary: cancel the auxiliary poll and close the connection, then join it.
StopAuxiliary(p) ==
    /\ At(p, "stopAux")
    /\ IF auxiliary.on
       THEN /\ auxiliary' = [auxiliary EXCEPT !.allow = FALSE, !.cancelled = TRUE]
            /\ listener' = Nobody
            /\ MoveTo(p, "joinAux")
       ELSE MoveTo(p, "choose") /\ UNCHANGED <<auxiliary, listener>>
    /\ UNCHANGED <<lifecycle, gens, reset, secrets, token, hooked, late, calls>>

JoinAuxiliary(p) ==
    /\ At(p, "joinAux") /\ ~auxiliary.on
    /\ MoveTo(p, "choose")
    /\ UNCHANGED <<lifecycle, gens, reset, secrets, token, hooked, late, listener, auxiliary, calls>>

\* Mutant: ConnectContext does not wait for a credential reset in progress.
MayChooseDuringReset == TRUE

\* One turn of the loop: wait for a credential reset, then either join the
\* current generation or create one.
MayChoose == reset = NoCaller

MustJoin == lifecycle # 0

Choose(p) ==
    /\ At(p, "choose") /\ MayChoose
    /\ IF MustJoin
       THEN /\ MoveFor(p, IF gens[lifecycle].state = "stopping" THEN "joinDone" ELSE "joinStart",
                       lifecycle)
            /\ UNCHANGED <<gens, lifecycle, calls>>
       ELSE /\ Len(gens) < MaxGenerations
            /\ gens' = Append(gens, NewGeneration)
            /\ lifecycle' = Len(gens) + 1
            /\ MoveFor(p, "validate", Len(gens) + 1)
    /\ UNCHANGED <<reset, secrets, token, hooked, late, listener, auxiliary, calls>>

JoinStarted(p) ==
    /\ At(p, "joinStart") /\ gens[Mine(p)].started
    /\ MoveTo(p, IF ~gens[Mine(p)].failed /\ gens[Mine(p)].state = "stopping" THEN "joinDone" ELSE "idle")
    /\ UNCHANGED <<lifecycle, gens, reset, secrets, token, hooked, late, listener, auxiliary, calls>>

JoinDone(p) ==
    /\ At(p, "joinDone") /\ gens[Mine(p)].done
    /\ lifecycle' = IF lifecycle = Mine(p) THEN 0 ELSE lifecycle
    /\ MoveTo(p, "choose")
    /\ UNCHANGED <<gens, reset, secrets, token, hooked, late, listener, auxiliary, calls>>

\* The snapshot of the credentials, then the refresh: skipped, answered with a
\* new token, or failed.
Validate(p) ==
    /\ At(p, "validate")
    /\ MoveTo(p, IF secrets THEN "refresh" ELSE "fail")
    /\ UNCHANGED <<lifecycle, gens, reset, secrets, token, hooked, late, listener, auxiliary, calls>>

Refresh(p) ==
    /\ At(p, "refresh")
    /\ \/ MoveTo(p, "launch") /\ UNCHANGED token
       \/ MoveTo(p, "fail") /\ UNCHANGED token
       \/ token < MaxTokens /\ token' = token + 1 /\ MoveTo(p, "emit")
    /\ UNCHANGED <<lifecycle, gens, reset, secrets, hooked, late, listener, auxiliary, calls>>

EmitRefreshed(p) ==
    /\ At(p, "emit")
    /\ SignalSessionChange(Mine(p))
    /\ MoveTo(p, "launch")
    /\ UNCHANGED <<lifecycle, reset, secrets, token, hooked, listener, auxiliary, calls>>

\* After the refresh the generation must still be the wanted one.
Launch(p) ==
    LET g == Mine(p) IN
    /\ At(p, "launch")
    /\ IF lifecycle # g \/ gens[g].state = "stopping" \/ gens[g].cancelled
       THEN MoveTo(p, "fail") /\ UNCHANGED gens
       ELSE /\ gens' = [gens EXCEPT ![g].live = Goroutines \ {"presence"}, ![g].poll = "start"]
            /\ MoveTo(p, "announce")
    /\ UNCHANGED <<lifecycle, reset, secrets, token, hooked, late, listener, auxiliary, calls>>

AnnounceReady(p) ==
    LET g == Mine(p) IN
    /\ At(p, "announce")
    /\ gens' = [gens EXCEPT ![g].started = TRUE,
                          ![g].state = IF lifecycle = g /\ @ = "starting" THEN "running" ELSE @]
    /\ MoveTo(p, "idle")
    /\ UNCHANGED <<lifecycle, reset, secrets, token, hooked, late, listener, auxiliary, calls>>

FailStart(p) ==
    LET g == Mine(p) IN
    /\ At(p, "fail")
    /\ hooked' = HookAfterFinish(g)
    /\ gens' = [gens EXCEPT ![g] = [FinishSessions(g) EXCEPT !.failed = TRUE, !.cancelled = TRUE,
                                    !.started = TRUE, !.state = "stopping", !.done = TRUE]]
    /\ lifecycle' = IF lifecycle = g THEN 0 ELSE lifecycle
    /\ MoveTo(p, "idle")
    /\ UNCHANGED <<reset, secrets, token, late, listener, auxiliary, calls>>

----------------------------------------------------------------------------
(* The goroutines of a generation *)

Runs(g, worker) == worker \in gens[g].live
Exits(g, worker) == [gens EXCEPT ![g].live = @ \ {worker}]

PollStarts(g) ==
    /\ Runs(g, "poll") /\ gens[g].poll = "start"
    /\ gens' = [gens EXCEPT ![g].poll = "loop"]
    /\ listener' = g
    /\ UNCHANGED <<lifecycle, caller, reset, secrets, token, hooked, late, auxiliary, calls>>

\* The head of the poll loop: its context and its listen ID are still good.
PollContinues(g) == ~gens[g].cancelled /\ listener = g

PollRefreshes(g) ==
    /\ Runs(g, "poll") /\ gens[g].poll = "loop" /\ PollContinues(g)
    /\ gens' = [gens EXCEPT ![g].poll = "refresh"]
    /\ UNCHANGED <<lifecycle, caller, reset, secrets, token, hooked, late, listener, auxiliary, calls>>

PollRefreshed(g) ==
    /\ Runs(g, "poll") /\ gens[g].poll = "refresh"
    /\ \/ gens' = [gens EXCEPT ![g].poll = "open"] /\ UNCHANGED token
       \/ /\ token < MaxTokens
          /\ token' = token + 1
          /\ gens' = [gens EXCEPT ![g].poll = "emit"]
    /\ UNCHANGED <<lifecycle, caller, reset, secrets, hooked, late, listener, auxiliary, calls>>

PollEmits(g) ==
    /\ Runs(g, "poll") /\ gens[g].poll = "emit"
    /\ SignalSessionChange(g)
    /\ UNCHANGED <<lifecycle, caller, reset, secrets, token, hooked, listener, auxiliary, calls>>

\* The request is opened and read until it ends.
PollOpens(g) ==
    /\ Runs(g, "poll") /\ gens[g].poll = "open" /\ PollContinues(g)
    /\ gens' = [gens EXCEPT ![g].poll = "loop"]
    /\ UNCHANGED <<lifecycle, caller, reset, secrets, token, hooked, late, listener, auxiliary, calls>>

\* The poll returns: cancelled, superseded, or on a fatal error.
PollEnds(g) ==
    /\ Runs(g, "poll")
    /\ \/ gens[g].poll \in {"loop", "open"} /\ ~PollContinues(g)
       \/ gens[g].poll \in {"refresh", "open"}
    /\ gens' = [gens EXCEPT ![g].live = @ \ {"poll"}, ![g].cancelled = TRUE,
                          ![g].state = IF lifecycle = g THEN "stopping" ELSE @]
    /\ UNCHANGED <<lifecycle, caller, reset, secrets, token, hooked, late, listener, auxiliary, calls>>

SessionHook(g) ==
    /\ Runs(g, "activity") /\ gens[g].signal
    /\ gens' = [gens EXCEPT ![g].signal = FALSE]
    /\ hooked' = token
    /\ UNCHANGED <<lifecycle, caller, reset, secrets, token, late, listener, auxiliary, calls>>

\* Mutant: the activity loop returns on its context without leaving the wait group
ActivityEndsWithoutDone(g) ==
    /\ Runs(g, "activity") /\ gens[g].cancelled
    /\ hooked' = HookAfterFinish(g)
    /\ gens' = [gens EXCEPT ![g] = FinishSessions(g)]
    /\ UNCHANGED <<lifecycle, caller, reset, secrets, token, late, listener, auxiliary, calls>>

ActivityEnds(g) ==
    /\ Runs(g, "activity") /\ gens[g].cancelled
    /\ hooked' = HookAfterFinish(g)
    /\ gens' = [gens EXCEPT ![g] = [FinishSessions(g) EXCEPT !.live = @ \ {"activity"}]]
    /\ UNCHANGED <<lifecycle, caller, reset, secrets, token, late, listener, auxiliary, calls>>

HelpersEnd(g) ==
    /\ Runs(g, "helpers") /\ gens[g].cancelled
    /\ gens' = Exits(g, "helpers")
    /\ UNCHANGED <<lifecycle, caller, reset, secrets, token, hooked, late, listener, auxiliary, calls>>

\* startBrowserPresenceACK, called by the poll for a settings update.
StartPresence(g) ==
    /\ Runs(g, "poll") /\ gens[g].poll = "open" /\ ~Runs(g, "presence")
    /\ lifecycle = g /\ gens[g].state = "running" /\ ~gens[g].cancelled
    /\ gens' = [gens EXCEPT ![g].live = @ \cup {"presence"}]
    /\ UNCHANGED <<lifecycle, caller, reset, secrets, token, hooked, late, listener, auxiliary, calls>>

PresenceEnds(g) ==
    /\ Runs(g, "presence")
    /\ gens' = Exits(g, "presence")
    /\ UNCHANGED <<lifecycle, caller, reset, secrets, token, hooked, late, listener, auxiliary, calls>>

\* The waiter: every goroutine has returned.
GenerationDone(g) ==
    /\ gens[g].started /\ ~gens[g].done /\ gens[g].live = {}
    /\ gens' = [gens EXCEPT ![g].state = "stopping", ![g].done = TRUE, ![g].poll = "new"]
    /\ lifecycle' = IF lifecycle = g THEN 0 ELSE lifecycle
    /\ UNCHANGED <<caller, reset, secrets, token, hooked, late, listener, auxiliary, calls>>

\* The context Connect was called with ends.
ContextEnds(g) ==
    /\ ~gens[g].cancelled
    /\ gens' = [gens EXCEPT ![g].cancelled = TRUE]
    /\ UNCHANGED <<lifecycle, caller, reset, secrets, token, hooked, late, listener, auxiliary, calls>>

----------------------------------------------------------------------------
(* DisconnectContext and ClearSessionSecrets *)

Disconnect(p) ==
    /\ Calls(p)
    /\ MoveTo(p, "cancel")
    /\ UNCHANGED <<lifecycle, gens, reset, secrets, token, hooked, late, listener, auxiliary>>

\* beginCredentialReset, then the same Disconnect without a deadline.
ClearSessionSecrets(p) ==
    /\ Calls(p) /\ reset = NoCaller
    /\ reset' = p
    /\ MoveTo(p, "cancel")
    /\ UNCHANGED <<lifecycle, gens, secrets, token, hooked, late, listener, auxiliary>>

CancelGeneration(p) ==
    /\ At(p, "cancel")
    /\ gens' = IF lifecycle = 0 THEN gens
              ELSE [gens EXCEPT ![lifecycle].state = "stopping", ![lifecycle].cancelled = TRUE]
    /\ MoveFor(p, "close", lifecycle)
    /\ UNCHANGED <<lifecycle, reset, secrets, token, hooked, late, listener, auxiliary, calls>>

ClosePolling(p) ==
    /\ At(p, "close")
    /\ auxiliary' = IF auxiliary.on THEN [auxiliary EXCEPT !.allow = FALSE, !.cancelled = TRUE]
                    ELSE auxiliary
    /\ listener' = Nobody
    /\ caller' = [caller EXCEPT ![p].at = "joinAll", ![p].aux = auxiliary.on]
    /\ UNCHANGED <<lifecycle, gens, reset, secrets, token, hooked, late, calls>>

Joined(p) == (Mine(p) # 0 => gens[Mine(p)].done) /\ (caller[p].aux => ~auxiliary.on)

DisconnectReturns(p) ==
    /\ At(p, "joinAll") /\ Joined(p)
    /\ MoveTo(p, IF reset = p THEN "clear" ELSE "idle")
    /\ UNCHANGED <<lifecycle, gens, reset, secrets, token, hooked, late, listener, auxiliary, calls>>

SecretsCleared(p) ==
    /\ At(p, "clear")
    /\ secrets' = FALSE /\ reset' = NoCaller
    /\ MoveTo(p, "idle")
    /\ UNCHANGED <<lifecycle, gens, token, hooked, late, listener, auxiliary, calls>>

\* The caller's own context ends while it waits.
WaitAborted(p) ==
    /\ caller[p].at \in {"joinAux", "joinStart", "joinDone"} \/ (At(p, "joinAll") /\ reset # p)
    /\ MoveTo(p, "idle")
    /\ UNCHANGED <<lifecycle, gens, reset, secrets, token, hooked, late, listener, auxiliary, calls>>

----------------------------------------------------------------------------
(* The auxiliary long poll of a pairing; one per behaviour. *)

StartAuxiliary ==
    /\ auxiliary.phase = "none"
    /\ auxiliary' = [on |-> TRUE, phase |-> "polling", allow |-> TRUE, cancelled |-> FALSE,
                     reconnect |-> FALSE]
    /\ listener' = Aux
    /\ UNCHANGED <<lifecycle, gens, caller, reset, secrets, token, hooked, late, calls>>

\* A successful pairing stores the credentials and asks for a reconnect.
PairSucceeds ==
    /\ auxiliary.phase = "polling" /\ listener = Aux
    /\ secrets' = TRUE
    /\ auxiliary' = [auxiliary EXCEPT !.phase = IF auxiliary.allow THEN "delay" ELSE "polling"]
    /\ UNCHANGED <<lifecycle, gens, caller, reset, token, hooked, late, listener, calls>>

ReconnectTimer ==
    /\ auxiliary.phase = "delay"
    /\ auxiliary' = [auxiliary EXCEPT !.phase = "closing", !.reconnect = auxiliary.allow,
                                      !.cancelled = TRUE]
    /\ listener' = Nobody
    /\ UNCHANGED <<lifecycle, gens, caller, reset, secrets, token, hooked, late, calls>>

\* The poll ends by itself, or its context ends.
AuxiliaryStops ==
    /\ auxiliary.phase \in {"polling", "delay"}
    /\ auxiliary' = [auxiliary EXCEPT !.phase = "closing"]
    /\ listener' = IF auxiliary.cancelled THEN Nobody ELSE listener
    /\ UNCHANGED <<lifecycle, gens, caller, reset, secrets, token, hooked, late, calls>>

AuxiliaryDone ==
    /\ auxiliary.phase = "closing"
    /\ auxiliary' = [auxiliary EXCEPT !.phase = "gone", !.on = FALSE]
    /\ IF auxiliary.reconnect /\ auxiliary.allow THEN MoveTo(AuxCaller, "stopAux") ELSE UNCHANGED caller
    /\ UNCHANGED <<lifecycle, gens, reset, secrets, token, hooked, late, listener, calls>>

----------------------------------------------------------------------------
ClientInit ==
    /\ lifecycle = 0 /\ gens = <<>>
    /\ caller = [p \in Callers |-> IdleCall]
    /\ reset = NoCaller /\ secrets \in BOOLEAN
    /\ token = 0 /\ hooked = 0 /\ late = 0 /\ calls = 0
    /\ listener = Nobody
    /\ auxiliary = [on |-> FALSE, phase |-> "none", allow |-> FALSE, cancelled |-> FALSE,
                    reconnect |-> FALSE]

ConnectStep(p) ==
    \/ StopAuxiliary(p) \/ JoinAuxiliary(p) \/ Choose(p) \/ JoinStarted(p) \/ JoinDone(p)
    \/ Validate(p) \/ Refresh(p) \/ EmitRefreshed(p) \/ Launch(p) \/ AnnounceReady(p) \/ FailStart(p)

DisconnectStep(p) ==
    \/ CancelGeneration(p) \/ ClosePolling(p) \/ DisconnectReturns(p) \/ SecretsCleared(p)

WorkerStep(g) ==
    \/ PollStarts(g) \/ PollRefreshed(g) \/ PollEmits(g) \/ PollEnds(g)
    \/ SessionHook(g) \/ ActivityEnds(g) \/ HelpersEnd(g) \/ PresenceEnds(g)
    \/ GenerationDone(g)

AuxiliaryStep == ReconnectTimer \/ AuxiliaryStops \/ AuxiliaryDone

ClientNext ==
    \/ \E p \in Callers : \/ Connect(p) \/ Disconnect(p) \/ ClearSessionSecrets(p)
                          \/ ConnectStep(p) \/ DisconnectStep(p) \/ WaitAborted(p)
    \/ \E g \in Generations : \/ WorkerStep(g) \/ PollRefreshes(g) \/ PollOpens(g)
                              \/ StartPresence(g) \/ ContextEnds(g)
    \/ StartAuxiliary \/ PairSucceeds \/ AuxiliaryStep

\* Goroutines are scheduled, requests are bounded by their contexts, timers fire.
ClientFairness ==
    /\ \A p \in Callers : WF_lifecycleVars(ConnectStep(p)) /\ WF_lifecycleVars(DisconnectStep(p))
    /\ \A g \in 1..MaxGenerations : WF_lifecycleVars(g \in Generations /\ WorkerStep(g))
    /\ WF_lifecycleVars(AuxiliaryStep)

ClientSpec == ClientInit /\ [][ClientNext]_lifecycleVars /\ ClientFairness

----------------------------------------------------------------------------
Starting(g) == \E p \in Callers : Mine(p) = g /\ caller[p].at \in {"refresh", "emit", "launch", "announce"}
Working(g) == gens[g].live # {} \/ Starting(g)

Emitting ==
    \/ \E p \in Callers : At(p, "emit")
    \/ \E g \in Generations : Runs(g, "poll") /\ gens[g].poll = "emit"

\* At most one generation is ever at work - a stopped one is joined before the
\* next is created - and none works while the session's secrets are gone, in
\* whatever order Connect, Disconnect, ClearSessionSecrets and the reconnect of
\* a pairing interleave (lifecycle.go ConnectContext, client.go ClearSessionSecrets).
\* And a refreshed token reaches the session-change hook, which persists it: while
\* the hook has not read it, the change is being emitted or is signalled in a
\* generation that is not done.  Only a change emitted after the generation was
\* cancelled may be dropped (lifecycle.go emitLifecycleActivity,
\* finishLifecycleSessions).
WorkersOwnSession ==
    /\ \A g, h \in Generations : Working(g) /\ Working(h) => g = h
    /\ ~secrets => \A g \in Generations : ~Working(g)
    /\ token > hooked =>
         Emitting \/ late = token \/ \E g \in Generations : gens[g].signal /\ ~gens[g].done

\* A Disconnect without a deadline returns: the reset of the credentials never
\* waits on a goroutine that waits on it (lifecycle.go DisconnectContext).
ResetReturns == (reset # NoCaller) ~> (reset = NoCaller)
=============================================================================
