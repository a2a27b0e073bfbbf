--------------------------- MODULE OutboundDispatch ---------------------------
(***************************************************************************)
(* Outbound dispatch of one connection: the submission API inserts queued  *)
(* messages; in every gateway process the supervisor lists the lanes with  *)
(* queued work and runs messaging.Dispatcher.DispatchLane on each; the     *)
(* Postgres store serialises lanes with claims, lane tokens and attempts,  *)
(* fenced by the connection lease; the send itself runs as an operation of *)
(* the connection's actor; provider status evidence comes back through the *)
(* ingress and may overtake the dispatcher's own completion.               *)
(*                                                                         *)
(* Each store operation is one transaction that first locks the connection *)
(* row, so it is one action.  Between two of them a process may pause,     *)
(* lose its lease or die.  A message is a natural number: its position in  *)
(* the (created_at, message_id) order the claim query sorts by.  Creation  *)
(* times are taken before the insert commits, so messages may appear in    *)
(* any order.                                                              *)
(***************************************************************************)
EXTENDS ConnectionLease, MessageState

\* MapProviderMessageState of the outgoing statuses; "" is a status without a
\* normalised state.
EvidenceStates == {"", "sent", "delivered", "read", "failed"}

CONSTANTS Messages,   \* ranks of outbound messages in creation order
          Lanes,      \* ordering keys of the connection
          LaneOf,     \* ordering key of each message
          NoMessage,  \* the SQL NULL of claimed_message_id
          Evidence,   \* provider statuses that come back
          MaxClaims,  \* bound on lane_token
          MaxFaults   \* bound on crashes, pauses, refusals and lost replies

ASSUME DispatchAssumption ==
    /\ Messages \subseteq Nat
    /\ LaneOf \in [Messages -> Lanes]
    /\ NoMessage \notin Messages
    /\ Evidence \subseteq EvidenceStates
    /\ MaxClaims \in Nat
    /\ MaxFaults \in Nat

VARIABLES st,       \* messages.current_state ("" : no such row)
          derived,  \* fold of message_status_history
          lane,     \* message_lanes
          att,      \* message_attempts, by lane and lane_token
          disp,     \* the DispatchLane call of each process and lane
          op,       \* the actor operation run for each attempt
          tomb,     \* processes whose pool keeps a join-timeout tombstone
          sends,    \* SendMessage requests put on the wire, per message
          faults    \* faults so far

storeVars == <<st, derived, lane, att>>
dispatchVars == <<st, derived, lane, att, disp>>
providerVars == <<op, tomb, sends>>
vars == <<lease, held, st, derived, lane, att, disp, op, tomb, sends, faults>>

-----------------------------------------------------------------------------
Claims == 1..MaxClaims
OpenPhases == {"claimed", "provider_io_started"}

LaneRow == [owner : Owners \cup {NoOwner}, token : 0..MaxClaims,
            msg : Messages \cup {NoMessage}, live : BOOLEAN]

\* io is provider_io_started_at IS NOT NULL: it survives completion.
AttemptRow == [msg : Messages \cup {NoMessage}, owner : Owners \cup {NoOwner},
               fence : 0..MaxToken, phase : {"none", "complete"} \cup OpenPhases,
               io : BOOLEAN]

\* A DispatchLane call: where it is, its DispatchClaim, and the outcome it
\* will report.  outcome is "uncertain" as soon as a renewal is refused.
CallPoints == {"idle", "listed", "claimed", "releasing", "sending",
               "responding", "completing"}
Outcomes == {"none", "accepted", "rejected", "uncertain"}

DispatchCall == [pc : CallPoints, msg : Messages \cup {NoMessage},
                 token : 0..MaxClaims, fence : 0..MaxToken, outcome : Outcomes]

\* The goroutine of an actor operation.  running: before SendMessage; sent:
\* SendMessage is out, the answer is awaited; stray: running, but its
\* generation ended without joining it.
OperationPhases == {"none", "running", "sent", "stray", "ended"}
LivePhases == {"running", "sent"}

FreeLane(t) == [owner |-> NoOwner, token |-> t, msg |-> NoMessage, live |-> FALSE]
NoAttempt == [msg |-> NoMessage, owner |-> NoOwner, fence |-> 0,
              phase |-> "none", io |-> FALSE]
Idle == [pc |-> "idle", msg |-> NoMessage, token |-> 0, fence |-> 0,
         outcome |-> "none"]

TypeOK ==
    /\ LeaseTypeOK
    /\ st \in [Messages -> MessageStates \cup {""}]
    /\ derived \in [Messages -> MessageStates \cup {""}]
    /\ lane \in [Lanes -> LaneRow]
    /\ att \in [Lanes -> [Claims -> AttemptRow]]
    /\ disp \in [Owners -> [Lanes -> DispatchCall]]
    /\ op \in [Lanes -> [Claims -> OperationPhases]]
    /\ tomb \in [Owners -> BOOLEAN]
    /\ sends \in [Messages -> Nat]
    /\ faults \in 0..MaxFaults

Init ==
    /\ LeaseInit
    /\ st = [m \in Messages |-> ""]
    /\ derived = [m \in Messages |-> ""]
    /\ lane = [l \in Lanes |-> FreeLane(0)]
    /\ att = [l \in Lanes |-> [t \in Claims |-> NoAttempt]]
    /\ disp = [o \in Owners |-> [l \in Lanes |-> Idle]]
    /\ op = [l \in Lanes |-> [t \in Claims |-> "none"]]
    /\ tomb = [o \in Owners |-> FALSE]
    /\ sends = [m \in Messages |-> 0]
    /\ faults = 0

Fault == faults < MaxFaults /\ faults' = faults + 1

-----------------------------------------------------------------------------
(* Submission: CreateOutbound commits the queued message, its lane and its
   first status. *)
CreateOutbound(m) ==
    /\ st[m] = ""
    /\ st' = [st EXCEPT ![m] = "queued"]
    /\ derived' = [derived EXCEPT ![m] = "queued"]
    /\ UNCHANGED <<lease, held, lane, att, disp, providerVars, faults>>

(* Mutant: a lane is listed only while nothing of it is in flight. *)
LaneListedWhenQuiet(l) ==
    /\ \E m \in Messages : LaneOf[m] = l /\ st[m] = "queued"
    /\ \A m \in Messages : LaneOf[m] = l => st[m] # "dispatching"

(* listQueuedDispatchLanes: a lane is work while it has a queued message. *)
LaneListed(l) == \E m \in Messages : LaneOf[m] = l /\ st[m] = "queued"

(* Supervisor.dispatch hands a listed lane to a worker, which goes on once the
   connection's actor is ready.  Both are snapshots: the claim runs later. *)
ListLane(o, l) ==
    /\ disp[o][l].pc = "idle"
    /\ LaneListed(l)
    /\ held[o] # 0
    /\ disp' = [disp EXCEPT ![o][l].pc = "listed"]
    /\ UNCHANGED <<lease, held, storeVars, providerVars, faults>>

-----------------------------------------------------------------------------
(* ClaimNext: owner and expiry of the lease are checked, not the token, which
   the new attempt copies from the row. *)
LeaseAdmitsClaim(o) == lease.owner = o /\ lease.live

LaneTakeable(l) == lane[l].owner = NoOwner \/ ~lane[l].live

CanClaim(o, l) == LeaseAdmitsClaim(o) /\ LaneTakeable(l)

(* Mutant: an attempt that started provider I/O does not count as open. *)
LaneHasClaimedAttempt(l) ==
    /\ lane[l].msg # NoMessage
    /\ lane[l].token \in Claims
    /\ att[l][lane[l].token].msg = lane[l].msg
    /\ att[l][lane[l].token].phase = "claimed"

(* locked_attempt: the open attempt of the claim recorded in the lane. *)
LaneHasOpenAttempt(l) ==
    /\ lane[l].msg # NoMessage
    /\ lane[l].token \in Claims
    /\ att[l][lane[l].token].msg = lane[l].msg
    /\ att[l][lane[l].token].phase \in OpenPhases

(* Mutant: an attempt whose provider I/O had started is requeued. *)
RecoveredStateRequeues(phase) == "queued"

(* recovered_message: only an attempt that never reached provider I/O may be
   tried again. *)
RecoveredState(phase) == IF phase = "claimed" THEN "queued" ELSE "uncertain"

(* Mutant: recovery does not look at the state the message is in by now. *)
RecoverableAlways(m) == TRUE

(* locked_message *)
Recoverable(m) == st[m] = "dispatching"

(* The recovery branch.  The lane is freed in any case; the message and the
   attempt change only while the message is still dispatching. *)
RecoverLane(l) ==
    LET t == lane[l].token
        m == lane[l].msg
        s == RecoveredState(att[l][t].phase)
    IN  /\ lane' = [lane EXCEPT ![l] = FreeLane(t)]
        /\ IF Recoverable(m)
           THEN /\ st' = [st EXCEPT ![m] = s]
                /\ derived' = [derived EXCEPT ![m] = Observe(@, s)]
                /\ att' = [att EXCEPT ![l][t].phase = "complete"]
           ELSE UNCHANGED <<st, derived, att>>

(* Mutant: uncertain messages are candidates again. *)
OldestOrUncertain(l, m) ==
    /\ LaneOf[m] = l
    /\ st[m] \in {"queued", "uncertain"}
    /\ \A n \in Messages : LaneOf[n] = l /\ st[n] \in {"queued", "uncertain"} => m <= n

(* candidate: the oldest queued message of the lane. *)
Oldest(l, m) ==
    /\ LaneOf[m] = l
    /\ st[m] = "queued"
    /\ \A n \in Messages : LaneOf[n] = l /\ st[n] = "queued" => m <= n

(* The claim branch: lane, message, attempt and status in one statement. *)
TakeLane(o, l, m) ==
    LET t == lane[l].token + 1
    IN  /\ Oldest(l, m)
        /\ t \in Claims
        /\ lane' = [lane EXCEPT ![l] = [owner |-> o, token |-> t, msg |-> m,
                                        live |-> TRUE]]
        /\ st' = [st EXCEPT ![m] = "dispatching"]
        /\ derived' = [derived EXCEPT ![m] = Observe(@, "dispatching")]
        /\ att' = [att EXCEPT ![l][t] = [msg |-> m, owner |-> o,
                        fence |-> lease.token, phase |-> "claimed", io |-> FALSE]]

ClaimNext(o, l) ==
    /\ disp[o][l].pc = "listed"
    /\ \/ /\ CanClaim(o, l)
          /\ LaneHasOpenAttempt(l)
          /\ RecoverLane(l)
          /\ disp' = [disp EXCEPT ![o][l] = Idle]
       \/ /\ CanClaim(o, l)
          /\ ~LaneHasOpenAttempt(l)
          /\ \E m \in Messages :
                /\ TakeLane(o, l, m)
                /\ disp' = [disp EXCEPT ![o][l] =
                        [pc |-> "claimed", msg |-> m, token |-> lane[l].token + 1,
                         fence |-> lease.token, outcome |-> "none"]]
       \/ /\ \/ ~CanClaim(o, l)
             \/ ~LaneHasOpenAttempt(l) /\ ~LaneListed(l)
          /\ disp' = [disp EXCEPT ![o][l] = Idle]
          /\ UNCHANGED storeVars
    /\ UNCHANGED <<lease, held, providerVars, faults>>

(* ClaimNext returns an error: nobody knows the claim if it did commit. *)
ClaimNextFails(o, l) ==
    /\ disp[o][l].pc = "listed"
    /\ Fault
    /\ \/ CanClaim(o, l) /\ LaneHasOpenAttempt(l) /\ RecoverLane(l)
       \/ /\ CanClaim(o, l)
          /\ ~LaneHasOpenAttempt(l)
          /\ \E m \in Messages : TakeLane(o, l, m)
       \/ UNCHANGED storeVars
    /\ disp' = [disp EXCEPT ![o][l] = Idle]
    /\ UNCHANGED <<lease, held, providerVars>>

-----------------------------------------------------------------------------
(* The rows a fenced dispatch operation locks: the lane and the attempt of
   this very claim, in the given phase, with the message dispatching. *)
ClaimRowsMatch(o, l, phase) ==
    LET c == disp[o][l]
    IN  /\ lane[l].owner = o
        /\ lane[l].token = c.token
        /\ lane[l].msg = c.msg
        /\ att[l][c.token].msg = c.msg
        /\ att[l][c.token].owner = o
        /\ att[l][c.token].fence = c.fence
        /\ att[l][c.token].phase = phase
        /\ st[c.msg] = "dispatching"

(* The fence of BeginProviderIO, RenewProviderIO and ReleaseBeforeDispatch. *)
FencedClaim(o, l, phase) ==
    /\ lease.owner = o
    /\ lease.token = disp[o][l].fence
    /\ lease.live
    /\ lane[l].live
    /\ ClaimRowsMatch(o, l, phase)

(* The fence of CompleteDispatch checks neither expiry: a late completion is
   accepted as long as nobody took the connection or the lane over. *)
CompletionFence(o, l) ==
    /\ lease.owner = o
    /\ lease.token = disp[o][l].fence
    /\ ClaimRowsMatch(o, l, "provider_io_started")

StartIO(o, l) ==
    att' = [att EXCEPT ![l][disp[o][l].token] =
                [@ EXCEPT !.phase = "provider_io_started", !.io = TRUE]]

(* BeginProviderIO answers: I/O may start, or the claim must be released. *)
BeginProviderIO(o, l) ==
    /\ disp[o][l].pc = "claimed"
    /\ \/ /\ FencedClaim(o, l, "claimed")
          /\ StartIO(o, l)
          /\ disp' = [disp EXCEPT ![o][l].pc = "sending"]
       \/ /\ ~FencedClaim(o, l, "claimed")
          /\ disp' = [disp EXCEPT ![o][l].pc = "releasing"]
          /\ UNCHANGED att
    /\ UNCHANGED <<lease, held, st, derived, lane, providerVars, faults>>

(* BeginProviderIO returns an error, its transaction committed or not: the
   dispatcher releases the claim and does not send. *)
BeginProviderIOFails(o, l) ==
    /\ disp[o][l].pc = "claimed"
    /\ Fault
    /\ \/ FencedClaim(o, l, "claimed") /\ StartIO(o, l)
       \/ UNCHANGED att
    /\ disp' = [disp EXCEPT ![o][l].pc = "releasing"]
    /\ UNCHANGED <<lease, held, st, derived, lane, providerVars>>

(* The attempt is completed and the lane released. *)
FinishClaim(l, t) ==
    /\ att' = [att EXCEPT ![l][t].phase = "complete"]
    /\ lane' = [lane EXCEPT ![l] = FreeLane(t)]

(* ReleaseBeforeDispatch: back to queued if the claim is still fenced and has
   not begun I/O, otherwise ErrDispatchFenceLost and no change. *)
ReleaseBeforeDispatch(o, l) ==
    LET c == disp[o][l]
    IN  /\ c.pc = "releasing"
        /\ IF FencedClaim(o, l, "claimed")
           THEN /\ st' = [st EXCEPT ![c.msg] = "queued"]
                /\ derived' = [derived EXCEPT ![c.msg] = Observe(@, "queued")]
                /\ FinishClaim(l, c.token)
           ELSE UNCHANGED storeVars
        /\ disp' = [disp EXCEPT ![o][l] = Idle]
        /\ UNCHANGED <<lease, held, providerVars, faults>>

(* The release or the completion times out without committing. *)
FinishFails(o, l) ==
    /\ disp[o][l].pc \in {"releasing", "completing"}
    /\ Fault
    /\ disp' = [disp EXCEPT ![o][l] = Idle]
    /\ UNCHANGED <<lease, held, storeVars, providerVars>>

-----------------------------------------------------------------------------
OperationsOf(o) == {x \in Lanes \X Claims : att[x[1]][x[2]].owner = o}

(* Execute: a ready generation takes the request when it runs no other
   operation; SendOnce goes on only in the generation the claim was fenced
   with. *)
OperationStarts(o, l) ==
    /\ disp[o][l].pc = "sending"
    /\ held[o] # 0
    /\ held[o] = disp[o][l].fence
    /\ \A x \in OperationsOf(o) : op[x[1]][x[2]] \notin LivePhases
    /\ op' = [op EXCEPT ![l][disp[o][l].token] = "running"]
    /\ disp' = [disp EXCEPT ![o][l].pc = "responding"]
    /\ UNCHANGED <<lease, held, storeVars, tomb, sends, faults>>

(* SendOnce returns an error without an operation having run: the actor is not
   available or of another generation, or the call was cancelled. *)
SendNotStarted(o, l) ==
    /\ disp[o][l].pc = "sending"
    /\ disp' = [disp EXCEPT ![o][l] =
                    [@ EXCEPT !.pc = "completing", !.outcome = "uncertain"]]
    /\ UNCHANGED <<lease, held, storeVars, providerVars, faults>>

(* The operation puts its one SendMessage on the wire, even when nobody waits
   for it any more. *)
ProviderSend(l, t) ==
    /\ op[l][t] \in {"running", "stray"}
    /\ op' = [op EXCEPT ![l][t] = IF @ = "running" THEN "sent" ELSE "ended"]
    /\ sends' = [sends EXCEPT ![att[l][t].msg] = @ + 1]
    /\ UNCHANGED <<lease, held, storeVars, disp, tomb, faults>>

(* An operation nobody waits for ends. *)
OperationEnds(l, t) ==
    /\ op[l][t] \in LivePhases \cup {"stray"}
    /\ \A o \in Owners : disp[o][l].token = t => disp[o][l].pc # "responding"
    /\ op' = [op EXCEPT ![l][t] = "ended"]
    /\ UNCHANGED <<lease, held, storeVars, disp, tomb, sends, faults>>

\* A refused renewal decides the outcome whatever the send returns.
Reported(known, returned) == IF known = "uncertain" THEN known ELSE returned

(* SendOnce returns.  With the provider's answer: SUCCESS, a FAILURE code, or
   anything else and errors.  Before SendMessage: route_mismatch or an error.
   Or Execute gives up on a cancelled call or an ended generation and leaves
   the operation behind. *)
SendReturns(o, l) ==
    LET t == disp[o][l].token
    IN  /\ disp[o][l].pc = "responding"
        /\ \E r \in {"accepted", "rejected", "uncertain"} :
              /\ \/ op[l][t] = "sent" /\ op' = [op EXCEPT ![l][t] = "ended"]
                 \/ /\ op[l][t] = "running"
                    /\ r # "accepted"
                    /\ op' = [op EXCEPT ![l][t] = "ended"]
                 \/ /\ r = "uncertain"
                    /\ disp[o][l].outcome = "uncertain" \/ op[l][t] \notin LivePhases
                    /\ UNCHANGED op
              /\ disp' = [disp EXCEPT ![o][l] =
                    [@ EXCEPT !.pc = "completing",
                              !.outcome = Reported(disp[o][l].outcome, r)]]
        /\ UNCHANGED <<lease, held, storeVars, tomb, sends, faults>>

(* RenewProviderIO while SendOnce runs: extends the claim, or cancels the
   send, which may already be on its way. *)
RenewProviderIO(o, l) ==
    /\ disp[o][l].pc \in {"sending", "responding"}
    /\ disp[o][l].outcome = "none"
    /\ IF FencedClaim(o, l, "provider_io_started")
       THEN UNCHANGED disp
       ELSE disp' = [disp EXCEPT ![o][l].outcome = "uncertain"]
    /\ UNCHANGED <<lease, held, storeVars, providerVars, faults>>

(* RenewProviderIO returns an error (also when it is cancelled by SendOnce
   returning). *)
RenewProviderIOFails(o, l) ==
    /\ disp[o][l].pc \in {"sending", "responding"}
    /\ disp[o][l].outcome = "none"
    /\ Fault
    /\ disp' = [disp EXCEPT ![o][l].outcome = "uncertain"]
    /\ UNCHANGED <<lease, held, storeVars, providerVars>>

(* Mutant: the provider's outcome is stored without normalising it. *)
CompletedVerbatim(current, outcome) == outcome

(* Mutant: an ambiguous outcome is written over whatever is there. *)
CompletedBlindly(current, outcome) ==
    CASE outcome = "accepted" -> "awaiting_phone"
      [] outcome = "rejected" -> "failed"
      [] OTHER                -> "queued"

(* The states DispatchLane reports for an outcome, folded onto the current
   one: provider_accepted is followed at once by awaiting_phone. *)
Completed(current, outcome) ==
    CASE outcome = "accepted" -> Observe(Observe(current, "provider_accepted"),
                                         "awaiting_phone")
      [] outcome = "rejected" -> Observe(current, "failed")
      [] OTHER                -> Observe(current, "uncertain")

CompleteDispatch(o, l) ==
    LET c == disp[o][l]
    IN  /\ c.pc = "completing"
        /\ IF CompletionFence(o, l)
           THEN /\ st' = [st EXCEPT ![c.msg] = Completed(@, c.outcome)]
                /\ derived' = [derived EXCEPT ![c.msg] = Completed(@, c.outcome)]
                /\ FinishClaim(l, c.token)
           ELSE UNCHANGED storeVars
        /\ disp' = [disp EXCEPT ![o][l] = Idle]
        /\ UNCHANGED <<lease, held, providerVars, faults>>

-----------------------------------------------------------------------------
(* CommitEnvelope reconciles provider evidence on a message the provider
   knows: under the generation's fence the state becomes the fold of the
   whole history. *)
ProjectProviderStatus(o, m, s) ==
    LET d == IF s = "" THEN derived[m] ELSE Observe(derived[m], s)
    IN  /\ sends[m] > 0
        /\ OwnsLease(o)
        /\ st' = [st EXCEPT ![m] = d]
        /\ derived' = [derived EXCEPT ![m] = d]
        /\ UNCHANGED <<lease, held, lane, att, disp, providerVars, faults>>

-----------------------------------------------------------------------------
(* The actor of the connection, as far as dispatch depends on it: leases and
   claims lapse on their own once nobody keeps them up; while someone does,
   that takes a fault. *)
LeaseKept == \E o \in Owners : OwnsLease(o)
ClaimKept(l) ==
    \E o \in Owners : /\ lane[l].owner = o
                      /\ lane[l].token = disp[o][l].token
                      /\ disp[o][l].pc # "idle"

(* Pool.Start, unless it keeps a join-timeout tombstone for the connection. *)
StartActor(o) ==
    /\ ~tomb[o]
    /\ AcquireConnectionLease(o)
    /\ UNCHANGED <<dispatchVars, providerVars, faults>>

Unjoined(o) == {x \in OperationsOf(o) : op[x[1]][x[2]] \in LivePhases}

(* Operations the ended generation of o leaves behind. *)
Abandoned(o) ==
    [l \in Lanes |-> [t \in Claims |->
        IF <<l, t>> \in Unjoined(o)
        THEN IF op[l][t] = "running" THEN "stray" ELSE "ended"
        ELSE op[l][t]]]

(* The generation's teardown.  Either its operation has ended, or the join
   timed out: the operation is left behind and the pool keeps a tombstone. *)
JoinOperations(o) ==
    /\ op' = Abandoned(o)
    /\ tomb' = [tomb EXCEPT ![o] = @ \/ Unjoined(o) # {}]

(* A generation ends for a reason of its own and releases the lease. *)
StopActor(o) ==
    /\ ReleaseConnectionLease(o) \/ ReleaseLost(o)
    /\ JoinOperations(o)
    /\ Fault
    /\ UNCHANGED <<dispatchVars, sends>>

(* A generation ends because its renewal is refused. *)
ActorLosesLease(o) ==
    /\ RenewRefused(o)
    /\ JoinOperations(o)
    /\ UNCHANGED <<dispatchVars, sends, faults>>

FenceActor ==
    /\ FenceConnectionLease
    /\ Fault
    /\ UNCHANGED <<dispatchVars, providerVars>>

(* expires_at passes, with nobody renewing the lease or in spite of it. *)
LeaseExpires ==
    /\ ~LeaseKept
    /\ LeaseLapses
    /\ UNCHANGED <<dispatchVars, providerVars, faults>>

LeaseExpiresEarly ==
    /\ LeaseKept
    /\ Fault
    /\ LeaseLapses
    /\ UNCHANGED <<dispatchVars, providerVars>>

(* claim_expires_at passes. *)
ClaimLapses(l) ==
    /\ lane[l].live
    /\ lane' = [lane EXCEPT ![l].live = FALSE]
    /\ UNCHANGED <<lease, held, st, derived, att, disp, providerVars>>

ClaimExpires(l) == ~ClaimKept(l) /\ ClaimLapses(l) /\ UNCHANGED faults

ClaimExpiresEarly(l) == ClaimKept(l) /\ ClaimLapses(l) /\ Fault

(* The process dies and is restarted under the same owner id. *)
Crash(o) ==
    /\ Fault
    /\ held' = [held EXCEPT ![o] = 0]
    /\ disp' = [disp EXCEPT ![o] = [l \in Lanes |-> Idle]]
    /\ op' = [l \in Lanes |-> [t \in Claims |->
                IF <<l, t>> \in OperationsOf(o) /\ op[l][t] # "none"
                THEN "ended" ELSE op[l][t]]]
    /\ tomb' = [tomb EXCEPT ![o] = FALSE]
    /\ UNCHANGED <<lease, storeVars, sends>>

-----------------------------------------------------------------------------
DispatchStep(o, l) ==
    \/ ListLane(o, l)
    \/ ClaimNext(o, l)
    \/ BeginProviderIO(o, l)
    \/ ReleaseBeforeDispatch(o, l)
    \/ OperationStarts(o, l)
    \/ SendNotStarted(o, l)
    \/ SendReturns(o, l)
    \/ CompleteDispatch(o, l)

DispatchFault(o, l) ==
    \/ ClaimNextFails(o, l)
    \/ BeginProviderIOFails(o, l)
    \/ RenewProviderIOFails(o, l)
    \/ FinishFails(o, l)

Next ==
    \/ \E m \in Messages : CreateOutbound(m)
    \/ \E o \in Owners, l \in Lanes :
          \/ DispatchStep(o, l)
          \/ RenewProviderIO(o, l)
          \/ DispatchFault(o, l)
    \/ \E l \in Lanes, t \in Claims : ProviderSend(l, t) \/ OperationEnds(l, t)
    \/ \E o \in Owners, m \in Messages, s \in Evidence :
          ProjectProviderStatus(o, m, s)
    \/ \E o \in Owners : \/ StartActor(o)
                         \/ StopActor(o)
                         \/ ActorLosesLease(o)
                         \/ Crash(o)
    \/ FenceActor
    \/ LeaseExpires
    \/ LeaseExpiresEarly
    \/ \E l \in Lanes : ClaimExpires(l) \/ ClaimExpiresEarly(l)

Spec == Init /\ [][Next]_vars

(* The supervisor polls for ever, every started step of a DispatchLane call
   ends (calls carry timeouts), a gateway process that runs no actor tries to
   start one, a refused renewal stops it, and abandoned leases and claims pass
   their expiry.  No fairness for submissions, faults, sends or provider
   evidence. *)
Fairness ==
    /\ \A o \in Owners, l \in Lanes : WF_vars(DispatchStep(o, l))
    /\ \A l \in Lanes, t \in Claims : WF_vars(OperationEnds(l, t))
    /\ \A o \in Owners : WF_vars(StartActor(o)) /\ WF_vars(ActorLosesLease(o))
    /\ WF_vars(LeaseExpires)
    /\ \A l \in Lanes : WF_vars(ClaimExpires(l))

FairSpec == Spec /\ Fairness

-----------------------------------------------------------------------------
(* No message is put on the wire twice, whatever crashes, lapses, lost replies
   and stray operations do: BeginProviderIO rechecks the claim before "the one
   permitted send attempt" and recovery never requeues an attempt that got
   past it. *)
AtMostOneSend == \A m \in Messages : sends[m] <= 1

(* A message that reached the wire is never offered for dispatch again: it is
   not queued, and no process holds a claim on it that has yet to begin. *)
WireIsFinal ==
    \A m \in Messages : sends[m] > 0 =>
        /\ st[m] # "queued"
        /\ \A o \in Owners, l \in Lanes :
              disp[o][l].pc = "sending" => disp[o][l].msg # m

(* ClaimNext "serializes one in-flight message in the ordering lane": at most
   one message of a lane is dispatching, and it is the lane's claimed one. *)
LaneSerial ==
    \A l \in Lanes, m \in Messages :
        LaneOf[m] = l /\ st[m] = "dispatching" => lane[l].msg = m

(* A claimed lane always has an open attempt for exactly its message and token.
   The claim query releases a stale lane and takes it over in two updates of
   the same row; they cannot both fire while this holds. *)
ClaimedLaneHasOpenAttempt ==
    \A l \in Lanes : lane[l].msg # NoMessage => LaneHasOpenAttempt(l)

(* Dispatch and recovery write a state of their own, the ingress the fold of
   the history: they never disagree, except that a requeued message has
   already been dispatching. *)
StateIsDerived ==
    \A m \in Messages : \/ st[m] = derived[m]
                        \/ st[m] = "queued" /\ derived[m] = "dispatching"

\* The message has an attempt that began provider I/O.
Committed(m) == \E t \in Claims : att[LaneOf[m]][t].io /\ att[LaneOf[m]][t].msg = m

Promise == INSTANCE OutboundPromise
               WITH visible   <- st,
                    committed <- [m \in Messages |-> Committed(m)],
                    wired     <- [m \in Messages |-> sends[m] > 0]

(* Lanes, claims, leases, crashes and stray operations together keep what the
   submission API promises of each message on its own: one attempt, begun once
   and never put back, whose outcome is only ever refined ("Timed-out sends
   become uncertain; never blindly retry them"); evidence that the message left
   the phone is never taken back by a later completion, recovery or status. *)
KeepsPromise == Promise!Spec

(* While some process is not tombstoned for the connection, a queued message
   is eventually claimed for good: it does not stay, or go on becoming, queued
   for ever. *)
QueuedDrains ==
    \A m \in Messages :
        st[m] = "queued" ~> ([](st[m] # "queued") \/ \A o \in Owners : tomb[o])

(* "Timed-out sends become uncertain": a message that went on the wire does
   not stay dispatching for ever, whatever happens to its dispatcher. *)
TimedOutSendResolves ==
    \A m \in Messages :
        st[m] = "dispatching" /\ sends[m] > 0 ~> st[m] # "dispatching"

-----------------------------------------------------------------------------
(* The inductive invariant behind the safety properties, in named parts. *)

\* Attempts exist exactly for the lane tokens handed out, each for a message
\* of its lane; an operation runs only for an attempt that began I/O.
AttemptsRecorded ==
    \A l \in Lanes, t \in Claims :
        /\ t > lane[l].token => att[l][t] = NoAttempt
        /\ t <= lane[l].token => /\ att[l][t].msg \in Messages
                                 /\ LaneOf[att[l][t].msg] = l
        /\ op[l][t] # "none" => att[l][t].io

\* A DispatchLane call that holds a claim is the owner of that attempt.
CallsOwnAttempts ==
    \A o \in Owners, l \in Lanes :
        disp[o][l].pc \notin {"idle", "listed"} =>
            /\ disp[o][l].token \in 1..lane[l].token
            /\ att[l][disp[o][l].token].owner = o
            /\ att[l][disp[o][l].token].msg = disp[o][l].msg

\* An attempt that has not begun I/O is the lane's current claim, and its
\* message has no other attempt that did.
ClaimedIsCurrent ==
    \A l \in Lanes, t \in Claims :
        att[l][t].phase = "claimed" =>
            /\ t = lane[l].token
            /\ lane[l].msg = att[l][t].msg
            /\ st[att[l][t].msg] = "dispatching"
            /\ \A u \in Claims : att[l][u].io => att[l][u].msg # att[l][t].msg

\* A message begins I/O in at most one attempt, and is out of the queue for
\* good from then on.
IoOnce ==
    \A l \in Lanes, t \in Claims :
        att[l][t].io =>
            /\ st[att[l][t].msg] \notin {"", "queued"}
            /\ \A u \in Claims :
                  att[l][u].io /\ att[l][u].msg = att[l][t].msg => u = t

\* Whoever may still send has not sent, and whoever sent had begun I/O.
SendsAccounted ==
    /\ \A l \in Lanes, t \in Claims :
          op[l][t] \in {"running", "stray"} => sends[att[l][t].msg] = 0
    /\ \A o \in Owners, l \in Lanes :
          disp[o][l].pc = "sending" =>
              /\ att[l][disp[o][l].token].io
              /\ op[l][disp[o][l].token] = "none"
              /\ sends[disp[o][l].msg] = 0
    /\ \A m \in Messages : sends[m] > 0 => Committed(m)

(* What every transaction of the dispatch store and every step of a dispatcher
   preserves: it implies AtMostOneSend, WireIsFinal, LaneSerial,
   ClaimedLaneHasOpenAttempt and StateIsDerived. *)
DispatchInv ==
    /\ AttemptsRecorded
    /\ CallsOwnAttempts
    /\ ClaimedIsCurrent
    /\ IoOnce
    /\ SendsAccounted
    /\ AtMostOneSend
    /\ LaneSerial
    /\ ClaimedLaneHasOpenAttempt
    /\ StateIsDerived
=============================================================================
