------------------------------- MODULE Pairing -------------------------------
(***************************************************************************)
(* Pairing attempts for one connection: the attempts in the memory of      *)
(* several gateway processes (pairing/service.go), the connection row they *)
(* compete for (store/postgres/connections.go) and the handle of the       *)
(* provider's Google pairing (provider/gmessages/pairing.go,               *)
(* libgm/pair_google.go).                                                  *)
(*                                                                         *)
(* at[a] is where attempt a stands: idle (operationIdle), a call it waits  *)
(* for, or gone (out of byID and byKey).  Any operation but idle keeps     *)
(* every other operation of the attempt out.  Each repository call and     *)
(* each provider call returns in a step of its own; a repository call may  *)
(* fail, or take effect and lose its reply.                                *)
(***************************************************************************)
EXTENDS Naturals

CONSTANTS Attempts,     \* pairing IDs
          Gateways,     \* gateway processes, each with its pairing service
          NoAttempt,    \* pairing_attempt_id IS NULL, no session
          MaxFaults     \* bound on crashes and failed or unanswered repository calls

ASSUME PairingAssumption == NoAttempt \notin Attempts /\ MaxFaults \in Nat

VARIABLES conn,      \* the connections and connection_sessions rows
          at,        \* where each attempt stands
          attempt,   \* activeAttempt: process, state, handle, pending session, flags; and
                     \* what its Start has left to do after the discovery
          lastBegun, \* ghost: the attempt whose BeginPairing committed last
          orphans,   \* ghost: attempts whose process forgot them while the row names them
          faults

pairingVars == <<conn, at, attempt, lastBegun, orphans, faults>>

Restorable == {"unpaired", "reauthorization-required"}

PairingInit ==
    /\ conn = [state |-> "unpaired", prior |-> "unpaired", by |-> NoAttempt,
               fresh |-> FALSE, session |-> NoAttempt]
    /\ at = [a \in Attempts |-> "unborn"]
    /\ attempt = [a \in Attempts |-> [gateway |-> NoAttempt, state |-> "", handle |-> "none",
                                      pending |-> FALSE, cleanup |-> FALSE, expired |-> FALSE,
                                      start |-> "none"]]
    /\ lastBegun = NoAttempt
    /\ orphans = {}
    /\ faults = 0

Fault == faults < MaxFaults /\ faults' = faults + 1
NoFault == UNCHANGED faults

-----------------------------------------------------------------------------
(* The connection row *)

\* beginPairing takes a free connection, or one whose attempt is past its TTL.
Startable == conn.state \in Restorable \/ (conn.state = "pairing" /\ ~conn.fresh)
Begun(a) == [conn EXCEPT !.state = "pairing", !.by = a, !.fresh = TRUE,
                         !.prior = IF conn.state = "pairing" THEN conn.prior ELSE conn.state]

\* Mutant: the row is matched by its state only, not by the attempt.
OwnsRowAnyAttempt(a) == conn.state = "pairing"

\* restorePairing and commitConnectionState act for the attempt the row names.
OwnsRow(a) == conn.state = "pairing" /\ conn.by = a
Restored == [conn EXCEPT !.state = conn.prior, !.by = NoAttempt, !.fresh = FALSE]
Committed(a) == [conn EXCEPT !.state = "connected", !.by = NoAttempt, !.fresh = FALSE,
                             !.session = a]

PairingAges ==
    /\ conn.fresh
    /\ conn' = [conn EXCEPT !.fresh = FALSE]
    /\ UNCHANGED <<at, attempt, lastBegun, orphans, faults>>

ReconcileStalePairings ==
    /\ conn.state = "pairing" /\ ~conn.fresh
    /\ conn' = Restored
    /\ UNCHANGED <<at, attempt, lastBegun, orphans, faults>>

MarkReauthorizationRequired ==
    /\ conn.state = "connected"
    /\ conn' = [conn EXCEPT !.state = "reauthorization-required"]
    /\ UNCHANGED <<at, attempt, lastBegun, orphans, faults>>

-----------------------------------------------------------------------------
(* Start *)

Current(g) == {a \in Attempts : attempt[a].gateway = g /\ at[a] \notin {"unborn", "gone"}}

(* Start registers the attempt before it asks the row.  An attempt of this
   process that is expired or waits for its cleanup is finished first (Finish
   below); any other is ErrAttemptActive. *)
Start(a, g) ==
    /\ at[a] = "unborn"
    /\ Current(g) = {}
    /\ conn.state \in Restorable \cup {"pairing"}
    /\ at' = [at EXCEPT ![a] = "begin"]
    /\ attempt' = [attempt EXCEPT ![a].gateway = g]
    /\ UNCHANGED <<conn, lastBegun, orphans, faults>>

BeginPairing(a) ==
    /\ at[a] = "begin"
    /\ \/ Startable /\ at' = [at EXCEPT ![a] = "discover"] /\ conn' = Begun(a)
          /\ lastBegun' = a /\ UNCHANGED orphans /\ NoFault
       \/ ~Startable /\ at' = [at EXCEPT ![a] = "gone"]
          /\ UNCHANGED <<conn, lastBegun, orphans>> /\ NoFault
       \/ at' = [at EXCEPT ![a] = "gone"] /\ UNCHANGED <<conn, lastBegun, orphans>> /\ Fault
       \/ Startable /\ at' = [at EXCEPT ![a] = "gone"] /\ conn' = Begun(a)
          /\ lastBegun' = a /\ orphans' = orphans \cup {a} /\ Fault
    /\ UNCHANGED attempt

(* finishReserved: take the handle away and dispose of it, forget the sealed
   session, and go on to RestorePairing.  Failed, cancelled and expired are one
   state here: nothing reads which it is. *)
Finished(a) ==
    [attempt EXCEPT ![a].handle = "none", ![a].pending = FALSE, ![a].state = "ended",
                    ![a].cleanup = TRUE]
FinishReserved(a) ==
    /\ at' = [at EXCEPT ![a] = "restore"]
    /\ attempt' = Finished(a)
    /\ UNCHANGED <<conn, lastBegun, orphans, faults>>

(* Discover returns devices and a handle, and Start lets go of the attempt
   before it goes on: with one device to the approval, with several to the
   choice.  Devices that do not validate, or an error, finish the attempt. *)
DiscoverReturns(a) ==
    /\ at[a] = "discover"
    /\ \/ /\ at' = [at EXCEPT ![a] = "idle"]
          /\ \E s \in {"approve", "choose"} :
                attempt' = [attempt EXCEPT ![a].handle = "open", ![a].start = s]
       \/ /\ at' = [at EXCEPT ![a] = "restore"]
          /\ attempt' = Finished(a)
    /\ UNCHANGED <<conn, lastBegun, orphans, faults>>

(* startApproval reserves the attempt if it is idle, and asks neither whether
   it is still current nor whether it has a handle: a cancel or a sweep may have
   come first.  A removed attempt gets the provider's refusal and its cleanup has
   nothing left to restore. *)
StartApproval(a) ==
    /\ attempt[a].start = "approve"
    /\ at' = [at EXCEPT ![a] = IF @ = "idle" THEN "approve" ELSE @]
    /\ attempt' = [attempt EXCEPT ![a].start = "none"]
    /\ UNCHANGED <<conn, lastBegun, orphans, faults>>

\* With several devices Start sets the state, whatever the attempt has come to.
AwaitSelection(a) ==
    /\ attempt[a].start = "choose"
    /\ attempt' = [attempt EXCEPT ![a].start = "none", ![a].state = "awaiting_device_selection"]
    /\ UNCHANGED <<conn, at, lastBegun, orphans, faults>>

-----------------------------------------------------------------------------
(* The operations of an attempt that is idle *)

\* An attempt in any other operation keeps selection, completion, cancel and sweep out.
IdleOperation(a) == at[a] = "idle"

SelectDevice(a) ==
    /\ IdleOperation(a)
    /\ ~attempt[a].expired
    /\ attempt[a].state = "awaiting_device_selection"
    /\ at' = [at EXCEPT ![a] = "approve"]
    /\ UNCHANGED <<conn, attempt, lastBegun, orphans, faults>>

\* The provider's StartApproval, which refuses a handle that is gone.
ApprovalReturns(a) ==
    /\ at[a] = "approve"
    /\ \/ /\ attempt[a].handle = "open"
          /\ at' = [at EXCEPT ![a] = "idle"]
          /\ attempt' = [attempt EXCEPT ![a].state = "awaiting_phone_approval"]
          /\ UNCHANGED <<conn, lastBegun, orphans, faults>>
       \/ FinishReserved(a)

\* Complete: the provider once, then the commit, which may be tried again.
Complete(a) ==
    /\ IdleOperation(a)
    /\ ~attempt[a].expired
    /\ attempt[a].state = "awaiting_phone_approval"
    /\ at' = [at EXCEPT ![a] = IF attempt[a].pending THEN "commit" ELSE "finish"]
    /\ UNCHANGED <<conn, attempt, lastBegun, orphans, faults>>

\* The provider's Complete and Seal: a sealed session, or the attempt has failed.
FinishReturns(a) ==
    /\ at[a] = "finish"
    /\ \/ /\ at' = [at EXCEPT ![a] = "commit"]
          /\ attempt' = [attempt EXCEPT ![a].pending = TRUE, ![a].handle = "none"]
          /\ UNCHANGED <<conn, lastBegun, orphans, faults>>
       \/ FinishReserved(a)

CommitPairedSession(a) ==
    /\ at[a] = "commit"
    /\ \/ OwnsRow(a) /\ conn' = Committed(a) /\ at' = [at EXCEPT ![a] = "gone"] /\ NoFault
       \/ ~OwnsRow(a) /\ at' = [at EXCEPT ![a] = "gone"] /\ UNCHANGED conn /\ NoFault
       \/ at' = [at EXCEPT ![a] = "idle"] /\ UNCHANGED conn /\ Fault
       \/ OwnsRow(a) /\ conn' = Committed(a) /\ at' = [at EXCEPT ![a] = "idle"] /\ Fault
    /\ UNCHANGED <<attempt, lastBegun, orphans>>

Cancel(a) == IdleOperation(a) /\ FinishReserved(a)

(* SweepExpired, on the attempt's timer, and the expiry checks of Start,
   SelectDevice and Complete. *)
Due(a) == attempt[a].expired \/ attempt[a].cleanup
SweepExpired(a) ==
    /\ IdleOperation(a)
    /\ Due(a)
    /\ FinishReserved(a)

\* Mutant: a failed restore leaves the operation in cleanup, where no sweep takes it.
AfterFailedRestoreStuck(a) == "cleanup"

\* After a failed RestorePairing the attempt is idle again and due.
AfterFailedRestore(a) == "idle"

RestorePairing(a) ==
    /\ at[a] = "restore"
    /\ \/ OwnsRow(a) /\ conn' = Restored /\ at' = [at EXCEPT ![a] = "gone"] /\ NoFault
       \/ ~OwnsRow(a) /\ UNCHANGED conn /\ at' = [at EXCEPT ![a] = "gone"] /\ NoFault
       \/ UNCHANGED conn /\ at' = [at EXCEPT ![a] = AfterFailedRestore(a)] /\ Fault
       \/ OwnsRow(a) /\ conn' = Restored
          /\ at' = [at EXCEPT ![a] = AfterFailedRestore(a)] /\ Fault
    /\ UNCHANGED <<attempt, lastBegun, orphans>>

AttemptExpires(a) ==
    /\ at[a] \notin {"unborn", "begin", "gone"}
    /\ ~attempt[a].expired
    /\ attempt' = [attempt EXCEPT ![a].expired = TRUE]
    /\ UNCHANGED <<conn, at, lastBegun, orphans, faults>>

\* The process dies with its attempts and their handles; the row stays.
CrashGateway(g) ==
    /\ Current(g) # {}
    /\ at' = [a \in Attempts |-> IF a \in Current(g) THEN "gone" ELSE at[a]]
    /\ attempt' = [a \in Attempts |->
                     IF a \in Current(g)
                     THEN [attempt[a] EXCEPT !.handle = "none", !.start = "none"]
                     ELSE attempt[a]]
    /\ orphans' = orphans \cup Current(g)
    /\ Fault
    /\ UNCHANGED <<conn, lastBegun>>

-----------------------------------------------------------------------------
Returns(a) == \/ BeginPairing(a) \/ DiscoverReturns(a) \/ StartApproval(a)
              \/ AwaitSelection(a) \/ ApprovalReturns(a) \/ FinishReturns(a) \/ CommitPairedSession(a) \/ RestorePairing(a)

PairingNext ==
    \/ \E a \in Attempts :
          \/ \E g \in Gateways : Start(a, g)
          \/ Returns(a)
          \/ SelectDevice(a) \/ Complete(a) \/ Cancel(a) \/ SweepExpired(a) \/ AttemptExpires(a)
    \/ \E g \in Gateways : CrashGateway(g)
    \/ PairingAges \/ ReconcileStalePairings \/ MarkReauthorizationRequired

(* Calls return (the HTTP request and the repository bound them), time passes,
   and the attempt's timer sweeps.  Nobody has to select, complete or cancel. *)
PairingFairness ==
    \A a \in Attempts : /\ WF_pairingVars(Returns(a))
                        /\ WF_pairingVars(AttemptExpires(a))
                        /\ WF_pairingVars(SweepExpired(a))

PairingSpec == PairingInit /\ [][PairingNext]_pairingVars /\ PairingFairness

-----------------------------------------------------------------------------
(* A connected row holds the session of the attempt that was begun last: a
   late commit, or the late cleanup, of an attempt another process has taken
   over after its TTL changes nothing.  A row in pairing belongs to an attempt
   some process still has, unless that process crashed or never learned that
   its BeginPairing committed: every other way an attempt ends gives the row
   back.  And however cancellation, expiry and completion race: the handle of an
   attempt that is gone is disposed of, an attempt the user is asked to approve
   on the phone still has its handle or already its session, the provider
   completes a pairing with an open handle, and only an attempt whose cleanup
   has failed (Start takes it up again) asks it to approve without one. *)
SessionIsFromLastOwner ==
    /\ conn.state = "connected" => conn.session = lastBegun
    /\ conn.state = "pairing" => at[conn.by] # "gone" \/ conn.by \in orphans
    /\ \A a \in Attempts :
         /\ at[a] = "finish" => attempt[a].handle = "open"
         /\ at[a] = "approve" => attempt[a].handle = "open" \/ attempt[a].cleanup
         /\ at[a] = "idle" /\ attempt[a].state = "awaiting_phone_approval" =>
               attempt[a].handle = "open" \/ attempt[a].pending
         /\ at[a] = "gone" => attempt[a].handle # "open"

(* Every attempt ends, also when nobody acts on it and when cleanups fail. *)
AttemptEnds == \A a \in Attempts : at[a] \notin {"unborn", "gone"} ~> at[a] = "gone"
=============================================================================
