------------------------ MODULE ConnectionActorProofs ------------------------
(***************************************************************************)
(* The connection actor, for any number of gateway processes and any       *)
(* bounds on tokens and sessions.                                          *)
(***************************************************************************)
EXTENDS ConnectionActor, ConnectionLeaseProofs

USE LeaseAssumption, ActorAssumption

(* The order of the sessions: the row's revision counts the sessions stored,
   each newer than the one before, and what a generation has not stored yet is
   newer than the snapshot it loaded. *)
SessionsInOrder ==
    /\ session.rev <= session.data /\ session.data <= issued
    /\ session.rev = 0 => session.data = 0
    /\ \A o \in Owners :
          /\ gen[o].snap.data <= issued
          /\ gen[o].snap.rev <= session.rev
          /\ gen[o].snap.rev = session.rev => gen[o].snap.data = session.data
          /\ gen[o].mailbox <= issued
          /\ gen[o].pending <= issued
          /\ gen[o].mailbox # 0 => gen[o].mailbox > gen[o].snap.data
          /\ gen[o].pending # 0 => gen[o].pending > gen[o].snap.data

(* A pairing under way remembers the state to restore. *)
PairingHasPrior == conn.state = "pairing" => conn.prior # "none"

(* A run that has not loaded its session has no session of its own. *)
FreshRun(o) ==
    gen[o].pc \in {"acquired", "loading"} =>
        gen[o].mailbox = 0 /\ gen[o].pending = 0 /\ ~gen[o].accepting

FreshBeforeLoad == \A o \in Owners : FreshRun(o)

(* A provider client is up only in a generation that has not joined it, or
   behind the tombstone of one that could not. *)
LinkHeld(o) ==
    /\ gen[o].pc = "running" => ~gen[o].joined
    /\ link[o] => \/ /\ gen[o].pc \in {"running", "closing", "flushing", "deciding"}
                     /\ ~gen[o].joined
                  \/ gen[o].pc \in {"releasing", "stopped"} /\ tomb[o] = "joinTimeout"

LinkAccounted == \A o \in Owners : LinkHeld(o)

(* The callbacks accept only while a generation lasts.  Until a generation gives
   a session up, the newest one it accepted is the latest of its mailbox, its
   pending session and its snapshot; the exit of a generation that gave one up
   is a conflict, and no cause it joins later makes it one that is retried. *)
NewestHeld(o) ==
    /\ gen[o].accepting => gen[o].pc \in {"running", "closing", "flushing"}
    /\ gen[o].pc = "running" =>
          gen[o].exit = "none" /\ gen[o].cause = "none" /\ ~gen[o].joined
    /\ gen[o].pc = "closing" /\ gen[o].cause = "transient" => gen[o].joined
    /\ gen[o].pc = "closing" /\ gen[o].exit = "conflict" =>
          gen[o].cause = "none" /\ ~gen[o].joined
    /\ gen[o].pc \in {"flushing", "deciding", "backoff"} /\ gen[o].exit = "conflict"
          => gen[o].cause # "transient"
    /\ /\ gen[o].pc \in {"running", "closing", "flushing", "deciding", "backoff"}
       /\ gen[o].exit \in {"none", "shutdown", "leaseLost"} \/ gen[o].cause = "transient"
       => gen[o].newest = IF Latest(o) # 0 THEN Latest(o) ELSE gen[o].snap.data
    /\ gen[o].pc \in {"deciding", "backoff"} => Latest(o) = 0

NewestAccounted == \A o \in Owners : NewestHeld(o)

(* While the connection is suspended no process that owns the lease is past
   reading its state, and the health row is what the quarantine wrote. *)
SuspendedIsQuiet ==
    /\ health.token <= lease.token
    /\ conn.state = "suspended" =>
          /\ health.actor = "stopped"
          /\ \A o \in Owners : OwnsLease(o) => gen[o].pc \in {"stopped", "acquired", "releasing"}

-----------------------------------------------------------------------------
(* Every step of the actors, the control plane and the environment is a step of
   the lease protocol or leaves the lease alone. *)
LEMMA ActorStepIsLeaseStep ==
    LeaseTypeOK /\ [Next]_vars => [LeaseNext]_leaseVars
<1> SUFFICES ASSUME LeaseTypeOK, [Next]_vars
             PROVE  [LeaseNext]_leaseVars
  OBVIOUS
<1>1. ASSUME NEW o \in Owners, Start(o)
      PROVE  LeaseNext
  BY <1>1 DEF Start, LeaseNext
<1>2. ASSUME NEW o \in Owners, Cancel(o) \/ Quarantine(o) \/ Resume(o)
                               \/ LeaseLost(o) \/ ShutDown(o) \/ StrayLinkDrops(o)
      PROVE  UNCHANGED leaseVars
  BY <1>2 DEF Cancel, Quarantine, Resume, LeaseLost, ShutDown, StrayLinkDrops
<1>3. ASSUME NEW o \in Owners, RunStep(o)
      PROVE  LeaseNext \/ UNCHANGED leaseVars
  <2>1. CASE Release(o)
    BY <2>1 DEF Release, LeaseNext
  <2>2. CASE ReadConnection(o) \/ LoadSession(o) \/ Announce(o) \/ Restore(o)
             \/ RestoreFails(o) \/ Join(o) \/ JoinTimesOut(o)
    BY <2>2 DEF ReadConnection, LoadSession, Announce, Restore, RestoreFails, Join,
                JoinTimesOut
  <2>3. CASE FinalFlush(o) \/ Finish(o) \/ HandleFailure(o)
             \/ MarkReauthorizationRequiredFenced(o) \/ BackoffEnds(o) \/ StoreFails(o)
    BY <2>3 DEF FinalFlush, Finish, HandleFailure, MarkReauthorizationRequiredFenced,
                BackoffEnds, StoreFails
  <2> QED
    BY <1>3, <2>1, <2>2, <2>3 DEF RunStep
<1>4. ASSUME NEW o \in Owners, LoopStep(o)
      PROVE  UNCHANGED leaseVars
  BY <1>4 DEF LoopStep, ProviderEvent, SessionChanged, TakeSession, DebounceFlush,
              RenewErrors, ConnectReturns
\* A process that dies with a generation loses its release; without one it had
\* nothing to lose.
<1>5. ASSUME NEW o \in Owners, Crash(o)
      PROVE  LeaseNext \/ UNCHANGED leaseVars
  <2>1. CASE held[o] # 0
    BY <1>5, <2>1 DEF Crash, LeaseNext, ReleaseLost
  <2>2. CASE held[o] = 0
    BY <1>5, <2>2 DEF Crash, LeaseTypeOK, leaseVars
  <2> QED
    BY <2>1, <2>2
<1>6. CASE ControlPlane
  <2>1. CASE \/ MarkReauthorizationRequired
             \/ \E o \in Owners : QuarantineBackfillConnection(o)
    BY <2>1 DEF MarkReauthorizationRequired, FenceForReauthorization,
                QuarantineBackfillConnection, LeaseNext
  <2>2. CASE MarkUnfenced \/ MarkUnfencedEnds \/ BeginPairing \/ RestorePairing
             \/ CommitPairedSession
    BY <2>2 DEF MarkUnfenced, MarkUnfencedEnds, BeginPairing, RestorePairing,
                CommitPairedSession
  <2> QED
    BY <1>6, <2>1, <2>2 DEF ControlPlane
<1>7. CASE LeaseExpires
  BY <1>7 DEF LeaseExpires, LeaseNext
<1>8. CASE UNCHANGED vars
  BY <1>8 DEF vars, leaseVars
<1> QED
  BY <1>1, <1>2, <1>3, <1>4, <1>5, <1>6, <1>7, <1>8 DEF Next

(* The actors and the control plane implement the lease protocol. *)
THEOREM ActorImplementsLease == Spec => LeaseSpec
<1>1. Init => LeaseInit
  BY DEF Init
<1>2. LeaseInit => LeaseTypeOK
  BY DEF LeaseInit, LeaseTypeOK, LeaseRow
<1> QED
  BY <1>1, <1>2, ActorStepIsLeaseStep, LeaseTypeStep, PTL DEF Spec, LeaseSpec

-----------------------------------------------------------------------------
(* A session that may be swapped in is newer than the stored one, and the
   revision it gets stays within the number of sessions produced. *)
LEMMA SwapIsNewer ==
    ASSUME ActorTypeOK, SessionsInOrder, NEW o \in Owners,
           SwapAdmitted(o), Latest(o) # 0
    PROVE  /\ Latest(o) > session.data
           /\ Latest(o) <= issued
           /\ session.rev + 1 <= Latest(o)
           /\ Swapped(o) \in Snapshot
<1>1. gen[o] \in Generation /\ session \in Snapshot /\ issued \in Versions
  BY DEF ActorTypeOK
<1>2. /\ session.rev \in Nat /\ session.data \in Nat
      /\ gen[o].mailbox \in Nat /\ gen[o].pending \in Nat
      /\ issued \in Nat /\ issued <= MaxSessions
  BY <1>1 DEF Generation, Snapshot, Versions
<1>3. /\ Latest(o) > session.data
      /\ Latest(o) <= issued
      /\ session.rev + 1 <= Latest(o)
      /\ Latest(o) \in Nat
  BY <1>2 DEF SwapAdmitted, SessionsInOrder, Latest
<1>4. session.rev + 1 \in Versions /\ Latest(o) \in Versions
  BY <1>2, <1>3 DEF Versions
<1> QED
  BY <1>3, <1>4 DEF Swapped, Snapshot

(* Whatever a step of Run does, the record of the run keeps its type. *)
LEMMA RunStepTypes ==
    ASSUME ActorTypeOK, SessionsInOrder, NEW o \in Owners, RunStep(o)
    PROVE  gen' \in [Owners -> Generation] /\ session' \in Snapshot
<1>1. /\ gen \in [Owners -> Generation] /\ session \in Snapshot
      /\ gen[o] \in Generation
  BY DEF ActorTypeOK
<1>2. /\ Stopped \in Generation /\ Returned \in Generation
      /\ gen[o].snap \in Snapshot
      /\ gen[o].snap.data \in Versions
      /\ session.data \in Versions
  <2>1. 0 \in Versions
    BY DEF Versions
  <2>2. Stopped \in Generation
    BY <2>1 DEF Generation, Stopped, Snapshot
  <2>3. Returned \in Generation
    BY <2>2 DEF Generation, Returned
  <2> QED
    BY <1>1, <2>2, <2>3 DEF Generation, Snapshot
<1>3. ASSUME NEW pc \in {"loading", "restoring", "marking", "backoff", "releasing"},
             Goto(o, pc)
      PROVE  gen' \in [Owners -> Generation]
  BY <1>1, <1>2, <1>3 DEF Goto, Generation
<1>4. CASE ReadConnection(o) 
  BY <1>1, <1>3, <1>4 DEF ReadConnection, rowVars
<1>5. CASE LoadSession(o)
  <2>1. CASE Goto(o, "releasing")
    BY <1>1, <1>3, <1>5, <2>1 DEF LoadSession, rowVars
  <2>2. CASE gen' = [gen EXCEPT ![o].pc = "announcing", ![o].snap = session,
                                ![o].newest = session.data]
    BY <1>1, <1>2, <1>5, <2>2 DEF LoadSession, rowVars, Generation
  <2> QED
    BY <1>5, <2>1, <2>2 DEF LoadSession
<1>6. CASE Announce(o) \/ RestoreFails(o) \/ BackoffEnds(o) \/ Finish(o)
           \/ MarkReauthorizationRequiredFenced(o) \/ StoreFails(o) \/ HandleFailure(o)
  BY <1>1, <1>3, <1>6 DEF Announce, RestoreFails, BackoffEnds, Finish,
        MarkReauthorizationRequiredFenced, StoreFails, HandleFailure
<1>7. CASE Restore(o)
  <2> DEFINE g == [gen[o] EXCEPT !.pc = "running", !.exit = "none",
                   !.cause = "none", !.joined = FALSE, !.mailbox = 0,
                   !.accepting = TRUE, !.pending = 0, !.ready = FALSE,
                   !.newest = gen[o].snap.data]
  <2>1. 0 \in Versions
    BY DEF Versions
  <2>2. g \in Generation
    BY <1>1, <1>2, <2>1 DEF Generation
  <2> QED
    BY <1>1, <1>7, <2>2 DEF Restore, rowVars
<1>8. CASE Join(o)
  <2>1. PICK c \in {"none", "transient", "auth", "fatal"} :
            gen' = [gen EXCEPT ![o] = [@ EXCEPT !.pc = "flushing", !.joined = TRUE,
                      !.cause = c,
                      !.exit = IF c \in {"auth", "fatal"} THEN "provider" ELSE gen[o].exit]]
    BY <1>1, <1>8 DEF Join, Generation
  <2> DEFINE e == IF c \in {"auth", "fatal"} THEN "provider" ELSE gen[o].exit
             g == [gen[o] EXCEPT !.pc = "flushing", !.joined = TRUE,
                      !.cause = c, !.exit = e]
  <2>2. g \in Generation
    <3>1. e \in {"none", "shutdown", "leaseLost", "conflict", "provider"}
      BY <1>1 DEF Generation
    <3> HIDE DEF e
    <3> QED
      BY <1>1, <2>1, <3>1 DEF Generation
  <2> QED
    BY <1>1, <1>8, <2>1, <2>2 DEF Join, rowVars
<1>9. CASE JoinTimesOut(o)
  BY <1>1, <1>2, <1>9 DEF JoinTimesOut, rowVars, Generation
<1>10. CASE FinalFlush(o)
  <2>1. CASE Latest(o) = 0
    BY <1>1, <1>10, <2>1 DEF FinalFlush, Generation
  <2>2. CASE Latest(o) # 0 /\ Goto(o, "releasing")
    BY <1>1, <1>3, <1>10, <2>2, SwapIsNewer DEF FinalFlush
  <2>3. CASE Latest(o) # 0 /\ ~Goto(o, "releasing")
    <3>1. SwapAdmitted(o) /\ session' = Swapped(o)
      BY <1>10, <2>3 DEF FinalFlush
    <3>2. Swapped(o) \in Snapshot /\ 0 \in Versions
      BY <2>3, <3>1, SwapIsNewer DEF Versions
    <3>3. gen' = [gen EXCEPT ![o] = [@ EXCEPT !.pc = "deciding", !.accepting = FALSE,
                      !.snap = Swapped(o), !.pending = 0, !.mailbox = 0]]
      BY <1>10, <2>3 DEF FinalFlush
    <3> QED
      BY <1>1, <3>1, <3>2, <3>3 DEF Generation
  <2> QED
    BY <2>1, <2>2, <2>3
<1>11. CASE Release(o)
  BY <1>1, <1>2, <1>11 DEF Release, rowVars
<1> QED
  BY <1>4, <1>5, <1>6, <1>7, <1>8, <1>9, <1>10, <1>11 DEF RunStep

(* The other steps of a process keep the type of the run's record and of the
   session row. *)
LEMMA ProcessStepTypes ==
    ASSUME ActorTypeOK, SessionsInOrder, NEW o \in Owners,
           \/ Start(o) \/ Cancel(o) \/ Quarantine(o) \/ Resume(o)
           \/ LoopStep(o) \/ LeaseLost(o) \/ ShutDown(o)
           \/ StrayLinkDrops(o) \/ Crash(o)
    PROVE  gen' \in [Owners -> Generation] /\ session' \in Snapshot /\ issued' \in Versions
<1>1. /\ gen \in [Owners -> Generation] /\ session \in Snapshot
      /\ gen[o] \in Generation /\ issued \in Versions
  BY DEF ActorTypeOK
<1>2. /\ gen[o].mailbox \in Versions /\ gen[o].pending \in Versions /\ 0 \in Versions
      /\ Latest(o) \in Versions
  BY <1>1 DEF Generation, Versions, Latest
<1>3. Stopped \in Generation
  BY <1>2 DEF Generation, Stopped, Snapshot
<1>4. ASSUME NEW kind \in {"shutdown", "leaseLost"}, Leave(o, kind)
      PROVE  gen' \in [Owners -> Generation]
  BY <1>1, <1>4 DEF Leave, Generation
<1>5. CASE Start(o) 
  <2>1. [Stopped EXCEPT !.pc = "acquired"] \in Generation
    BY <1>3 DEF Generation
  <2> QED
    BY <1>1, <1>5, <2>1 DEF Start, rowVars
<1>6. CASE Crash(o)
  BY <1>1, <1>3, <1>6 DEF Crash, rowVars
<1>7. CASE Cancel(o) \/ Quarantine(o)
  <2>1. PICK d \in BOOLEAN : gen' = [gen EXCEPT ![o].done = d]
    BY <1>7 DEF Cancel, Quarantine
  <2> QED
    BY <1>1, <1>7, <2>1 DEF Cancel, Quarantine, rowVars, Generation
<1>8. CASE Resume(o) \/ StrayLinkDrops(o)
  BY <1>1, <1>8 DEF Resume, StrayLinkDrops, rowVars
<1>9. CASE LeaseLost(o) \/ ShutDown(o) \/ RenewErrors(o)
  BY <1>1, <1>4, <1>9 DEF LeaseLost, ShutDown, RenewErrors, rowVars
<1>10. CASE ProviderEvent(o)
  <2>1. ASSUME NEW ready \in BOOLEAN, gen' = [gen EXCEPT ![o].ready = ready]
        PROVE  gen' \in [Owners -> Generation]
    BY <1>1, <2>1 DEF Generation
  <2>2. gen[o].ready \in BOOLEAN
    BY <1>1 DEF Generation
  <2> QED
    BY <1>1, <1>4, <1>10, <2>1, <2>2 DEF ProviderEvent
<1>11. CASE SessionChanged(o)
  <2>1. issued + 1 \in Versions
    BY <1>1, <1>11 DEF SessionChanged, Versions
  <2> QED
    BY <1>1, <1>11, <2>1 DEF SessionChanged, Generation
<1>12. CASE TakeSession(o)
  BY <1>1, <1>2, <1>12 DEF TakeSession, rowVars, Generation
<1>13. CASE DebounceFlush(o)
  <2>1. CASE gen[o].done
    BY <1>1, <1>2, <1>13, <2>1 DEF DebounceFlush, Generation
  <2>2. ASSUME ~gen[o].done
        PROVE  session' \in Snapshot /\ issued' = issued
    <3>1. Latest(o) # 0
      BY <1>13 DEF DebounceFlush, Latest
    <3>2. UNCHANGED session \/ (SwapAdmitted(o) /\ session' = Swapped(o))
      BY <1>13, <2>2 DEF DebounceFlush
    <3> QED
      BY <1>1, <1>13, <3>1, <3>2, SwapIsNewer DEF DebounceFlush
  <2>3. CASE ~gen[o].done /\ ~Flushed(o, "running")
    BY <1>1, <1>2, <1>13, <2>2, <2>3 DEF DebounceFlush, Generation
  <2>4. CASE ~gen[o].done /\ Flushed(o, "running")
    <3>1. Latest(o) # 0
      BY <1>13 DEF DebounceFlush, Latest
    <3>2. gen[o].pc = "running"
      BY <1>13 DEF DebounceFlush
    <3>3. CASE SwapAdmitted(o)
      <4>1. Swapped(o) \in Snapshot
        BY <3>1, <3>3, SwapIsNewer
      <4> QED
        BY <1>1, <1>2, <1>13, <2>2, <2>4, <4>1 DEF Flushed, Generation
    <3>4. CASE ~SwapAdmitted(o)
      BY <1>1, <1>2, <1>13, <2>2, <2>4, <3>4 DEF DebounceFlush, Generation
    <3> QED
      BY <3>3, <3>4
  <2> QED
    BY <2>1, <2>3, <2>4
<1>14. CASE ConnectReturns(o)
  <2>1. PICK c \in {"none", "auth", "fatal", "transient"} :
          gen' = [gen EXCEPT ![o] = [@ EXCEPT !.pc = "closing", !.joined = TRUE,
                    !.ready = FALSE, !.cause = c,
                    !.exit = IF c = "none" THEN "shutdown" ELSE "provider"]]
    BY <1>14 DEF ConnectReturns
  <2> QED
    BY <1>1, <1>14, <2>1 DEF ConnectReturns, rowVars, Generation
<1> QED
  BY <1>5, <1>6, <1>7, <1>8, <1>9, <1>10, <1>11, <1>12, <1>13, <1>14 DEF LoopStep

(* A health write that is accepted carries a fencing token of the row's type. *)
LEMMA HealthWriteTypes ==
    ASSUME ActorTypeOK, NEW o \in Owners,
           NEW s \in {"connecting", "ready", "backoff", "stopped"},
           \/ WriteHealthLive(o, s) \/ WriteHealth(o, s) \/ UNCHANGED health
    PROVE  health' \in [token : 0..MaxToken,
                        actor : {"none", "connecting", "ready", "backoff", "stopped"}]
  BY DEF ActorTypeOK, LeaseTypeOK, WriteHealthLive, WriteHealth

(* One step keeps every type. *)
LEMMA ActorTypeStep ==
    ActorTypeOK /\ SessionsInOrder /\ PairingHasPrior /\ [Next]_vars => ActorTypeOK'
<1> SUFFICES ASSUME ActorTypeOK, SessionsInOrder, PairingHasPrior, [Next]_vars
             PROVE  ActorTypeOK'
  OBVIOUS
<1> DEFINE ConnRow == [state : {"unpaired", "pairing", "connected", "suspended",
                                "reauthorization-required"},
                       prior : {"none", "unpaired", "reauthorization-required"},
                       locked : BOOLEAN]
           HealthRow == [token : 0..MaxToken,
                         actor : {"none", "connecting", "ready", "backoff", "stopped"}]
           Rest == /\ conn' \in ConnRow /\ health' \in HealthRow /\ issued' \in Versions
                   /\ link' \in [Owners -> BOOLEAN] /\ tomb' \in [Owners -> Tombstones]
<1>1. LeaseTypeOK'
  BY ActorStepIsLeaseStep, LeaseTypeStep DEF ActorTypeOK
<1>2. /\ conn \in ConnRow /\ health \in HealthRow /\ issued \in Versions
      /\ session \in Snapshot /\ gen \in [Owners -> Generation]
      /\ link \in [Owners -> BOOLEAN] /\ tomb \in [Owners -> Tombstones]
  BY DEF ActorTypeOK
<1>3. ASSUME NEW o \in Owners,
             \/ Start(o) \/ Cancel(o) \/ Quarantine(o) \/ Resume(o) \/ LeaseLost(o)
             \/ ShutDown(o) \/ StrayLinkDrops(o) \/ Crash(o)
      PROVE  Rest
  BY <1>2, <1>3 DEF Start, Cancel, Quarantine, Resume, LeaseLost, ShutDown,
                    StrayLinkDrops, Crash, rowVars, Tombstones
<1>4. ASSUME NEW o \in Owners, LoopStep(o)
      PROVE  conn' \in ConnRow /\ health' \in HealthRow
             /\ link' \in [Owners -> BOOLEAN] /\ tomb' \in [Owners -> Tombstones]
  <2>1. CASE ProviderEvent(o)
    BY <1>2, <2>1, HealthWriteTypes DEF ProviderEvent
  <2>2. CASE ~ProviderEvent(o)
    BY <1>2, <1>4, <2>2 DEF LoopStep, SessionChanged, TakeSession, DebounceFlush,
                            RenewErrors, ConnectReturns, rowVars
  <2> QED
    BY <2>1, <2>2
<1>5. ASSUME NEW o \in Owners, LeaveTombstone(o)
      PROVE  tomb' \in [Owners -> Tombstones]
  BY <1>2, <1>5 DEF LeaveTombstone, Tombstones
<1>6. ASSUME NEW o \in Owners, RunStep(o)
      PROVE  Rest
  <2> HIDE DEF HealthRow
  <2>1. CASE ReadConnection(o) \/ LoadSession(o) \/ Restore(o) \/ Join(o)
             \/ JoinTimesOut(o) \/ Release(o)
    BY <1>2, <2>1 DEF ReadConnection, LoadSession, Restore, Join, JoinTimesOut,
                      Release, rowVars
  <2>2. CASE Announce(o) \/ RestoreFails(o) \/ BackoffEnds(o) \/ HandleFailure(o)
             \/ StoreFails(o)
    <3>1. PICK s \in {"connecting", "ready", "backoff", "stopped"} :
              WriteHealthLive(o, s) \/ UNCHANGED health
      BY <2>2 DEF Announce, RestoreFails, BackoffEnds, HandleFailure, StoreFails
    <3>2. health' \in HealthRow
      BY <3>1, HealthWriteTypes DEF HealthRow
    <3> QED
      BY <1>2, <2>2, <3>2 DEF Announce, RestoreFails, BackoffEnds, HandleFailure,
                              StoreFails
  <2>3. CASE FinalFlush(o) \/ Finish(o)
    <3>1. WriteHealth(o, "stopped") \/ UNCHANGED health
      BY <2>3 DEF FinalFlush, Finish
    <3>2. health' \in HealthRow
      BY <3>1, HealthWriteTypes DEF HealthRow
    <3>3. tomb' \in [Owners -> Tombstones]
      BY <1>2, <1>5, <2>3 DEF FinalFlush, Finish
    <3> QED
      BY <1>2, <2>3, <3>2, <3>3 DEF FinalFlush, Finish
  <2>4. CASE MarkReauthorizationRequiredFenced(o)
    <3>1. WriteHealth(o, "stopped") \/ UNCHANGED health
      BY <2>4 DEF MarkReauthorizationRequiredFenced
    <3>2. health' \in HealthRow
      BY <3>1, HealthWriteTypes DEF HealthRow
    <3>3. conn' \in ConnRow
      BY <1>2, <2>4 DEF MarkReauthorizationRequiredFenced
    <3> QED
      BY <1>2, <2>4, <3>2, <3>3 DEF MarkReauthorizationRequiredFenced
  <2> QED
    BY <1>6, <2>1, <2>2, <2>3, <2>4 DEF RunStep
<1>7. ASSUME ControlPlane
      PROVE  Rest /\ session' \in Snapshot /\ gen' = gen
  <2>1. CASE MarkReauthorizationRequired \/ MarkUnfenced \/ MarkUnfencedEnds
             \/ BeginPairing
    BY <1>2, <2>1 DEF MarkReauthorizationRequired, MarkUnfenced, MarkUnfencedEnds,
                      BeginPairing
  <2>2. CASE RestorePairing
    BY <1>2, <2>2 DEF RestorePairing, PairingHasPrior
  <2>3. ASSUME NEW o \in Owners, QuarantineBackfillConnection(o)
        PROVE  Rest /\ session' \in Snapshot /\ gen' = gen
    <3>1. lease.token + 1 \in 0..MaxToken
      BY <2>3 DEF QuarantineBackfillConnection, FenceConnectionLease, ActorTypeOK,
                  LeaseTypeOK, LeaseRow
    <3>2. tomb' \in [Owners -> Tombstones]
      BY <1>2, <2>3 DEF QuarantineBackfillConnection, Tombstones
    <3>3. conn' \in ConnRow
      BY <1>2, <2>3 DEF QuarantineBackfillConnection
    <3> QED
      BY <1>2, <2>3, <3>1, <3>2, <3>3 DEF QuarantineBackfillConnection
  <2>4. CASE CommitPairedSession
    <3>1. issued + 1 \in Versions /\ session.rev + 1 \in Versions
      BY <1>2, <2>4 DEF CommitPairedSession, SessionsInOrder, Versions, Snapshot
    <3> QED
      BY <1>2, <2>4, <3>1 DEF CommitPairedSession, Snapshot
  <2> QED
    BY <1>7, <2>1, <2>2, <2>3, <2>4 DEF ControlPlane
<1>8. ASSUME LeaseExpires \/ UNCHANGED vars
      PROVE  UNCHANGED <<rowVars, gen, link, tomb>>
  BY <1>8 DEF LeaseExpires, vars, rowVars
<1> HIDE DEF ConnRow, HealthRow
<1>9. Rest /\ session' \in Snapshot /\ gen' \in [Owners -> Generation]
  <2>1. CASE \E o \in Owners : RunStep(o)
    BY <1>6, <2>1, RunStepTypes
  <2>2. CASE \E o \in Owners :
                \/ Start(o) \/ Cancel(o) \/ Quarantine(o) \/ Resume(o)
                \/ LoopStep(o) \/ LeaseLost(o) \/ ShutDown(o)
                \/ StrayLinkDrops(o) \/ Crash(o)
    BY <1>3, <1>4, <2>2, ProcessStepTypes
  <2>3. CASE ControlPlane
    BY <1>2, <1>7, <2>3
  <2>4. CASE LeaseExpires \/ UNCHANGED vars
    BY <1>2, <1>8, <2>4 DEF rowVars
  <2> QED
    BY <2>1, <2>2, <2>3, <2>4 DEF Next
<1> QED
  BY <1>1, <1>9 DEF ActorTypeOK, ConnRow, HealthRow

(* A pairing under way keeps the state it came from. *)
LEMMA PairingPriorStep ==
    ActorTypeOK /\ PairingHasPrior /\ [Next]_vars => PairingHasPrior'
<1> SUFFICES ASSUME ActorTypeOK, PairingHasPrior, [Next]_vars
             PROVE  PairingHasPrior'
  OBVIOUS
<1> USE DEF PairingHasPrior
<1>1. ASSUME NEW o \in Owners, RunStep(o)
      PROVE  PairingHasPrior'
  <2>1. CASE MarkReauthorizationRequiredFenced(o)
    BY <2>1 DEF MarkReauthorizationRequiredFenced, ActorTypeOK
  <2>2. CASE ~MarkReauthorizationRequiredFenced(o)
    <3>1. conn' = conn
      BY <1>1, <2>2 DEF RunStep, ReadConnection, LoadSession, Announce, Restore,
            RestoreFails, Join, JoinTimesOut, FinalFlush, Finish, HandleFailure,
            BackoffEnds, StoreFails, Release, rowVars
    <3> QED
      BY <3>1
  <2> QED
    BY <2>1, <2>2
<1>2. ASSUME NEW o \in Owners, \/ Start(o) \/ Cancel(o) \/ Quarantine(o) \/ Resume(o)
                               \/ LoopStep(o) \/ LeaseLost(o) \/ ShutDown(o)
                               \/ StrayLinkDrops(o) \/ Crash(o)
      PROVE  PairingHasPrior'
  <2>1. conn' = conn
    BY <1>2 DEF Start, Cancel, Quarantine, Resume, LoopStep, LeaseLost, ShutDown,
          StrayLinkDrops, Crash, ProviderEvent, SessionChanged, TakeSession,
          DebounceFlush, RenewErrors, ConnectReturns, rowVars
  <2> QED
    BY <2>1
<1>3. CASE ControlPlane
  BY <1>3 DEF ControlPlane, MarkReauthorizationRequired, MarkUnfenced, MarkUnfencedEnds,
        QuarantineBackfillConnection, BeginPairing, RestorePairing, CommitPairedSession,
        ActorTypeOK, Markable
<1>4. CASE LeaseExpires \/ UNCHANGED vars
  BY <1>4 DEF LeaseExpires, vars, rowVars
<1> QED
  BY <1>1, <1>2, <1>3, <1>4 DEF Next

-----------------------------------------------------------------------------
(* The generations' sessions stay in order when a process moves on and neither
   the stored session nor the number of sessions produced changes. *)
LEMMA OrderKept ==
    ASSUME ActorTypeOK, SessionsInOrder, NEW o \in Owners,
           UNCHANGED <<session, issued>>,
           gen' \in [Owners -> Generation],
           \A p \in Owners \ {o} : gen'[p] = gen[p],
           \/ /\ gen'[o].snap = gen[o].snap
              /\ gen'[o].mailbox \in {0, gen[o].mailbox}
              /\ gen'[o].pending \in {0, gen[o].mailbox, gen[o].pending}
           \/ /\ gen'[o].snap \in {[rev |-> 0, data |-> 0], session}
              /\ gen'[o].mailbox = 0 /\ gen'[o].pending = 0
    PROVE  SessionsInOrder'
<1>1. /\ session \in Snapshot /\ issued \in Versions
      /\ \A p \in Owners : gen[p] \in Generation /\ gen'[p] \in Generation
  BY DEF ActorTypeOK
<1>2. ASSUME NEW p \in Owners
      PROVE  /\ gen'[p].snap.data <= issued
             /\ gen'[p].snap.rev <= session.rev
             /\ gen'[p].snap.rev = session.rev => gen'[p].snap.data = session.data
             /\ gen'[p].mailbox <= issued
             /\ gen'[p].pending <= issued
             /\ gen'[p].mailbox # 0 => gen'[p].mailbox > gen'[p].snap.data
             /\ gen'[p].pending # 0 => gen'[p].pending > gen'[p].snap.data
  <2>1. CASE p # o
    BY <2>1 DEF SessionsInOrder
  <2>2. CASE p = o
    BY <1>1, <2>2 DEF SessionsInOrder, Snapshot, Versions
  <2> QED
    BY <2>1, <2>2
<1> QED
  BY <1>2 DEF SessionsInOrder

(* A swapped-in session keeps the order: its process holds it as the snapshot or
   holds a snapshot that is now old. *)
LEMMA OrderSwapped ==
    ASSUME ActorTypeOK, SessionsInOrder, NEW o \in Owners, issued' = issued,
           SwapAdmitted(o), Latest(o) # 0, session' = Swapped(o),
           gen' \in [Owners -> Generation],
           \A p \in Owners \ {o} : gen'[p] = gen[p],
           gen'[o].snap \in {Swapped(o), gen[o].snap, [rev |-> 0, data |-> 0]},
           gen'[o].mailbox = 0, gen'[o].pending = 0
    PROVE  SessionsInOrder'
<1>1. /\ session \in Snapshot /\ issued \in Versions /\ Latest(o) \in Nat
      /\ \A p \in Owners : gen[p] \in Generation /\ gen'[p] \in Generation
  BY DEF ActorTypeOK, Generation, Latest, Versions
<1>2. /\ session'.rev = session.rev + 1 /\ session'.data = Latest(o)
      /\ Latest(o) > session.data /\ Latest(o) <= issued
      /\ session.rev + 1 <= Latest(o)
  BY SwapIsNewer DEF Swapped
<1>3. ASSUME NEW p \in Owners
      PROVE  /\ gen'[p].snap.data <= issued
             /\ gen'[p].snap.rev <= session'.rev
             /\ gen'[p].snap.rev = session'.rev => gen'[p].snap.data = session'.data
             /\ gen'[p].mailbox <= issued
             /\ gen'[p].pending <= issued
             /\ gen'[p].mailbox # 0 => gen'[p].mailbox > gen'[p].snap.data
             /\ gen'[p].pending # 0 => gen'[p].pending > gen'[p].snap.data
  <2>1. gen[p].snap.rev \in Nat /\ gen[p].snap.data \in Nat /\ issued \in Nat
        /\ session.rev \in Nat
    BY <1>1 DEF Generation, Snapshot, Versions
  <2>2. CASE p # o
    <3>1. gen'[p] = gen[p]
      BY <2>2
    <3> QED
      BY <1>2, <2>1, <3>1 DEF SessionsInOrder
  <2>3. CASE p = o
    BY <1>2, <2>1, <2>3 DEF SessionsInOrder, Swapped
  <2> QED
    BY <2>2, <2>3
<1> QED
  BY <1>1, <1>2, <1>3 DEF SessionsInOrder, Snapshot, Versions

(* A process moves only its own run. *)
LEMMA OthersKept ==
    ASSUME ActorTypeOK, NEW o \in Owners,
           \/ Start(o) \/ Cancel(o) \/ Quarantine(o) \/ Resume(o) \/ RunStep(o)
           \/ LoopStep(o) \/ LeaseLost(o) \/ ShutDown(o) \/ StrayLinkDrops(o) \/ Crash(o)
    PROVE  \A p \in Owners \ {o} : gen'[p] = gen[p]
<1> USE DEF ActorTypeOK
<1>1. CASE Start(o) \/ Cancel(o) \/ Quarantine(o) \/ Resume(o) \/ LeaseLost(o)
           \/ ShutDown(o) \/ StrayLinkDrops(o) \/ Crash(o)
  BY <1>1 DEF Start, Cancel, Quarantine, Resume, LeaseLost, ShutDown, StrayLinkDrops,
        Crash, Leave
<1>2. CASE LoopStep(o)
  BY <1>2 DEF LoopStep, ProviderEvent, SessionChanged, TakeSession, DebounceFlush,
        RenewErrors, ConnectReturns, Leave, Flushed
<1>3. CASE RunStep(o)
  <2>1. CASE \E pc \in {"loading", "restoring", "marking", "backoff", "releasing"} :
                Goto(o, pc)
    BY <2>1 DEF Goto
  <2>2. CASE LoadSession(o) \/ Restore(o) \/ Join(o) \/ JoinTimesOut(o) \/ FinalFlush(o)
             \/ Release(o)
    BY <2>1, <2>2 DEF LoadSession, Restore, Join, JoinTimesOut, FinalFlush, Release
  <2>3. CASE \/ ReadConnection(o) \/ Announce(o) \/ RestoreFails(o) \/ Finish(o)
             \/ HandleFailure(o) \/ MarkReauthorizationRequiredFenced(o)
             \/ BackoffEnds(o) \/ StoreFails(o)
    BY <2>1, <2>3 DEF ReadConnection, Announce, RestoreFails, Finish, HandleFailure,
          MarkReauthorizationRequiredFenced, BackoffEnds, StoreFails
  <2> QED
    BY <1>3, <2>2, <2>3 DEF RunStep
<1> QED
  BY <1>1, <1>2, <1>3

(* A run that goes to another step keeps its sessions, and one that returns
   drops them. *)
LEMMA GotoKeepsSessions ==
    ASSUME ActorTypeOK, NEW o \in Owners,
           NEW pc \in {"loading", "restoring", "marking", "backoff", "releasing"},
           Goto(o, pc)
    PROVE  \/ /\ gen'[o].snap = gen[o].snap
              /\ gen'[o].mailbox = gen[o].mailbox
              /\ gen'[o].pending = gen[o].pending
           \/ /\ gen'[o].snap = [rev |-> 0, data |-> 0]
              /\ gen'[o].mailbox = 0 /\ gen'[o].pending = 0
<1>1. gen[o] \in Generation
  BY DEF ActorTypeOK
<1>2. CASE pc = "releasing"
  BY <1>2 DEF Goto, Returned, Stopped, ActorTypeOK
<1>3. CASE pc # "releasing"
  BY <1>1, <1>3 DEF Goto, Generation, ActorTypeOK
<1> QED
  BY <1>2, <1>3

(* One step of a run keeps the sessions in order. *)
LEMMA RunStepOrder ==
    ASSUME ActorTypeOK, SessionsInOrder, FreshBeforeLoad, NEW o \in Owners, RunStep(o)
    PROVE  SessionsInOrder'
<1> DEFINE Kept == /\ gen'[o].snap = gen[o].snap
                   /\ gen'[o].mailbox \in {0, gen[o].mailbox}
                   /\ gen'[o].pending \in {0, gen[o].mailbox, gen[o].pending}
           Dropped == /\ gen'[o].snap \in {[rev |-> 0, data |-> 0], session}
                      /\ gen'[o].mailbox = 0 /\ gen'[o].pending = 0
<1>1. gen' \in [Owners -> Generation] /\ \A p \in Owners \ {o} : gen'[p] = gen[p]
  BY RunStepTypes, OthersKept
<1>2. gen[o] \in Generation /\ gen \in [Owners -> Generation]
  BY DEF ActorTypeOK
<1>3. CASE \/ ReadConnection(o) \/ Announce(o) \/ RestoreFails(o) \/ Finish(o)
           \/ HandleFailure(o) \/ MarkReauthorizationRequiredFenced(o)
           \/ BackoffEnds(o) \/ StoreFails(o)
  <2>1. PICK pc \in {"loading", "restoring", "marking", "backoff", "releasing"} :
            Goto(o, pc)
    BY <1>3 DEF ReadConnection, Announce, RestoreFails, Finish, HandleFailure,
          MarkReauthorizationRequiredFenced, BackoffEnds, StoreFails
  <2>2. UNCHANGED <<session, issued>>
    BY <1>3 DEF ReadConnection, Announce, RestoreFails, Finish, HandleFailure,
          MarkReauthorizationRequiredFenced, BackoffEnds, StoreFails, rowVars
  <2>3. Kept \/ Dropped
    BY <2>1, GotoKeepsSessions
  <2> QED
    BY <1>1, <2>2, <2>3, OrderKept
<1>4. CASE Restore(o) \/ Join(o) \/ JoinTimesOut(o) \/ Release(o)
  <2>1. UNCHANGED <<session, issued>>
    BY <1>4 DEF Restore, Join, JoinTimesOut, Release, rowVars
  <2>2. CASE Restore(o)
    <3>1. Kept
      BY <1>2, <2>2 DEF Restore, Generation
    <3> QED
      BY <1>1, <2>1, <3>1, OrderKept
  <2>3. CASE Join(o)
    <3>1. Kept
      BY <1>2, <2>3 DEF Join, Generation
    <3> QED
      BY <1>1, <2>1, <3>1, OrderKept
  <2>4. CASE JoinTimesOut(o)
    <3>1. Kept
      BY <1>2, <2>4 DEF JoinTimesOut, Generation
    <3> QED
      BY <1>1, <2>1, <3>1, OrderKept
  <2>5. CASE Release(o)
    <3>1. Dropped
      BY <1>2, <2>5 DEF Release, Stopped
    <3> QED
      BY <1>1, <2>1, <3>1, OrderKept
  <2> QED
    BY <1>4, <2>2, <2>3, <2>4, <2>5
<1>5. CASE LoadSession(o)
  <2>1. UNCHANGED <<session, issued>>
    BY <1>5 DEF LoadSession, rowVars
  <2>2. CASE Goto(o, "releasing")
    BY <1>1, <2>1, <2>2, GotoKeepsSessions, OrderKept
  <2>3. CASE ~Goto(o, "releasing")
    <3>1. gen' = [gen EXCEPT ![o].pc = "announcing", ![o].snap = session,
                             ![o].newest = session.data]
      BY <1>5, <2>3 DEF LoadSession
    <3>2. /\ gen'[o].snap = session
          /\ gen'[o].mailbox = gen[o].mailbox /\ gen'[o].pending = gen[o].pending
      BY <1>2, <3>1 DEF Generation
    <3>3. gen[o].mailbox = 0 /\ gen[o].pending = 0
      BY <1>5 DEF LoadSession, FreshBeforeLoad, FreshRun
    <3>4. Dropped
      BY <3>2, <3>3
    <3> QED
      BY <1>1, <2>1, <3>4, OrderKept
  <2> QED
    BY <2>2, <2>3
<1>6. CASE FinalFlush(o)
  <2>1. issued' = issued
    BY <1>6 DEF FinalFlush
  <2>2. CASE Latest(o) = 0
    <3>1. gen' = [gen EXCEPT ![o].pc = "deciding", ![o].accepting = FALSE]
          /\ UNCHANGED session
      BY <1>6, <2>2 DEF FinalFlush
    <3>2. Kept
      BY <1>2, <3>1 DEF Generation
    <3> QED
      BY <1>1, <2>1, <3>1, <3>2, OrderKept
  <2>3. CASE Latest(o) # 0 /\ Goto(o, "releasing")
    <3>1. /\ gen'[o].snap = [rev |-> 0, data |-> 0]
          /\ gen'[o].mailbox = 0 /\ gen'[o].pending = 0
      BY <1>2, <2>3 DEF Goto, Returned, Stopped
    <3>2. UNCHANGED session \/ (SwapAdmitted(o) /\ session' = Swapped(o))
      BY <1>6, <2>3 DEF FinalFlush
    <3> QED
      BY <1>1, <2>1, <2>3, <3>1, <3>2, OrderKept, OrderSwapped
  <2>4. CASE Latest(o) # 0 /\ ~Goto(o, "releasing")
    <3>1. SwapAdmitted(o) /\ session' = Swapped(o)
      BY <1>6, <2>4 DEF FinalFlush
    <3>2. gen' = [gen EXCEPT ![o] = [@ EXCEPT !.pc = "deciding", !.accepting = FALSE,
                      !.snap = Swapped(o), !.pending = 0, !.mailbox = 0]]
      BY <1>6, <2>4 DEF FinalFlush
    <3>3. gen'[o].snap = Swapped(o) /\ gen'[o].mailbox = 0 /\ gen'[o].pending = 0
      BY <1>2, <3>2 DEF Generation
    <3> QED
      BY <1>1, <2>1, <2>4, <3>1, <3>3, OrderSwapped
  <2> QED
    BY <2>2, <2>3, <2>4
<1> QED
  BY <1>3, <1>4, <1>5, <1>6 DEF RunStep

(* One step of a process outside Run's sequence keeps the sessions in order: a
   callback's session is newer than all before it. *)
LEMMA ProcessStepOrder ==
    ASSUME ActorTypeOK, SessionsInOrder, NEW o \in Owners,
           \/ Start(o) \/ Cancel(o) \/ Quarantine(o) \/ Resume(o)
           \/ LoopStep(o) \/ LeaseLost(o) \/ ShutDown(o)
           \/ StrayLinkDrops(o) \/ Crash(o)
    PROVE  SessionsInOrder'
<1> DEFINE Kept == /\ gen'[o].snap = gen[o].snap
                   /\ gen'[o].mailbox \in {0, gen[o].mailbox}
                   /\ gen'[o].pending \in {0, gen[o].mailbox, gen[o].pending}
<1>1. gen' \in [Owners -> Generation] /\ \A p \in Owners \ {o} : gen'[p] = gen[p]
  BY ProcessStepTypes, OthersKept
<1>2. gen[o] \in Generation /\ gen \in [Owners -> Generation]
  BY DEF ActorTypeOK
<1>3. CASE Start(o) \/ Crash(o)
  <2>1. UNCHANGED <<session, issued>>
    BY <1>3 DEF Start, Crash, rowVars
  <2>2. /\ gen'[o].snap = [rev |-> 0, data |-> 0]
        /\ gen'[o].mailbox = 0 /\ gen'[o].pending = 0
    BY <1>2, <1>3 DEF Start, Crash, Stopped
  <2> QED
    BY <1>1, <2>1, <2>2, OrderKept
<1>4. CASE Resume(o) \/ StrayLinkDrops(o)
  <2>1. UNCHANGED <<session, issued, gen>>
    BY <1>4 DEF Resume, StrayLinkDrops, rowVars
  <2> QED
    BY <2>1 DEF SessionsInOrder
<1>5. CASE Cancel(o) \/ Quarantine(o) \/ LeaseLost(o) \/ ShutDown(o) \/ RenewErrors(o)
  <2>1. UNCHANGED <<session, issued>>
    BY <1>5 DEF Cancel, Quarantine, LeaseLost, ShutDown, RenewErrors, rowVars
  <2>2. Kept
    BY <1>2, <1>5 DEF Cancel, Quarantine, LeaseLost, ShutDown, RenewErrors, Leave,
          Generation
  <2> QED
    BY <1>1, <2>1, <2>2, OrderKept
<1>6. CASE ProviderEvent(o) \/ TakeSession(o) \/ ConnectReturns(o)
  <2>1. UNCHANGED <<session, issued>>
    BY <1>6 DEF ProviderEvent, TakeSession, ConnectReturns, rowVars
  <2>2. Kept
    <3>1. CASE ProviderEvent(o)
      BY <1>2, <3>1 DEF ProviderEvent, Leave, Generation
    <3>2. CASE TakeSession(o)
      BY <1>2, <3>2 DEF TakeSession, Generation
    <3>3. CASE ConnectReturns(o)
      BY <1>2, <3>3 DEF ConnectReturns, Generation
    <3> QED
      BY <1>6, <3>1, <3>2, <3>3
  <2> QED
    BY <1>1, <2>1, <2>2, OrderKept
<1>7. CASE SessionChanged(o)
  <2>1. /\ issued' = issued + 1 /\ session' = session
        /\ gen'[o].snap = gen[o].snap /\ gen'[o].pending = gen[o].pending
        /\ gen'[o].mailbox = issued + 1
    BY <1>2, <1>7 DEF SessionChanged, Generation
  <2>2. issued \in Nat /\ session \in Snapshot
    BY DEF ActorTypeOK, Versions
  <2>3. ASSUME NEW p \in Owners
        PROVE  /\ gen'[p].snap = gen[p].snap /\ gen'[p].pending = gen[p].pending
               /\ gen'[p].mailbox \in {gen[p].mailbox, issued + 1}
               /\ gen[p].snap.data \in Nat /\ gen[p].pending \in Nat
               /\ gen[p].mailbox \in Nat
    <3>1. gen[p].snap \in Snapshot /\ gen[p].pending \in Nat /\ gen[p].mailbox \in Nat
      BY DEF ActorTypeOK, Generation, Versions
    <3>2. CASE p = o
      BY <2>1, <3>1, <3>2 DEF Snapshot, Versions
    <3>3. CASE p # o
      BY <1>1, <3>1, <3>3 DEF Snapshot, Versions
    <3> QED
      BY <3>2, <3>3
  <2> QED
    BY <2>1, <2>2, <2>3 DEF SessionsInOrder, Snapshot, Versions
<1>8. CASE DebounceFlush(o)
  <2>1. issued' = issued
    BY <1>8 DEF DebounceFlush
  <2>2. CASE UNCHANGED session /\ gen'[o].snap = gen[o].snap
    <3>1. gen'[o].mailbox = 0 /\ gen'[o].pending \in {0, gen[o].mailbox, gen[o].pending}
      BY <1>2, <1>8 DEF DebounceFlush, Flushed, Generation, Latest
    <3> QED
      BY <1>1, <2>1, <2>2, <3>1, OrderKept
  <2>3. CASE ~(UNCHANGED session /\ gen'[o].snap = gen[o].snap)
    <3>1. SwapAdmitted(o) /\ session' = Swapped(o) /\ ~gen[o].done
      BY <1>2, <1>8, <2>3 DEF DebounceFlush, Flushed, Generation
    <3>2. /\ gen'[o].snap \in {Swapped(o), gen[o].snap}
          /\ gen'[o].mailbox = 0 /\ gen'[o].pending = 0
      BY <1>2, <1>8, <3>1 DEF DebounceFlush, Flushed, Generation
    <3>3. Latest(o) # 0
      BY <1>8 DEF DebounceFlush, Latest
    <3> QED
      BY <1>1, <2>1, <3>1, <3>2, <3>3, OrderSwapped
  <2> QED
    BY <2>2, <2>3
<1> QED
  BY <1>3, <1>4, <1>5, <1>6, <1>7, <1>8 DEF LoopStep

(* One step keeps the sessions in order. *)
LEMMA SessionOrderStep ==
    ActorTypeOK /\ SessionsInOrder /\ FreshBeforeLoad /\ [Next]_vars => SessionsInOrder'
<1> SUFFICES ASSUME ActorTypeOK, SessionsInOrder, FreshBeforeLoad, [Next]_vars
             PROVE  SessionsInOrder'
  OBVIOUS
<1>1. CASE CommitPairedSession
  <2>1. /\ session'.rev = session.rev + 1 /\ session'.data = issued + 1
        /\ issued' = issued + 1 /\ gen' = gen
    BY <1>1 DEF CommitPairedSession
  <2>2. /\ session.rev \in Nat /\ session.data \in Nat /\ issued \in Nat
        /\ \A p \in Owners : /\ gen[p].snap.data \in Nat /\ gen[p].snap.rev \in Nat
                             /\ gen[p].mailbox \in Nat /\ gen[p].pending \in Nat
    BY DEF ActorTypeOK, Generation, Snapshot, Versions
  <2> QED
    BY <2>1, <2>2 DEF SessionsInOrder
<1>2. CASE \/ LeaseExpires \/ UNCHANGED vars
           \/ MarkReauthorizationRequired \/ MarkUnfenced \/ MarkUnfencedEnds
           \/ \E o \in Owners : QuarantineBackfillConnection(o)
           \/ BeginPairing \/ RestorePairing
  <2>1. UNCHANGED <<session, issued, gen>>
    BY <1>2 DEF LeaseExpires, vars, MarkReauthorizationRequired, MarkUnfenced,
          MarkUnfencedEnds, QuarantineBackfillConnection, BeginPairing, RestorePairing,
          rowVars
  <2> QED
    BY <2>1 DEF SessionsInOrder
<1> QED
  BY <1>1, <1>2, RunStepOrder, ProcessStepOrder DEF Next, ControlPlane

-----------------------------------------------------------------------------
(* One step of a process keeps its own account of client and sessions. *)
LEMMA RunStepAccounts ==
    ASSUME ActorTypeOK, NEW o \in Owners, FreshRun(o), LinkHeld(o), NewestHeld(o),
           RunStep(o)
    PROVE  FreshRun(o)' /\ LinkHeld(o)' /\ NewestHeld(o)'
<1>1. /\ gen \in [Owners -> Generation] /\ gen[o] \in Generation
      /\ link \in [Owners -> BOOLEAN] /\ tomb \in [Owners -> Tombstones]
      /\ session \in Snapshot
  BY DEF ActorTypeOK
<1>2. ASSUME Goto(o, "releasing"), link' = link, link[o] => tomb'[o] = "joinTimeout"
      PROVE  FreshRun(o)' /\ LinkHeld(o)' /\ NewestHeld(o)'
  <2>1. gen'[o] = Returned
    BY <1>1, <1>2 DEF Goto
  <2> QED
    BY <1>2, <2>1 DEF Returned, Stopped, FreshRun, LinkHeld, NewestHeld, Latest
<1> USE DEF FreshRun, LinkHeld, NewestHeld, Latest
<1>3. CASE ReadConnection(o)
  BY <1>1, <1>2, <1>3 DEF ReadConnection, Goto, Generation
<1>4. CASE LoadSession(o)
  BY <1>1, <1>2, <1>4 DEF LoadSession, Generation
<1>5. CASE Announce(o) \/ BackoffEnds(o)
  BY <1>1, <1>2, <1>5 DEF Announce, BackoffEnds, Goto, Generation
<1>6. CASE RestoreFails(o)
  BY <1>1, <1>2, <1>6 DEF RestoreFails
<1>7. CASE Restore(o)
  BY <1>1, <1>7 DEF Restore, Generation
<1>8. CASE Join(o)
  BY <1>1, <1>8 DEF Join, Generation
<1>9. CASE JoinTimesOut(o)
  BY <1>1, <1>9 DEF JoinTimesOut, Generation
<1>10. CASE FinalFlush(o)
  <2>1. CASE Latest(o) = 0
    <3>1. gen' = [gen EXCEPT ![o].pc = "deciding", ![o].accepting = FALSE]
          /\ link' = link /\ tomb' = tomb /\ gen[o].pc = "flushing"
      BY <1>10, <2>1 DEF FinalFlush
    <3> QED
      BY <1>1, <2>1, <3>1 DEF Generation
  <2>2. CASE Latest(o) # 0 /\ Goto(o, "releasing")
    <3>1. CASE gen[o].joined
      BY <1>1, <1>2, <1>10, <2>2, <3>1 DEF FinalFlush
    <3>2. CASE ~gen[o].joined
      <4>1. ASSUME ~LeaveTombstone(o)
            PROVE  FALSE
        <5>1. gen' = [gen EXCEPT ![o] = [@ EXCEPT !.pc = "deciding",
                      !.accepting = FALSE, !.snap = Swapped(o),
                      !.pending = 0, !.mailbox = 0]]
          BY <1>10, <2>2, <4>1 DEF FinalFlush
        <5>2. gen'[o].pc = "deciding"
          BY <1>1, <5>1 DEF Generation
        <5>3. gen'[o].pc = "releasing"
          BY <1>1, <2>2 DEF Goto, Returned, Stopped
        <5> QED
          BY <5>2, <5>3
      <4> QED
        BY <1>1, <1>2, <1>10, <2>2, <3>2, <4>1 DEF FinalFlush, LeaveTombstone
    <3> QED
      BY <3>1, <3>2
  <2>3. CASE Latest(o) # 0 /\ ~Goto(o, "releasing")
    <3>1. gen' = [gen EXCEPT ![o] = [@ EXCEPT !.pc = "deciding", !.accepting = FALSE,
                      !.snap = Swapped(o), !.pending = 0, !.mailbox = 0]]
          /\ link' = link /\ tomb' = tomb /\ gen[o].pc = "flushing"
      BY <1>10, <2>3 DEF FinalFlush
    <3>2. gen'[o] = [gen[o] EXCEPT !.pc = "deciding", !.accepting = FALSE,
                      !.snap = Swapped(o), !.pending = 0, !.mailbox = 0]
      BY <1>1, <3>1
    <3>3. Swapped(o).data = Latest(o)
      BY DEF Swapped
    <3> QED
      BY <1>1, <2>3, <3>1, <3>2, <3>3 DEF Generation
  <2> QED
    BY <2>1, <2>2, <2>3
<1>11. CASE Finish(o)
  BY <1>1, <1>2, <1>11 DEF Finish, LeaveTombstone
<1>12. CASE HandleFailure(o)
  BY <1>1, <1>2, <1>12 DEF HandleFailure, Goto, Generation
<1>13. CASE MarkReauthorizationRequiredFenced(o)
  BY <1>1, <1>2, <1>13 DEF MarkReauthorizationRequiredFenced
<1>14. CASE StoreFails(o)
  BY <1>1, <1>2, <1>14 DEF StoreFails
<1>15. CASE Release(o)
  BY <1>1, <1>15 DEF Release, Stopped
<1> QED
  BY <1>3, <1>4, <1>5, <1>6, <1>7, <1>8, <1>9, <1>10, <1>11, <1>12, <1>13, <1>14,
     <1>15 DEF RunStep

(* So does every other step of a process. *)
LEMMA ProcessStepAccounts ==
    ASSUME ActorTypeOK, NEW o \in Owners, FreshRun(o), LinkHeld(o), NewestHeld(o),
           \/ Start(o) \/ Cancel(o) \/ Quarantine(o) \/ Resume(o)
           \/ LoopStep(o) \/ LeaseLost(o) \/ ShutDown(o)
           \/ StrayLinkDrops(o) \/ Crash(o)
    PROVE  FreshRun(o)' /\ LinkHeld(o)' /\ NewestHeld(o)'
<1>1. /\ gen \in [Owners -> Generation] /\ gen[o] \in Generation
      /\ link \in [Owners -> BOOLEAN] /\ tomb \in [Owners -> Tombstones]
      /\ session \in Snapshot /\ issued \in Nat
  BY DEF ActorTypeOK, Versions
<1> USE DEF FreshRun, LinkHeld, NewestHeld, Latest
<1>2. CASE Start(o)
  BY <1>1, <1>2 DEF Start, Stopped
<1>3. CASE Crash(o)
  BY <1>1, <1>3 DEF Crash, Stopped
<1>4. CASE Cancel(o)
  BY <1>1, <1>4 DEF Cancel, Generation
<1>5. CASE Quarantine(o)
  <2>1. PICK d \in BOOLEAN : gen' = [gen EXCEPT ![o].done = d]
    BY <1>5 DEF Quarantine
  <2> QED
    BY <1>1, <1>5, <2>1 DEF Quarantine, Generation
<1>6. CASE Resume(o) \/ StrayLinkDrops(o)
  BY <1>1, <1>6 DEF Resume, StrayLinkDrops
<1>7. CASE LeaseLost(o) \/ ShutDown(o) \/ RenewErrors(o)
  <2>1. PICK kind \in {"shutdown", "leaseLost"} : Leave(o, kind)
    BY <1>7 DEF LeaseLost, ShutDown, RenewErrors
  <2>2. gen[o].pc = "running" /\ link' = link /\ tomb' = tomb
    BY <1>7 DEF LeaseLost, ShutDown, RenewErrors
  <2> QED
    BY <1>1, <2>1, <2>2 DEF Leave, Generation
<1>8. CASE ProviderEvent(o)
  <2>1. gen[o].pc = "running" /\ link' = link /\ tomb' = tomb
    BY <1>8 DEF ProviderEvent
  <2>2. CASE \E kind \in {"shutdown", "leaseLost"} : Leave(o, kind)
    BY <1>1, <2>1, <2>2 DEF Leave, Generation
  <2>3. CASE \E ready \in BOOLEAN : gen' = [gen EXCEPT ![o].ready = ready]
    BY <1>1, <2>1, <2>3 DEF Generation
  <2>4. gen[o].ready \in BOOLEAN
    BY <1>1 DEF Generation
  <2> QED
    BY <1>8, <2>2, <2>3, <2>4 DEF ProviderEvent
<1>9. CASE SessionChanged(o)
  BY <1>1, <1>9 DEF SessionChanged, Generation
<1>10. CASE TakeSession(o)
  BY <1>1, <1>10 DEF TakeSession, Generation
<1>11. CASE ConnectReturns(o)
  BY <1>1, <1>11 DEF ConnectReturns, Generation
<1>12. CASE DebounceFlush(o)
  <2>1. gen[o].pc = "running" /\ link' = link /\ tomb' = tomb /\ gen[o].pending # 0
    BY <1>12 DEF DebounceFlush
  <2>2. CASE gen[o].done
    BY <1>1, <1>12, <2>1, <2>2 DEF DebounceFlush, Generation
  <2>3. CASE ~gen[o].done /\ Flushed(o, "running")
    <3>1. Swapped(o).data = Latest(o) /\ Latest(o) # 0
      BY <2>1 DEF Swapped
    <3>2. /\ gen'[o] = [gen[o] EXCEPT !.pc = "running", !.snap = Swapped(o),
                                      !.pending = 0, !.mailbox = 0]
      BY <1>1, <2>3 DEF Flushed
    <3> HIDE DEF Latest
    <3>3. Latest(o)' = 0
      BY <1>1, <3>2 DEF Latest, Generation
    <3> QED
      BY <1>1, <2>1, <3>1, <3>2, <3>3 DEF Generation
  <2>4. CASE ~gen[o].done /\ ~Flushed(o, "running")
    BY <1>1, <1>12, <2>1, <2>4 DEF DebounceFlush, Generation
  <2> QED
    BY <2>2, <2>3, <2>4
<1> QED
  BY <1>2, <1>3, <1>4, <1>5, <1>6, <1>7, <1>8, <1>9, <1>10, <1>11, <1>12 DEF LoopStep

(* One step keeps the account of every process: the others' clients, tombstones
   and sessions are not touched. *)
LEMMA AccountsStep ==
    ActorTypeOK /\ FreshBeforeLoad /\ LinkAccounted /\ NewestAccounted /\ [Next]_vars
        => FreshBeforeLoad' /\ LinkAccounted' /\ NewestAccounted'
<1> SUFFICES ASSUME ActorTypeOK, FreshBeforeLoad, LinkAccounted, NewestAccounted,
                    [Next]_vars, NEW p \in Owners
             PROVE  FreshRun(p)' /\ LinkHeld(p)' /\ NewestHeld(p)'
  BY DEF FreshBeforeLoad, LinkAccounted, NewestAccounted
<1>1. FreshRun(p) /\ LinkHeld(p) /\ NewestHeld(p)
  BY DEF FreshBeforeLoad, LinkAccounted, NewestAccounted
<1>2. /\ gen \in [Owners -> Generation]
      /\ link \in [Owners -> BOOLEAN] /\ tomb \in [Owners -> Tombstones]
  BY DEF ActorTypeOK
<1>3. ASSUME gen'[p] = gen[p], link'[p] = link[p], tomb'[p] = tomb[p]
      PROVE  FreshRun(p)' /\ LinkHeld(p)' /\ NewestHeld(p)'
  BY <1>1, <1>3 DEF FreshRun, LinkHeld, NewestHeld, Latest
<1>4. ASSUME NEW o \in Owners, o # p,
             \/ Start(o) \/ Cancel(o) \/ Quarantine(o) \/ Resume(o) \/ RunStep(o)
             \/ LoopStep(o) \/ LeaseLost(o) \/ ShutDown(o) \/ StrayLinkDrops(o) \/ Crash(o)
      PROVE  gen'[p] = gen[p] /\ link'[p] = link[p] /\ tomb'[p] = tomb[p]
  <2>1. gen'[p] = gen[p]
    BY <1>4, OthersKept
  <2>2. CASE ~RunStep(o)
    BY <1>2, <1>4, <2>1, <2>2 DEF Start, Cancel, Quarantine, Resume, LoopStep, LeaseLost,
          ShutDown, StrayLinkDrops, Crash, ProviderEvent, SessionChanged, TakeSession,
          DebounceFlush, RenewErrors, ConnectReturns
  <2>3. CASE RunStep(o)
    BY <1>2, <1>4, <2>1, <2>3 DEF RunStep, ReadConnection, LoadSession, Announce, Restore,
          RestoreFails, Join, JoinTimesOut, FinalFlush, Finish, LeaveTombstone,
          HandleFailure, MarkReauthorizationRequiredFenced, BackoffEnds, StoreFails, Release
  <2> QED
    BY <2>2, <2>3
<1>5. CASE \E o \in Owners : RunStep(o)
  BY <1>1, <1>3, <1>4, <1>5, RunStepAccounts
<1>6. CASE \E o \in Owners :
              \/ Start(o) \/ Cancel(o) \/ Quarantine(o) \/ Resume(o)
              \/ LoopStep(o) \/ LeaseLost(o) \/ ShutDown(o)
              \/ StrayLinkDrops(o) \/ Crash(o)
  BY <1>1, <1>3, <1>4, <1>6, ProcessStepAccounts
\* A quarantine leaves a join timeout alone.
<1>7. ASSUME NEW o \in Owners, QuarantineBackfillConnection(o)
      PROVE  FreshRun(p)' /\ LinkHeld(p)' /\ NewestHeld(p)'
  <2>1. gen' = gen /\ link' = link
    BY <1>7 DEF QuarantineBackfillConnection
  <2>2. tomb[p] = "joinTimeout" => tomb'[p] = "joinTimeout"
    BY <1>2, <1>7 DEF QuarantineBackfillConnection
  <2> QED
    BY <1>1, <2>1, <2>2 DEF FreshRun, LinkHeld, NewestHeld, Latest
<1>8. CASE \/ LeaseExpires \/ UNCHANGED vars
           \/ MarkReauthorizationRequired \/ MarkUnfenced \/ MarkUnfencedEnds
           \/ BeginPairing \/ RestorePairing \/ CommitPairedSession
  BY <1>3, <1>8 DEF LeaseExpires, vars, MarkReauthorizationRequired, MarkUnfenced,
        MarkUnfencedEnds, BeginPairing, RestorePairing, CommitPairedSession
<1> QED
  BY <1>5, <1>6, <1>7, <1>8 DEF Next, ControlPlane

-----------------------------------------------------------------------------
(* One step keeps the health row at or behind the lease's token, and a suspended
   connection quiet: only the quarantine suspends, it takes the lease from every
   generation, and whoever acquires it next reads the state before it writes. *)
LEMMA SuspendedStep ==
    ActorTypeOK /\ HoldersBehindRow /\ SuspendedIsQuiet /\ [Next]_vars => SuspendedIsQuiet'
<1> SUFFICES ASSUME ActorTypeOK, HoldersBehindRow, SuspendedIsQuiet, [Next]_vars
             PROVE  SuspendedIsQuiet'
  OBVIOUS
<1>1. /\ gen \in [Owners -> Generation] /\ held \in [Owners -> 0..MaxToken]
      /\ lease \in LeaseRow /\ lease.token \in Nat /\ health.token \in Nat
  BY DEF ActorTypeOK, LeaseTypeOK, LeaseRow
\* The health writes of a run: nothing while suspended, the row's token otherwise.
<1>2. ASSUME NEW o \in Owners, NEW s \in {"connecting", "ready", "backoff", "stopped"},
             WriteHealthLive(o, s) \/ WriteHealth(o, s) \/ UNCHANGED health,
             gen[o].pc \notin {"stopped", "acquired", "releasing"}
      PROVE  /\ health'.token <= lease.token
             /\ conn.state = "suspended" => health' = health
  BY <1>1, <1>2 DEF SuspendedIsQuiet, WriteHealthLive, WriteHealth, HealthAccepted,
        HealthWritable, OwnsLease
\* A step that keeps the lease and the state and lets no run past "acquired".
<1>3. ASSUME NEW o \in Owners, UNCHANGED <<lease, held>>,
             conn' = conn \/ conn'.state # "suspended",
             health'.token <= lease.token,
             conn.state = "suspended" => health'.actor = health.actor,
             \A p \in Owners \ {o} : gen'[p] = gen[p],
             \/ gen[o].pc \notin {"stopped", "acquired", "releasing"}
             \/ gen'[o].pc \in {"stopped", "acquired", "releasing"}
             \/ conn.state # "suspended"
      PROVE  SuspendedIsQuiet'
  BY <1>3 DEF SuspendedIsQuiet, OwnsLease
<1>4. ASSUME NEW o \in Owners, RunStep(o)
      PROVE  SuspendedIsQuiet'
  <2>1. \A p \in Owners \ {o} : gen'[p] = gen[p]
    BY <1>4, OthersKept
  <2>2. CASE Release(o)
    <3>1. /\ gen'[o].pc = "stopped" /\ conn' = conn /\ health' = health
          /\ held' = [held EXCEPT ![o] = 0]
      BY <1>1, <2>2 DEF Release, ReleaseConnectionLease, ReleaseLost, Stopped, rowVars
    <3>2. lease' = lease \/ lease' = [lease EXCEPT !.owner = NoOwner, !.live = FALSE]
      BY <2>2 DEF Release, ReleaseConnectionLease, ReleaseLost
    <3>3. lease'.token = lease.token
      BY <1>1, <3>2 DEF LeaseRow
    <3>4. ASSUME NEW p \in Owners, OwnsLease(p)'
          PROVE  p # o /\ OwnsLease(p)
      BY <1>1, <3>1, <3>2, <3>4 DEF OwnsLease, LeaseRow
    <3> QED
      BY <2>1, <3>1, <3>3, <3>4 DEF SuspendedIsQuiet
  <2>3. CASE ReadConnection(o)
    <3>1. /\ UNCHANGED <<lease, held>> /\ conn' = conn /\ health' = health
          /\ gen'[o].pc = "releasing" \/ conn.state # "suspended"
      BY <1>1, <2>3 DEF ReadConnection, Goto, Returned, Stopped, leaseVars, rowVars
    <3> QED
      BY <1>3, <2>1, <3>1 DEF SuspendedIsQuiet
  <2>4. CASE LoadSession(o) \/ Restore(o) \/ Join(o) \/ JoinTimesOut(o)
    <3>1. /\ UNCHANGED <<lease, held>> /\ conn' = conn /\ health' = health
          /\ gen[o].pc \notin {"stopped", "acquired", "releasing"}
      BY <2>4 DEF LoadSession, Restore, Join, JoinTimesOut, leaseVars, rowVars
    <3> QED
      BY <1>3, <2>1, <3>1 DEF SuspendedIsQuiet
  <2>5. CASE \/ Announce(o) \/ RestoreFails(o) \/ BackoffEnds(o) \/ HandleFailure(o)
             \/ FinalFlush(o) \/ Finish(o) \/ MarkReauthorizationRequiredFenced(o)
    <3>1. PICK s \in {"connecting", "ready", "backoff", "stopped"} :
              WriteHealthLive(o, s) \/ WriteHealth(o, s) \/ UNCHANGED health
      BY <2>5 DEF Announce, RestoreFails, BackoffEnds, HandleFailure, FinalFlush, Finish,
            MarkReauthorizationRequiredFenced
    <3>2. gen[o].pc \notin {"stopped", "acquired", "releasing"} /\ UNCHANGED <<lease, held>>
      BY <2>5 DEF Announce, RestoreFails, BackoffEnds, HandleFailure, FinalFlush, Finish,
            MarkReauthorizationRequiredFenced, leaseVars
    <3>3. conn' = conn \/ conn'.state # "suspended"
      BY <2>5 DEF Announce, RestoreFails, BackoffEnds, HandleFailure, FinalFlush, Finish,
            MarkReauthorizationRequiredFenced, ActorTypeOK
    <3> QED
      BY <1>2, <1>3, <2>1, <3>1, <3>2, <3>3
  <2>6. CASE StoreFails(o)
    <3>1. UNCHANGED <<lease, held>> /\ conn' = conn
      BY <2>6 DEF StoreFails, leaseVars
    <3>2. gen'[o].pc = "releasing"
      BY <1>1, <2>6 DEF StoreFails, Goto, Returned, Stopped
    <3>3. CASE gen[o].pc = "acquired"
      <4>1. health' = health
        BY <2>6, <3>3 DEF StoreFails
      <4> QED
        BY <1>3, <2>1, <3>1, <3>2, <4>1 DEF SuspendedIsQuiet
    <3>4. CASE gen[o].pc # "acquired"
      <4>1. PICK s \in {"connecting", "ready", "backoff", "stopped"} :
                WriteHealthLive(o, s) \/ WriteHealth(o, s) \/ UNCHANGED health
        BY <2>6 DEF StoreFails
      <4>2. gen[o].pc \notin {"stopped", "acquired", "releasing"}
        BY <2>6, <3>4 DEF StoreFails
      <4> QED
        BY <1>2, <1>3, <2>1, <3>1, <4>1, <4>2
    <3> QED
      BY <3>3, <3>4
  <2> QED
    BY <1>4, <2>2, <2>3, <2>4, <2>5, <2>6 DEF RunStep
<1>5. ASSUME NEW o \in Owners, LoopStep(o) \/ LeaseLost(o) \/ ShutDown(o)
      PROVE  SuspendedIsQuiet'
  <2>1. \A p \in Owners \ {o} : gen'[p] = gen[p]
    BY <1>5, OthersKept
  <2>2. CASE SessionChanged(o)
    <3>1. gen'[o].pc = gen[o].pc
      BY <1>1, <2>2 DEF SessionChanged, Generation
    <3>2. UNCHANGED <<lease, held, conn, health>>
      BY <2>2 DEF SessionChanged, leaseVars
    <3> QED
      BY <1>3, <2>1, <3>1, <3>2 DEF SuspendedIsQuiet
  <2>3. CASE ProviderEvent(o)
    <3>1. PICK s \in {"connecting", "ready", "backoff", "stopped"} : WriteHealthLive(o, s)
      BY <2>3 DEF ProviderEvent
    <3>2. gen[o].pc = "running" /\ UNCHANGED <<lease, held, conn>>
      BY <2>3 DEF ProviderEvent, leaseVars
    <3> QED
      BY <1>2, <1>3, <2>1, <3>1, <3>2
  <2>4. CASE \/ TakeSession(o) \/ DebounceFlush(o) \/ RenewErrors(o) \/ ConnectReturns(o)
             \/ LeaseLost(o) \/ ShutDown(o)
    <3>1. gen[o].pc = "running" /\ UNCHANGED <<lease, held, conn, health>>
      BY <2>4 DEF TakeSession, DebounceFlush, RenewErrors, ConnectReturns, LeaseLost,
            ShutDown, leaseVars, rowVars
    <3> QED
      BY <1>3, <2>1, <3>1 DEF SuspendedIsQuiet
  <2> QED
    BY <1>5, <2>2, <2>3, <2>4 DEF LoopStep
<1>6. ASSUME NEW o \in Owners, Cancel(o) \/ Quarantine(o)
      PROVE  SuspendedIsQuiet'
  <2>1. gen'[o].pc = gen[o].pc
    BY <1>1, <1>6 DEF Cancel, Quarantine, Generation
  <2>2. UNCHANGED <<lease, held, conn, health>>
    BY <1>6 DEF Cancel, Quarantine, leaseVars, rowVars
  <2>3. \A p \in Owners \ {o} : gen'[p] = gen[p]
    BY <1>6, OthersKept
  <2> QED
    BY <1>3, <2>1, <2>2, <2>3 DEF SuspendedIsQuiet
\* The new generation has not read the state yet, and the others lost the row.
<1>7. ASSUME NEW o \in Owners, Start(o)
      PROVE  SuspendedIsQuiet'
  <2>1. /\ gen'[o].pc = "acquired" /\ UNCHANGED <<conn, health>>
        /\ lease' = [owner |-> o, token |-> AcquiredToken(o), live |-> TRUE]
    BY <1>1, <1>7 DEF Start, AcquireConnectionLease, Stopped, rowVars
  <2>2. lease'.token >= lease.token /\ lease'.token \in Nat
    BY <1>1, <2>1 DEF AcquiredToken
  <2>3. \A p \in Owners : OwnsLease(p)' => p = o
    BY <2>1 DEF OwnsLease
  <2> QED
    BY <1>1, <2>1, <2>2, <2>3 DEF SuspendedIsQuiet
<1>8. ASSUME NEW o \in Owners, Crash(o)
      PROVE  SuspendedIsQuiet'
  <2>1. /\ gen'[o].pc = "stopped" /\ UNCHANGED <<conn, health, lease>>
        /\ held' = [held EXCEPT ![o] = 0]
    BY <1>1, <1>8 DEF Crash, Stopped, rowVars
  <2>2. \A p \in Owners \ {o} : gen'[p] = gen[p]
    BY <1>8, OthersKept
  <2> QED
    BY <1>1, <2>1, <2>2 DEF SuspendedIsQuiet, OwnsLease
\* The fence: nobody owns the lease.
<1>9. ASSUME NEW o \in Owners, QuarantineBackfillConnection(o)
      PROVE  SuspendedIsQuiet'
  <2>1. /\ lease' = [owner |-> NoOwner, token |-> lease.token + 1, live |-> FALSE]
        /\ health' = [token |-> lease.token + 1, actor |-> "stopped"]
    BY <1>9 DEF QuarantineBackfillConnection, FenceConnectionLease
  <2>2. \A p \in Owners : ~OwnsLease(p)'
    BY <2>1 DEF OwnsLease
  <2> QED
    BY <1>1, <2>1, <2>2 DEF SuspendedIsQuiet
<1>10. CASE MarkReauthorizationRequired
  <2>1. /\ lease' = [owner |-> NoOwner, token |-> lease.token + 1, live |-> FALSE]
        /\ conn'.state = "reauthorization-required" /\ health' = health
    BY <1>10 DEF MarkReauthorizationRequired, FenceForReauthorization,
          FenceConnectionLease, ActorTypeOK
  <2> QED
    BY <1>1, <2>1 DEF SuspendedIsQuiet
<1>11. CASE MarkUnfenced \/ MarkUnfencedEnds \/ BeginPairing \/ RestorePairing
            \/ CommitPairedSession
  <2>1. UNCHANGED <<lease, held, health, gen>>
    BY <1>11 DEF MarkUnfenced, MarkUnfencedEnds, BeginPairing, RestorePairing,
          CommitPairedSession, leaseVars
  <2>2. conn'.state = "suspended" => conn.state = "suspended"
    BY <1>11 DEF MarkUnfenced, MarkUnfencedEnds, BeginPairing, RestorePairing,
          CommitPairedSession, ActorTypeOK
  <2> QED
    BY <2>1, <2>2 DEF SuspendedIsQuiet, OwnsLease
<1>12. CASE LeaseExpires
  <2>1. UNCHANGED <<conn, held, health, gen>>
        /\ lease' = [lease EXCEPT !.live = FALSE]
    BY <1>12 DEF LeaseExpires, LeaseLapses, rowVars
  <2> QED
    BY <1>1, <2>1 DEF SuspendedIsQuiet, OwnsLease, LeaseRow
<1>13. CASE \/ UNCHANGED vars \/ \E o \in Owners : Resume(o) \/ StrayLinkDrops(o)
  <2>1. UNCHANGED <<lease, held, conn, health, gen>>
    BY <1>13 DEF vars, Resume, StrayLinkDrops, leaseVars, rowVars
  <2> QED
    BY <2>1 DEF SuspendedIsQuiet, OwnsLease
<1> QED
  BY <1>4, <1>5, <1>6, <1>7, <1>8, <1>9, <1>10, <1>11, <1>12, <1>13 DEF Next, ControlPlane

-----------------------------------------------------------------------------
(* The inductive invariant of the actor. *)
ActorInvariant ==
    /\ ActorTypeOK
    /\ HoldersBehindRow
    /\ SessionsInOrder
    /\ PairingHasPrior
    /\ FreshBeforeLoad
    /\ LinkAccounted
    /\ NewestAccounted
    /\ SuspendedIsQuiet

(* The invariant holds of an unpaired connection that nobody runs. *)
LEMMA ActorInvariantInit == Init => ActorInvariant
<1> SUFFICES ASSUME Init
             PROVE  ActorInvariant
  OBVIOUS
<1> USE DEF Init, LeaseInit
<1>1. ActorTypeOK
  <2>1. LeaseTypeOK
    BY DEF LeaseTypeOK, LeaseRow
  <2>2. 0 \in Versions
    BY DEF Versions
  <2>3. Stopped \in Generation
    BY <2>2 DEF Stopped, Generation, Snapshot
  <2> QED
    BY <2>1, <2>2, <2>3 DEF ActorTypeOK, Snapshot, Tombstones
<1>2. HoldersBehindRow
  <2> SUFFICES ASSUME NEW o \in Owners
               PROVE  /\ held[o] <= lease.token
                      /\ held[o] # 0 /\ held[o] = lease.token => lease.owner = o
    BY DEF HoldersBehindRow
  <2>1. held[o] = 0 /\ lease.token = 0
    OBVIOUS
  <2> QED
    BY <2>1
<1>3. SessionsInOrder
  <2>1. session.rev = 0 /\ session.data = 0 /\ issued = 0
    OBVIOUS
  <2>2. \A o \in Owners : /\ gen[o].snap.rev = 0 /\ gen[o].snap.data = 0
                          /\ gen[o].mailbox = 0 /\ gen[o].pending = 0
    BY DEF Stopped
  <2> QED
    BY <2>1, <2>2 DEF SessionsInOrder
<1>4. FreshBeforeLoad /\ LinkAccounted /\ NewestAccounted
  <2>1. \A o \in Owners : /\ gen[o].pc = "stopped" /\ ~gen[o].accepting /\ ~link[o]
    BY DEF Stopped
  <2> QED
    BY <2>1 DEF FreshBeforeLoad, LinkAccounted, NewestAccounted, FreshRun, LinkHeld,
          NewestHeld
<1>5. PairingHasPrior /\ SuspendedIsQuiet
  <2>1. health.token = 0 /\ lease.token = 0 /\ conn.state = "unpaired"
    OBVIOUS
  <2> QED
    BY <2>1 DEF PairingHasPrior, SuspendedIsQuiet
<1> QED
  BY <1>1, <1>2, <1>3, <1>4, <1>5 DEF ActorInvariant

(* Every step keeps the invariant. *)
LEMMA ActorInvariantStep == ActorInvariant /\ [Next]_vars => ActorInvariant'
<1> SUFFICES ASSUME ActorInvariant, [Next]_vars
             PROVE  ActorInvariant'
  OBVIOUS
<1> USE DEF ActorInvariant
<1>1. LeaseTypeOK
  BY DEF ActorTypeOK
<1>2. HoldersBehindRow'
  BY <1>1, ActorStepIsLeaseStep, HoldersStayBehind
<1> QED
  BY <1>2, ActorTypeStep, SessionOrderStep, PairingPriorStep, AccountsStep, SuspendedStep

(* Every reachable state of the actors has the types of the model and satisfies
   the invariant. *)
THEOREM ActorInvariantHolds == Spec => []ActorInvariant
  BY ActorInvariantInit, ActorInvariantStep, PTL DEF Spec

(* A process whose provider client is still up is never on the way to a new
   one. *)
THEOREM ActorReplacementNeverOverlaps == Spec => []ReplacementNeverOverlaps
<1>1. ActorInvariant => ReplacementNeverOverlaps
  BY DEF ActorInvariant, LinkAccounted, LinkHeld, ReplacementNeverOverlaps
<1> QED
  BY <1>1, ActorInvariantHolds, PTL

(* A generation that shuts down, loses its renewal or reconnects goes past its
   last flush with the newest session its callbacks accepted. *)
THEOREM ActorFlushedIsNewest == Spec => []FlushedIsNewest
<1>1. ActorInvariant => FlushedIsNewest
  <2> SUFFICES ASSUME NewestAccounted, NEW o \in Owners,
                      gen[o].pc \in {"deciding", "backoff"},
                      gen[o].exit \in {"shutdown", "leaseLost"} \/ gen[o].cause = "transient"
               PROVE  gen[o].snap.data = gen[o].newest
    BY DEF ActorInvariant, FlushedIsNewest
  <2> QED
    BY DEF NewestAccounted, NewestHeld
<1> QED
  BY <1>1, ActorInvariantHolds, PTL

(* No step stores a session produced earlier over one produced later. *)
THEOREM ActorSessionNeverRegresses == Spec => SessionNeverRegresses
<1> DEFINE Forward == session'.rev >= session.rev /\ session'.data >= session.data
<1>1. ASSUME ActorInvariant, [Next]_vars
      PROVE  [Forward]_vars
  <2>1. ActorTypeOK /\ SessionsInOrder
    BY <1>1 DEF ActorInvariant
  <2>2. session.rev \in Nat /\ session.data \in Nat /\ issued \in Nat
    BY <2>1 DEF ActorTypeOK, Snapshot, Versions
  <2>3. ASSUME session' = session
        PROVE  Forward
    BY <2>2, <2>3
  <2>4. ASSUME NEW o \in Owners, FinalFlush(o) \/ DebounceFlush(o)
        PROVE  Forward
    <3>1. session' = session \/ (SwapAdmitted(o) /\ Latest(o) # 0 /\ session' = Swapped(o))
      BY <2>4 DEF FinalFlush, DebounceFlush, Latest
    <3>2. CASE SwapAdmitted(o) /\ Latest(o) # 0 /\ session' = Swapped(o)
      <4>1. Latest(o) > session.data /\ Latest(o) \in Nat
        BY <2>1, <3>2, SwapIsNewer DEF Swapped, Snapshot, Versions
      <4> QED
        BY <2>2, <3>2, <4>1 DEF Swapped
    <3> QED
      BY <2>3, <3>1, <3>2
  <2>5. CASE CommitPairedSession
    <3>1. session'.rev = session.rev + 1 /\ session'.data = issued + 1
      BY <2>5 DEF CommitPairedSession
    <3> QED
      BY <2>1, <2>2, <3>1 DEF SessionsInOrder
  <2>6. ASSUME NEW o \in Owners, RunStep(o), ~FinalFlush(o)
        PROVE  session' = session
    BY <2>6 DEF RunStep, ReadConnection, LoadSession, Announce, Restore, RestoreFails,
          Join, JoinTimesOut, Finish, HandleFailure, MarkReauthorizationRequiredFenced,
          BackoffEnds, StoreFails, Release, rowVars
  <2>7. ASSUME NEW o \in Owners,
               \/ Start(o) \/ Cancel(o) \/ Quarantine(o) \/ Resume(o)
               \/ LoopStep(o) \/ LeaseLost(o) \/ ShutDown(o)
               \/ StrayLinkDrops(o) \/ Crash(o),
               ~DebounceFlush(o)
        PROVE  session' = session
    BY <2>7 DEF Start, Cancel, Quarantine, Resume, LoopStep, LeaseLost, ShutDown,
          StrayLinkDrops, Crash, ProviderEvent, SessionChanged, TakeSession, RenewErrors,
          ConnectReturns, rowVars
  <2>8. ASSUME ControlPlane, ~CommitPairedSession
        PROVE  session' = session
    BY <2>8 DEF ControlPlane, MarkReauthorizationRequired, MarkUnfenced, MarkUnfencedEnds,
          QuarantineBackfillConnection, BeginPairing, RestorePairing
  <2>9. ASSUME LeaseExpires
         PROVE  session' = session
    BY <2>9 DEF LeaseExpires, rowVars
  <2> QED
    BY <1>1, <2>3, <2>4, <2>5, <2>6, <2>7, <2>8, <2>9 DEF Next
<1> QED
  BY <1>1, ActorInvariantHolds, PTL DEF Spec, SessionNeverRegresses

(* While a connection stays suspended no step changes what its health row says of
   the actor or lowers the row's token. *)
THEOREM ActorQuarantineSticks == Spec => QuarantineSticks
<1> DEFINE Sticks == conn.state = "suspended" /\ conn'.state = "suspended" =>
                        health'.actor = health.actor /\ health'.token >= health.token
<1>1. ASSUME ActorInvariant, [Next]_vars
      PROVE  [Sticks]_vars
  <2>1. ActorTypeOK /\ SuspendedIsQuiet
    BY <1>1 DEF ActorInvariant
  <2>2. health.token \in Nat /\ lease.token \in Nat
    BY <2>1 DEF ActorTypeOK, LeaseTypeOK, LeaseRow
  <2>3. ASSUME health' = health
        PROVE  Sticks
    BY <2>2, <2>3
  <2>4. ASSUME NEW o \in Owners, NEW s,
               WriteHealthLive(o, s) \/ WriteHealth(o, s) \/ UNCHANGED health,
               gen[o].pc \notin {"stopped", "acquired", "releasing"}
        PROVE  Sticks
    BY <2>1, <2>2, <2>4 DEF SuspendedIsQuiet, WriteHealthLive, WriteHealth,
          HealthAccepted, HealthWritable
  <2>5. ASSUME NEW o \in Owners, RunStep(o)
        PROVE  Sticks
    <3>1. CASE \/ ReadConnection(o) \/ LoadSession(o) \/ Restore(o) \/ Join(o)
               \/ JoinTimesOut(o) \/ Release(o)
               \/ (StoreFails(o) /\ gen[o].pc = "acquired")
      <4>1. health' = health
        BY <3>1 DEF ReadConnection, LoadSession, Restore, Join, JoinTimesOut, Release,
              StoreFails, rowVars
      <4> QED
        BY <2>3, <4>1
    <3>2. CASE \/ Announce(o) \/ RestoreFails(o) \/ BackoffEnds(o) \/ HandleFailure(o)
               \/ FinalFlush(o) \/ Finish(o) \/ MarkReauthorizationRequiredFenced(o)
               \/ (StoreFails(o) /\ gen[o].pc # "acquired")
      <4>1. \E s \in {"connecting", "ready", "backoff", "stopped"} :
                WriteHealthLive(o, s) \/ WriteHealth(o, s) \/ UNCHANGED health
        BY <3>2 DEF Announce, RestoreFails, BackoffEnds, HandleFailure, FinalFlush,
              Finish, MarkReauthorizationRequiredFenced, StoreFails
      <4>2. gen[o].pc \notin {"stopped", "acquired", "releasing"}
        BY <3>2 DEF Announce, RestoreFails, BackoffEnds, HandleFailure, FinalFlush,
              Finish, MarkReauthorizationRequiredFenced, StoreFails
      <4> QED
        BY <2>4, <4>1, <4>2
    <3> QED
      BY <2>5, <3>1, <3>2 DEF RunStep
  <2>6. ASSUME NEW o \in Owners, ProviderEvent(o)
        PROVE  Sticks
    <3>1. gen[o].pc = "running" /\ \E s \in {"ready", "connecting"} : WriteHealthLive(o, s)
      BY <2>6 DEF ProviderEvent
    <3> QED
      BY <2>4, <3>1
  <2>7. ASSUME NEW o \in Owners,
               \/ Start(o) \/ Cancel(o) \/ Quarantine(o) \/ Resume(o)
               \/ LoopStep(o) \/ LeaseLost(o) \/ ShutDown(o)
               \/ StrayLinkDrops(o) \/ Crash(o),
               ~ProviderEvent(o)
        PROVE  health' = health
    BY <2>7 DEF Start, Cancel, Quarantine, Resume, LoopStep, LeaseLost, ShutDown,
          StrayLinkDrops, Crash, SessionChanged, TakeSession, DebounceFlush, RenewErrors,
          ConnectReturns, rowVars
  \* A second quarantine writes what the first one wrote, under a later token.
  <2>8. ASSUME NEW o \in Owners, QuarantineBackfillConnection(o)
        PROVE  Sticks
    <3>1. health' = [token |-> lease.token + 1, actor |-> "stopped"]
      BY <2>8 DEF QuarantineBackfillConnection
    <3> QED
      BY <2>1, <2>2, <3>1 DEF SuspendedIsQuiet
  <2>9. ASSUME \/ LeaseExpires \/ MarkReauthorizationRequired \/ MarkUnfenced
               \/ MarkUnfencedEnds \/ BeginPairing \/ RestorePairing \/ CommitPairedSession
        PROVE  health' = health
    BY <2>9 DEF LeaseExpires, MarkReauthorizationRequired, MarkUnfenced,
          MarkUnfencedEnds, BeginPairing, RestorePairing, CommitPairedSession, rowVars
  <2> HIDE DEF Sticks
  <2> QED
    BY <1>1, <2>3, <2>5, <2>6, <2>7, <2>8, <2>9 DEF Next, ControlPlane
<1> QED
  BY <1>1, ActorInvariantHolds, PTL DEF Spec, QuarantineSticks

(* The lease protocol's guarantees hold of the actors that run it. *)
THEOREM ActorTokenNamesOneOwner ==
    Spec => []TokenNamesOneOwner /\ HandoverAdvancesToken
  BY ActorImplementsLease, LeaseTokenNamesOneOwner, LeaseHandoverAdvancesToken, PTL
=============================================================================
