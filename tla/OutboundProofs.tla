--------------------------- MODULE OutboundProofs ---------------------------
(***************************************************************************)
(* Outbound dispatch for any number of processes, lanes, messages, claims  *)
(* and faults: it follows the lease protocol, is type-correct and safe.    *)
(***************************************************************************)
EXTENDS OutboundDispatch, ConnectionLeaseProofs

USE DispatchAssumption

-----------------------------------------------------------------------------
(***************************************************************************)
(* Outbound dispatch follows the lease protocol and is type-correct, for   *)
(* any number of processes, lanes and messages and any bounds.             *)
(***************************************************************************)

(* Every step of the dispatch model is a step of the lease protocol or leaves
   the lease alone. *)
LEMMA DispatchLeaseStep == LeaseTypeOK /\ [Next]_vars => [LeaseNext]_leaseVars
<1> SUFFICES ASSUME LeaseTypeOK, [Next]_vars
             PROVE  [LeaseNext]_leaseVars
  OBVIOUS
<1>1. ASSUME NEW m \in Messages, CreateOutbound(m)
      PROVE  UNCHANGED leaseVars
  BY <1>1 DEF CreateOutbound, leaseVars
<1>2. ASSUME NEW o \in Owners, NEW l \in Lanes,
             DispatchStep(o, l) \/ RenewProviderIO(o, l) \/ DispatchFault(o, l)
      PROVE  UNCHANGED leaseVars
  BY <1>2 DEF DispatchStep, DispatchFault, ListLane, ClaimNext, BeginProviderIO,
              ReleaseBeforeDispatch, OperationStarts, SendNotStarted, SendReturns,
              CompleteDispatch, RenewProviderIO, ClaimNextFails,
              BeginProviderIOFails, RenewProviderIOFails, FinishFails, leaseVars
<1>3. ASSUME NEW l \in Lanes, NEW t \in Claims, ProviderSend(l, t) \/ OperationEnds(l, t)
      PROVE  UNCHANGED leaseVars
  BY <1>3 DEF ProviderSend, OperationEnds, leaseVars
<1>4. ASSUME NEW o \in Owners, NEW m \in Messages, NEW s \in Evidence,
             ProjectProviderStatus(o, m, s)
      PROVE  UNCHANGED leaseVars
  BY <1>4 DEF ProjectProviderStatus, leaseVars
<1>5. ASSUME NEW o \in Owners, StartActor(o) \/ StopActor(o) \/ ActorLosesLease(o)
      PROVE  LeaseNext
  BY <1>5 DEF StartActor, StopActor, ActorLosesLease, LeaseNext
\* A crash forgets the generation, if one was running.
<1>6. ASSUME NEW o \in Owners, Crash(o)
      PROVE  [LeaseNext]_leaseVars
  <2>1. CASE held[o] = 0
    BY <1>6, <2>1 DEF Crash, leaseVars, LeaseTypeOK
  <2>2. CASE held[o] # 0
    BY <1>6, <2>2 DEF Crash, ReleaseLost, LeaseNext
  <2> QED
    BY <2>1, <2>2
<1>7. CASE FenceActor \/ LeaseExpires \/ LeaseExpiresEarly
  BY <1>7 DEF FenceActor, LeaseExpires, LeaseExpiresEarly, LeaseNext
<1>8. ASSUME NEW l \in Lanes, ClaimExpires(l) \/ ClaimExpiresEarly(l)
      PROVE  UNCHANGED leaseVars
  BY <1>8 DEF ClaimExpires, ClaimExpiresEarly, ClaimLapses, leaseVars
<1>9. CASE UNCHANGED vars
  BY <1>9 DEF vars, leaseVars
<1> QED
  BY <1>1, <1>2, <1>3, <1>4, <1>5, <1>6, <1>7, <1>8, <1>9 DEF Next

(* Dispatch, recovery, crashes and fences together implement the lease
   protocol, so its theorems hold of them. *)
THEOREM DispatchImplementsLease == Spec => LeaseSpec
<1>1. Init => LeaseInit
  BY DEF Init
<1>2. LeaseInit => LeaseTypeOK
  BY LeaseAssumption DEF LeaseInit, LeaseTypeOK, LeaseRow
<1>3. LeaseTypeOK /\ [Next]_vars => LeaseTypeOK'
  BY DispatchLeaseStep, LeaseTypeStep
<1> QED
  BY <1>1, <1>2, <1>3, DispatchLeaseStep, PTL DEF Spec, LeaseSpec

(* A status folded onto a state gives one of the two. *)
LEMMA ObserveType ==
    ASSUME NEW current \in MessageStates \cup {""}, NEW observed \in MessageStates
    PROVE  Observe(current, observed) \in MessageStates \cup {""}
BY DEF Observe

(* The states DispatchLane reports are message states. *)
LEMMA CompletedType ==
    ASSUME NEW current \in MessageStates \cup {""}, NEW outcome
    PROVE  Completed(current, outcome) \in MessageStates \cup {""}
<1>1. {"provider_accepted", "awaiting_phone", "failed", "uncertain"} \subseteq MessageStates
  BY DEF MessageStates
<1> DEFINE first == Observe(current, "provider_accepted")
<1>2. first \in MessageStates \cup {""}
  BY <1>1, ObserveType
<1> HIDE DEF first
<1>3. Observe(first, "awaiting_phone") \in MessageStates \cup {""}
  BY <1>1, <1>2, ObserveType
<1>4. /\ Observe(current, "failed") \in MessageStates \cup {""}
      /\ Observe(current, "uncertain") \in MessageStates \cup {""}
  BY <1>1, ObserveType
<1> QED
  BY <1>3, <1>4 DEF Completed, first

(* Completing an attempt and beginning its I/O keep its row well-formed. *)
LEMMA AttemptUpdates ==
    ASSUME NEW r \in AttemptRow
    PROVE  /\ [r EXCEPT !.phase = "complete"] \in AttemptRow
           /\ [r EXCEPT !.phase = "provider_io_started", !.io = TRUE] \in AttemptRow
BY DEF AttemptRow, OpenPhases

(* Moving a DispatchLane call on, and deciding its outcome, keep it
   well-formed. *)
LEMMA CallUpdates ==
    ASSUME NEW c \in DispatchCall, NEW p \in CallPoints, NEW r \in Outcomes
    PROVE  /\ [c EXCEPT !.pc = p] \in DispatchCall
           /\ [c EXCEPT !.outcome = r] \in DispatchCall
           /\ [c EXCEPT !.pc = p, !.outcome = r] \in DispatchCall
BY DEF DispatchCall

(* The types of the rows of the dispatch store. *)
RowsTypeOK ==
    /\ st \in [Messages -> MessageStates \cup {""}]
    /\ derived \in [Messages -> MessageStates \cup {""}]
    /\ lane \in [Lanes -> LaneRow]
    /\ att \in [Lanes -> [Claims -> AttemptRow]]

(* Closing an attempt keeps the rows' types. *)
LEMMA FinishClaimTypes ==
    ASSUME RowsTypeOK, NEW l \in Lanes, NEW t \in 0..MaxClaims, FinishClaim(l, t)
    PROVE  /\ lane' \in [Lanes -> LaneRow]
           /\ att' \in [Lanes -> [Claims -> AttemptRow]]
<1>1. FreeLane(t) \in LaneRow
  BY DEF FreeLane, LaneRow
<1>2. lane' \in [Lanes -> LaneRow]
  BY <1>1 DEF RowsTypeOK, FinishClaim
<1>3. att' \in [Lanes -> [Claims -> AttemptRow]]
  <2> DEFINE row(c) == [att[l][c] EXCEPT !.phase = "complete"]
  <2>1. att[l] \in [Claims -> AttemptRow]
    BY DEF RowsTypeOK
  <2>2. ASSUME NEW c \in Claims  PROVE row(c) \in AttemptRow
    <3>1. att[l][c] \in AttemptRow
      BY <2>1
    <3> QED
      BY <3>1, AttemptUpdates
  <2>3. att' = [att EXCEPT ![l] = [att[l] EXCEPT ![t] = row(t)]]
    BY DEF FinishClaim
  <2> HIDE DEF row
  <2>4. [att[l] EXCEPT ![t] = row(t)] \in [Claims -> AttemptRow]
    BY <2>1, <2>2
  <2> QED
    BY <2>3, <2>4 DEF RowsTypeOK
<1> QED
  BY <1>2, <1>3

(* Beginning provider I/O keeps the attempts' types. *)
LEMMA StartIOTypes ==
    ASSUME RowsTypeOK, NEW o \in Owners, NEW l \in Lanes, StartIO(o, l)
    PROVE  att' \in [Lanes -> [Claims -> AttemptRow]]
<1>1. ASSUME NEW t, att' = [att EXCEPT ![l][t] =
                    [@ EXCEPT !.phase = "provider_io_started", !.io = TRUE]]
      PROVE  att' \in [Lanes -> [Claims -> AttemptRow]]
  <2>1. ASSUME t \in Claims
        PROVE  [att[l][t] EXCEPT !.phase = "provider_io_started", !.io = TRUE]
                   \in AttemptRow
    <3>1. att[l][t] \in AttemptRow
      BY <2>1 DEF RowsTypeOK
    <3> QED
      BY <3>1, AttemptUpdates
  <2> QED
    BY <1>1, <2>1 DEF RowsTypeOK
<1> QED
  BY <1>1 DEF StartIO

(* The recovery branch of the claim query keeps the rows' types. *)
LEMMA RecoverTypes ==
    ASSUME RowsTypeOK, NEW l \in Lanes, LaneHasOpenAttempt(l), RecoverLane(l)
    PROVE  RowsTypeOK'
<1> DEFINE t == lane[l].token
           m == lane[l].msg
           s == RecoveredState(att[l][t].phase)
<1>1. t \in Claims /\ m \in Messages
  BY DEF RowsTypeOK, LaneHasOpenAttempt, LaneRow
<1>2. s \in MessageStates
  BY DEF RecoveredState, MessageStates
<1>3. FreeLane(t) \in LaneRow
  BY <1>1 DEF FreeLane, LaneRow, Claims
<1>4. lane' \in [Lanes -> LaneRow]
  BY <1>3 DEF RecoverLane, RowsTypeOK
<1>5. CASE Recoverable(m)
  <2>1. /\ st' = [st EXCEPT ![m] = s]
        /\ derived' = [derived EXCEPT ![m] = Observe(derived[m], s)]
        /\ att' = [att EXCEPT ![l][t].phase = "complete"]
    BY <1>5 DEF RecoverLane
  <2>2. att' \in [Lanes -> [Claims -> AttemptRow]]
    BY <1>1, <2>1, AttemptUpdates DEF RowsTypeOK
  <2>3. derived[m] \in MessageStates \cup {""}
    BY <1>1 DEF RowsTypeOK
  <2>4. Observe(derived[m], s) \in MessageStates \cup {""}
    BY <1>2, <2>3, ObserveType
  <2> QED
    BY <1>2, <1>4, <2>1, <2>2, <2>4 DEF RowsTypeOK
<1>6. CASE ~Recoverable(m)
  BY <1>4, <1>6 DEF RecoverLane, RowsTypeOK
<1> QED
  BY <1>5, <1>6

(* The claim branch of the claim query keeps the rows' types. *)
LEMMA TakeTypes ==
    ASSUME RowsTypeOK, lease.token \in 0..MaxToken,
           NEW o \in Owners, NEW l \in Lanes, NEW m \in Messages, TakeLane(o, l, m)
    PROVE  RowsTypeOK'
<1> DEFINE t == lane[l].token + 1
           a == [msg |-> m, owner |-> o, fence |-> lease.token,
                 phase |-> "claimed", io |-> FALSE]
           r == [owner |-> o, token |-> t, msg |-> m, live |-> TRUE]
<1>1. t \in Claims
  BY DEF TakeLane
<1>2. a \in AttemptRow
  BY DEF AttemptRow, OpenPhases
<1>3. r \in LaneRow
  BY <1>1 DEF LaneRow, Claims
<1>4. derived[m] \in MessageStates \cup {""} /\ "dispatching" \in MessageStates
  BY DEF RowsTypeOK, MessageStates
<1>5. Observe(derived[m], "dispatching") \in MessageStates \cup {""}
  BY <1>4, ObserveType
<1>6. /\ lane' = [lane EXCEPT ![l] = r]
      /\ st' = [st EXCEPT ![m] = "dispatching"]
      /\ derived' = [derived EXCEPT ![m] = Observe(derived[m], "dispatching")]
      /\ att' = [att EXCEPT ![l][t] = a]
  BY DEF TakeLane
<1> HIDE DEF t, a, r
<1>7. att' \in [Lanes -> [Claims -> AttemptRow]]
  BY <1>1, <1>2, <1>6 DEF RowsTypeOK
<1> QED
  BY <1>3, <1>4, <1>5, <1>6, <1>7 DEF RowsTypeOK

(* The types of what the processes, the actors and the provider keep. *)
CallsTypeOK == disp \in [Owners -> [Lanes -> DispatchCall]]

OperationsTypeOK ==
    /\ op \in [Lanes -> [Claims -> OperationPhases]]
    /\ tomb \in [Owners -> BOOLEAN]
    /\ sends \in [Messages -> Nat]

(* The types of the whole state, taken apart. *)
LEMMA TypeParts ==
    TypeOK <=> /\ LeaseTypeOK /\ RowsTypeOK /\ CallsTypeOK /\ OperationsTypeOK
               /\ faults \in 0..MaxFaults
BY DEF TypeOK, RowsTypeOK, CallsTypeOK, OperationsTypeOK

(* A call that ends is idle again. *)
LEMMA IdleType == Idle \in DispatchCall
BY LeaseAssumption DEF Idle, DispatchCall, CallPoints, Outcomes

(* The fields of a call. *)
LEMMA CallFields ==
    ASSUME CallsTypeOK, NEW o \in Owners, NEW l \in Lanes
    PROVE  /\ disp[o][l] \in DispatchCall
           /\ disp[o][l].token \in 0..MaxClaims
           /\ disp[o][l].fence \in 0..MaxToken
           /\ disp[o][l].msg \in Messages \cup {NoMessage}
           /\ disp[o][l].pc \in CallPoints
           /\ disp[o][l].outcome \in Outcomes
BY DEF CallsTypeOK, DispatchCall

(* Calls move on within their types. *)
LEMMA CallStepTypes ==
    ASSUME CallsTypeOK, NEW o \in Owners, NEW l \in Lanes,
           NEW p \in CallPoints, NEW r \in Outcomes,
           \/ disp' = disp
           \/ disp' = [disp EXCEPT ![o][l] = Idle]
           \/ disp' = [disp EXCEPT ![o][l].pc = p]
           \/ disp' = [disp EXCEPT ![o][l].outcome = r]
           \/ disp' = [disp EXCEPT ![o][l] = [@ EXCEPT !.pc = p, !.outcome = r]]
    PROVE  CallsTypeOK'
<1>1. disp[o][l] \in DispatchCall
  BY DEF CallsTypeOK
<1>2. /\ [disp[o][l] EXCEPT !.pc = p] \in DispatchCall
      /\ [disp[o][l] EXCEPT !.outcome = r] \in DispatchCall
      /\ [disp[o][l] EXCEPT !.pc = p, !.outcome = r] \in DispatchCall
  BY <1>1, CallUpdates
<1>3. ASSUME NEW c \in DispatchCall, disp' = [disp EXCEPT ![o][l] = c]
      PROVE  CallsTypeOK'
  BY <1>3 DEF CallsTypeOK
<1>4. CASE disp' = disp
  BY <1>4 DEF CallsTypeOK
<1>5. CASE disp' = [disp EXCEPT ![o][l] = Idle]
  BY <1>3, <1>5, IdleType
<1>6. CASE disp' = [disp EXCEPT ![o][l].pc = p]
  BY <1>2, <1>3, <1>6
<1>7. CASE disp' = [disp EXCEPT ![o][l].outcome = r]
  BY <1>2, <1>3, <1>7
<1>8. CASE disp' = [disp EXCEPT ![o][l] = [@ EXCEPT !.pc = p, !.outcome = r]]
  BY <1>2, <1>3, <1>8
<1> QED
  BY <1>4, <1>5, <1>6, <1>7, <1>8

(* The operations of a step change within their types. *)
LEMMA OperationStepTypes ==
    ASSUME OperationsTypeOK, NEW l \in Lanes, NEW t, NEW p \in OperationPhases,
           op' = op \/ op' = [op EXCEPT ![l][t] = p]
    PROVE  op' \in [Lanes -> [Claims -> OperationPhases]]
BY DEF OperationsTypeOK

(* Rows that a claim or its recovery changes keep their types. *)
LEMMA ClaimTypes ==
    ASSUME TypeOK, NEW o \in Owners, NEW l \in Lanes,
           \/ LaneHasOpenAttempt(l) /\ RecoverLane(l)
           \/ \E m \in Messages : TakeLane(o, l, m)
           \/ UNCHANGED storeVars
    PROVE  RowsTypeOK'
<1>1. RowsTypeOK /\ lease.token \in 0..MaxToken
  BY TypeParts DEF LeaseTypeOK, LeaseRow
<1>2. CASE LaneHasOpenAttempt(l) /\ RecoverLane(l)
  BY <1>1, <1>2, RecoverTypes
<1>3. CASE \E m \in Messages : TakeLane(o, l, m)
  BY <1>1, <1>3, TakeTypes
<1>4. CASE UNCHANGED storeVars
  BY <1>1, <1>4 DEF storeVars, RowsTypeOK
<1> QED
  BY <1>2, <1>3, <1>4

(* Every step keeps the types. *)
LEMMA TypeStep == TypeOK /\ [Next]_vars => TypeOK'
<1> SUFFICES ASSUME TypeOK, [Next]_vars
             PROVE  TypeOK'
  OBVIOUS
<1>0. /\ LeaseTypeOK /\ RowsTypeOK /\ CallsTypeOK /\ OperationsTypeOK
      /\ faults \in 0..MaxFaults
  BY TypeParts
<1>1. LeaseTypeOK'
  BY <1>0, DispatchLeaseStep, LeaseTypeStep
<1>2. SUFFICES /\ RowsTypeOK' /\ CallsTypeOK' /\ OperationsTypeOK'
               /\ faults' \in 0..MaxFaults
  BY <1>1 DEF TypeOK, RowsTypeOK, CallsTypeOK, OperationsTypeOK
<1>3. Fault => faults' \in 0..MaxFaults
  BY <1>0 DEF Fault
<1>4. ASSUME UNCHANGED storeVars PROVE RowsTypeOK'
  BY <1>0, <1>4 DEF storeVars, RowsTypeOK
<1>5. ASSUME UNCHANGED disp PROVE CallsTypeOK'
  BY <1>0, <1>5 DEF CallsTypeOK
<1>6. ASSUME UNCHANGED providerVars PROVE OperationsTypeOK'
  BY <1>0, <1>6 DEF providerVars, OperationsTypeOK
<1>7. ASSUME UNCHANGED faults PROVE faults' \in 0..MaxFaults
  BY <1>0, <1>7
<1> DEFINE Goal == /\ RowsTypeOK' /\ CallsTypeOK' /\ OperationsTypeOK'
                   /\ faults' \in 0..MaxFaults
<1>a. ASSUME NEW m \in Messages, CreateOutbound(m) PROVE Goal
  <2>1. RowsTypeOK'
    BY <1>0, <1>a DEF CreateOutbound, RowsTypeOK, MessageStates
  <2> QED
    BY <1>a, <2>1, <1>5, <1>6, <1>7 DEF CreateOutbound
<1>b. ASSUME NEW o \in Owners, NEW l \in Lanes, ListLane(o, l) PROVE Goal
  <2>1. disp' = [disp EXCEPT ![o][l].pc = "listed"]
    BY <1>b DEF ListLane
  <2>2. CallsTypeOK'
    BY <1>0, <2>1, CallStepTypes DEF CallPoints, Outcomes
  <2> QED
    BY <1>b, <2>2, <1>4, <1>6, <1>7 DEF ListLane
<1>c. ASSUME NEW o \in Owners, NEW l \in Lanes, ClaimNext(o, l) PROVE Goal
  <2>1. RowsTypeOK'
    BY <1>c, ClaimTypes DEF ClaimNext
  <2>2. CASE disp' = [disp EXCEPT ![o][l] = Idle]
    <3>1. CallsTypeOK'
      BY <1>0, <2>2, CallStepTypes DEF CallPoints, Outcomes
    <3> QED
      BY <1>c, <2>1, <3>1, <1>6, <1>7 DEF ClaimNext
  <2>3. ASSUME NEW m \in Messages, TakeLane(o, l, m),
               disp' = [disp EXCEPT ![o][l] =
                           [pc |-> "claimed", msg |-> m, token |-> lane[l].token + 1,
                            fence |-> lease.token, outcome |-> "none"]]
        PROVE  CallsTypeOK'
    <3> DEFINE c == [pc |-> "claimed", msg |-> m, token |-> lane[l].token + 1,
                     fence |-> lease.token, outcome |-> "none"]
    <3>1. lane[l].token + 1 \in 0..MaxClaims
      BY <2>3 DEF TakeLane, Claims
    <3>2. lease.token \in 0..MaxToken
      BY <1>0 DEF LeaseTypeOK, LeaseRow
    <3>3. c \in DispatchCall
      BY <3>1, <3>2 DEF DispatchCall, CallPoints, Outcomes
    <3>4. disp' = [disp EXCEPT ![o][l] = c]
      BY <2>3
    <3> HIDE DEF c
    <3> QED
      BY <1>0, <3>3, <3>4 DEF CallsTypeOK
  <2>4. CASE \E m \in Messages :
                /\ TakeLane(o, l, m)
                /\ disp' = [disp EXCEPT ![o][l] =
                        [pc |-> "claimed", msg |-> m, token |-> lane[l].token + 1,
                         fence |-> lease.token, outcome |-> "none"]]
    BY <1>c, <2>1, <2>3, <2>4, <1>6, <1>7 DEF ClaimNext
  <2> QED
    BY <1>c, <2>2, <2>4 DEF ClaimNext
<1>d. ASSUME NEW o \in Owners, NEW l \in Lanes, ClaimNextFails(o, l) PROVE Goal
  <2>1. RowsTypeOK'
    BY <1>d, ClaimTypes DEF ClaimNextFails
  <2>2. CallsTypeOK'
    BY <1>0, <1>d, CallStepTypes DEF ClaimNextFails, CallPoints, Outcomes
  <2> QED
    BY <1>d, <2>1, <2>2, <1>3, <1>6 DEF ClaimNextFails
<1>e. ASSUME NEW o \in Owners, NEW l \in Lanes,
             BeginProviderIO(o, l) \/ BeginProviderIOFails(o, l)
      PROVE  Goal
  <2>1. StartIO(o, l) \/ UNCHANGED att
    BY <1>e DEF BeginProviderIO, BeginProviderIOFails
  <2>2. att' \in [Lanes -> [Claims -> AttemptRow]]
    <3>1. CASE UNCHANGED att
      BY <1>0, <3>1 DEF RowsTypeOK
    <3>2. CASE StartIO(o, l)
      BY <1>0, <3>2, StartIOTypes
    <3> QED
      BY <2>1, <3>1, <3>2
  <2>3. RowsTypeOK'
    BY <1>0, <1>e, <2>2 DEF BeginProviderIO, BeginProviderIOFails, RowsTypeOK
  <2>4. \/ disp' = [disp EXCEPT ![o][l].pc = "sending"]
        \/ disp' = [disp EXCEPT ![o][l].pc = "releasing"]
    BY <1>e DEF BeginProviderIO, BeginProviderIOFails
  <2>5. CallsTypeOK'
    BY <1>0, <2>4, CallStepTypes DEF CallPoints, Outcomes
  <2> QED
    BY <1>e, <2>3, <2>5, <1>3, <1>6, <1>7 DEF BeginProviderIO, BeginProviderIOFails
<1>f. ASSUME NEW o \in Owners, NEW l \in Lanes,
             ReleaseBeforeDispatch(o, l) \/ CompleteDispatch(o, l)
      PROVE  Goal
  <2> DEFINE c == disp[o][l]
  <2>1. CallsTypeOK'
    BY <1>0, <1>f, CallStepTypes
      DEF ReleaseBeforeDispatch, CompleteDispatch, CallPoints, Outcomes
  <2>2. \/ UNCHANGED storeVars
        \/ /\ FinishClaim(l, c.token)
           /\ st' = [st EXCEPT ![c.msg] = "queued"]
           /\ derived' = [derived EXCEPT ![c.msg] = Observe(@, "queued")]
        \/ /\ FinishClaim(l, c.token)
           /\ st' = [st EXCEPT ![c.msg] = Completed(@, c.outcome)]
           /\ derived' = [derived EXCEPT ![c.msg] = Completed(@, c.outcome)]
    BY <1>f DEF ReleaseBeforeDispatch, CompleteDispatch
  <2>3. c.token \in 0..MaxClaims
    BY <1>0, CallFields
  <2>4. FinishClaim(l, c.token) => /\ lane' \in [Lanes -> LaneRow]
                                   /\ att' \in [Lanes -> [Claims -> AttemptRow]]
    BY <1>0, <2>3, FinishClaimTypes
  <2>5. "queued" \in MessageStates
    BY DEF MessageStates
  <2>6. RowsTypeOK'
    <3>1. CASE UNCHANGED storeVars
      BY <3>1, <1>4
    <3>2. CASE /\ FinishClaim(l, c.token)
               /\ st' = [st EXCEPT ![c.msg] = "queued"]
               /\ derived' = [derived EXCEPT ![c.msg] = Observe(@, "queued")]
      BY <1>0, <2>4, <2>5, <3>2, ObserveType DEF RowsTypeOK
    <3>3. CASE /\ FinishClaim(l, c.token)
               /\ st' = [st EXCEPT ![c.msg] = Completed(@, c.outcome)]
               /\ derived' = [derived EXCEPT ![c.msg] = Completed(@, c.outcome)]
      BY <1>0, <2>4, <3>3, CompletedType DEF RowsTypeOK
    <3> QED
      BY <2>2, <3>1, <3>2, <3>3
  <2> QED
    BY <1>f, <2>1, <2>6, <1>6, <1>7 DEF ReleaseBeforeDispatch, CompleteDispatch
<1>g. ASSUME NEW o \in Owners, NEW l \in Lanes,
             FinishFails(o, l) \/ SendNotStarted(o, l)
      PROVE  Goal
  <2>1. CallsTypeOK'
    BY <1>0, <1>g, CallStepTypes DEF FinishFails, SendNotStarted, CallPoints, Outcomes
  <2> QED
    BY <1>g, <2>1, <1>3, <1>4, <1>6, <1>7 DEF FinishFails, SendNotStarted
<1>h. ASSUME NEW o \in Owners, NEW l \in Lanes, OperationStarts(o, l) PROVE Goal
  <2>1. CallsTypeOK'
    BY <1>0, <1>h, CallStepTypes DEF OperationStarts, CallPoints, Outcomes
  <2>2. op' \in [Lanes -> [Claims -> OperationPhases]]
    BY <1>0, <1>h, OperationStepTypes DEF OperationStarts, OperationPhases
  <2> QED
    BY <1>0, <1>h, <2>1, <2>2, <1>4, <1>7 DEF OperationStarts, OperationsTypeOK
<1>i. ASSUME NEW o \in Owners, NEW l \in Lanes, SendReturns(o, l) PROVE Goal
  <2> DEFINE t == disp[o][l].token
  <2>1. PICK r \in {"accepted", "rejected", "uncertain"} :
           /\ op' = op \/ op' = [op EXCEPT ![l][t] = "ended"]
           /\ disp' = [disp EXCEPT ![o][l] =
                 [@ EXCEPT !.pc = "completing",
                           !.outcome = Reported(disp[o][l].outcome, r)]]
    BY <1>i DEF SendReturns
  <2> DEFINE x == Reported(disp[o][l].outcome, r)
  <2>0. disp[o][l].outcome \in Outcomes
    BY <1>0, CallFields
  <2>2. /\ x \in Outcomes
        /\ disp' = [disp EXCEPT ![o][l] = [@ EXCEPT !.pc = "completing", !.outcome = x]]
    <3>1. x \in Outcomes
      BY <2>0, <2>1 DEF Reported, Outcomes
    <3> QED
      BY <2>1, <3>1
  <2> HIDE DEF x
  <2>3. CallsTypeOK'
    BY <1>0, <2>2, CallStepTypes DEF CallPoints
  <2>4. op' \in [Lanes -> [Claims -> OperationPhases]]
    BY <1>0, <2>1, OperationStepTypes DEF OperationPhases
  <2> QED
    BY <1>0, <1>i, <2>3, <2>4, <1>4, <1>7 DEF SendReturns, OperationsTypeOK
<1>j. ASSUME NEW o \in Owners, NEW l \in Lanes,
             RenewProviderIO(o, l) \/ RenewProviderIOFails(o, l)
      PROVE  Goal
  <2>1. disp' = disp \/ disp' = [disp EXCEPT ![o][l].outcome = "uncertain"]
    BY <1>j DEF RenewProviderIO, RenewProviderIOFails
  <2>2. CallsTypeOK'
    BY <1>0, <2>1, CallStepTypes DEF CallPoints, Outcomes
  <2> QED
    BY <1>j, <2>2, <1>3, <1>4, <1>6, <1>7 DEF RenewProviderIO, RenewProviderIOFails
<1>k. ASSUME NEW l \in Lanes, NEW t \in Claims, ProviderSend(l, t) \/ OperationEnds(l, t)
      PROVE  Goal
  <2>1. PICK p \in {"sent", "ended"} : op' = [op EXCEPT ![l][t] = p]
    BY <1>k DEF ProviderSend, OperationEnds
  <2>2. op' \in [Lanes -> [Claims -> OperationPhases]]
    BY <1>0, <2>1, OperationStepTypes DEF OperationPhases
  <2>3. sends' \in [Messages -> Nat]
    BY <1>0, <1>k DEF ProviderSend, OperationEnds, OperationsTypeOK
  <2> QED
    BY <1>0, <1>k, <2>2, <2>3, <1>4, <1>5, <1>7
      DEF ProviderSend, OperationEnds, OperationsTypeOK
<1>l. ASSUME NEW o \in Owners, NEW m \in Messages, NEW s \in Evidence,
             ProjectProviderStatus(o, m, s)
      PROVE  Goal
  <2> DEFINE d == IF s = "" THEN derived[m] ELSE Observe(derived[m], s)
  <2>1. s = "" \/ s \in MessageStates
    BY DEF EvidenceStates, MessageStates
  <2>2. derived[m] \in MessageStates \cup {""}
    BY <1>0 DEF RowsTypeOK
  <2>3. d \in MessageStates \cup {""}
    BY <2>1, <2>2, ObserveType
  <2>4. /\ st' = [st EXCEPT ![m] = d] /\ derived' = [derived EXCEPT ![m] = d]
        /\ UNCHANGED <<lane, att>>
    BY <1>l DEF ProjectProviderStatus
  <2> HIDE DEF d
  <2>5. RowsTypeOK'
    BY <1>0, <2>3, <2>4 DEF RowsTypeOK
  <2> QED
    BY <1>l, <2>5, <1>5, <1>6, <1>7 DEF ProjectProviderStatus
<1>m. ASSUME NEW o \in Owners, StopActor(o) \/ ActorLosesLease(o) PROVE Goal
  <2>1. JoinOperations(o)
    BY <1>m DEF StopActor, ActorLosesLease
  <2>2. Abandoned(o) \in [Lanes -> [Claims -> OperationPhases]]
    BY <1>0 DEF Abandoned, OperationsTypeOK, OperationPhases
  <2>3. tomb' \in [Owners -> BOOLEAN]
    BY <1>0, <2>1 DEF JoinOperations, OperationsTypeOK
  <2>4. OperationsTypeOK'
    BY <1>0, <1>m, <2>1, <2>2, <2>3
      DEF StopActor, ActorLosesLease, JoinOperations, OperationsTypeOK
  <2> QED
    BY <1>m, <2>4, <1>3, <1>4, <1>5, <1>7
      DEF StopActor, ActorLosesLease, dispatchVars, storeVars
<1>n. ASSUME NEW o \in Owners, Crash(o) PROVE Goal
  <2>1. CallsTypeOK'
    BY <1>0, <1>n, IdleType DEF Crash, CallsTypeOK
  <2>2. op' \in [Lanes -> [Claims -> OperationPhases]]
    BY <1>0, <1>n DEF Crash, OperationsTypeOK, OperationPhases
  <2>3. OperationsTypeOK'
    BY <1>0, <1>n, <2>2 DEF Crash, OperationsTypeOK
  <2> QED
    BY <1>n, <2>1, <2>3, <1>3, <1>4 DEF Crash
<1>o. ASSUME NEW l \in Lanes, ClaimExpires(l) \/ ClaimExpiresEarly(l) PROVE Goal
  <2>1. lane[l] \in LaneRow
    BY <1>0 DEF RowsTypeOK
  <2>2. [lane[l] EXCEPT !.live = FALSE] \in LaneRow
    BY <2>1 DEF LaneRow
  <2>3. ClaimLapses(l)
    BY <1>o DEF ClaimExpires, ClaimExpiresEarly
  <2>4. RowsTypeOK'
    BY <1>0, <2>2, <2>3 DEF ClaimLapses, RowsTypeOK
  <2> QED
    BY <1>o, <2>3, <2>4, <1>3, <1>5, <1>6, <1>7
      DEF ClaimLapses, ClaimExpires, ClaimExpiresEarly
<1>p. ASSUME NEW o \in Owners, StartActor(o) PROVE Goal
  BY <1>p, <1>4, <1>5, <1>6, <1>7 DEF StartActor, dispatchVars, storeVars
<1>v. ASSUME FenceActor \/ LeaseExpires \/ LeaseExpiresEarly PROVE Goal
  BY <1>v, <1>3, <1>4, <1>5, <1>6, <1>7
    DEF FenceActor, LeaseExpires, LeaseExpiresEarly, dispatchVars, storeVars
<1>q. ASSUME UNCHANGED vars PROVE Goal
  BY <1>q, <1>4, <1>5, <1>6, <1>7 DEF vars, storeVars, providerVars
<1>r. ASSUME NEW o \in Owners, NEW l \in Lanes,
             DispatchStep(o, l) \/ RenewProviderIO(o, l) \/ DispatchFault(o, l)
      PROVE  Goal
  BY <1>r, <1>b, <1>c, <1>d, <1>e, <1>f, <1>g, <1>h, <1>i, <1>j
    DEF DispatchStep, DispatchFault
<1> HIDE DEF Goal
<1>s. Goal
  BY <1>a, <1>r, <1>k, <1>l, <1>m, <1>n, <1>o, <1>p, <1>q, <1>v DEF Next
<1> QED
  BY <1>s DEF Goal

(* Type correctness of outbound dispatch: rows, calls, operations and counters
   stay within their types whatever crashes, lapses and late answers do. *)
THEOREM DispatchTypeCorrect == Spec => []TypeOK
<1>1. Init => TypeOK
  <2> SUFFICES ASSUME Init PROVE TypeOK
    OBVIOUS
  <2>1. LeaseTypeOK
    <3>1. LeaseInit
      BY DEF Init
    <3> QED
      BY <3>1, LeaseAssumption DEF LeaseInit, LeaseTypeOK, LeaseRow
  <2>2. FreeLane(0) \in LaneRow
    BY DEF FreeLane, LaneRow
  <2>3. NoAttempt \in AttemptRow
    BY LeaseAssumption DEF NoAttempt, AttemptRow
  <2>4. att \in [Lanes -> [Claims -> AttemptRow]]
    BY <2>3 DEF Init
  <2>5. disp \in [Owners -> [Lanes -> DispatchCall]]
    BY IdleType DEF Init
  <2>6. RowsTypeOK
    BY <2>2, <2>4 DEF Init, RowsTypeOK
  <2>7. OperationsTypeOK
    <3>1. op \in [Lanes -> [Claims -> OperationPhases]]
      BY DEF Init, OperationPhases
    <3> QED
      BY <3>1 DEF Init, OperationsTypeOK
  <2>8. faults \in 0..MaxFaults
    <3>1. faults = 0
      BY DEF Init
    <3> QED
      BY <3>1
  <2> QED
    BY <2>1, <2>5, <2>6, <2>7, <2>8, TypeParts DEF CallsTypeOK
<1> QED
  BY <1>1, TypeStep, PTL DEF Spec

-----------------------------------------------------------------------------
(***************************************************************************)
(* The safety of outbound dispatch, for any number of processes, lanes,    *)
(* messages, claims and faults.                                            *)
(***************************************************************************)

(* Lemmas on single updates. *)

(* One call changes. *)
LEMMA CallAt ==
    ASSUME CallsTypeOK, NEW o \in Owners, NEW l \in Lanes, NEW c,
           disp' = [disp EXCEPT ![o][l] = c]
    PROVE  \A p \in Owners, x \in Lanes :
              disp'[p][x] = IF p = o /\ x = l THEN c ELSE disp[p][x]
BY DEF CallsTypeOK

(* The fold keeps the state it has or takes the one it observes. *)
LEMMA ObserveChooses ==
    ASSUME NEW current, NEW observed
    PROVE  Observe(current, observed) = current \/ Observe(current, observed) = observed
BY DEF Observe

(* The fold of the states dispatch itself writes onto a message in flight. *)
LEMMA ObserveInFlight ==
    /\ Observe("queued", "dispatching") = "dispatching"
    /\ Observe("dispatching", "dispatching") = "dispatching"
    /\ Observe("dispatching", "queued") = "dispatching"
    /\ Observe("dispatching", "uncertain") = "uncertain"
    /\ Observe("dispatching", "failed") = "failed"
    /\ Observe("dispatching", "provider_accepted") = "provider_accepted"
    /\ Observe("provider_accepted", "awaiting_phone") = "awaiting_phone"
BY DEF Observe, MessageStateRank, MessageStates

(* A completed message in flight is neither queued nor dispatching. *)
LEMMA CompletedInFlight ==
    ASSUME NEW outcome
    PROVE  Completed("dispatching", outcome) \in {"awaiting_phone", "failed", "uncertain"}
BY ObserveInFlight DEF Completed

(* An attempt that was claimed or began I/O is one of the lane's tokens, for a
   message of the lane. *)
LEMMA RecordedAttempt ==
    ASSUME RowsTypeOK, AttemptsRecorded, NEW x \in Lanes, NEW y \in Claims,
           att[x][y].io \/ att[x][y].phase # "none"
    PROVE  /\ y <= lane[x].token
           /\ att[x][y].msg \in Messages
           /\ LaneOf[att[x][y].msg] = x
<1>1. lane[x].token \in 0..MaxClaims /\ y \in 1..MaxClaims
  BY DEF RowsTypeOK, LaneRow, Claims
<1>2. NoAttempt.io = FALSE /\ NoAttempt.phase = "none"
  BY DEF NoAttempt
<1>3. att[x][y] # NoAttempt
  BY <1>2
<1>4. y <= lane[x].token
  BY <1>1, <1>3 DEF AttemptsRecorded
<1> QED
  BY <1>4 DEF AttemptsRecorded

(* Taking a lane: the state of the rows it finds. *)
LEMMA LaneIsQuiet ==
    ASSUME TypeOK, DispatchInv, NEW o \in Owners, NEW l \in Lanes, NEW m \in Messages,
           ~LaneHasOpenAttempt(l), TakeLane(o, l, m)
    PROVE  /\ lane[l].msg = NoMessage
           /\ \A y \in Claims : att[l][y].phase # "claimed"
           /\ \A n \in Messages : LaneOf[n] = l => st[n] # "dispatching"
           /\ \A y \in Claims : att[l][y].io => att[l][y].msg # m
           /\ att[l][lane[l].token + 1] = NoAttempt
           /\ op[l][lane[l].token + 1] = "none"
           /\ Observe(derived[m], "dispatching") = "dispatching"
<1> DEFINE t == lane[l].token + 1
<1>0. RowsTypeOK
  BY TypeParts
<1>1. lane[l].msg = NoMessage
  BY DEF DispatchInv, ClaimedLaneHasOpenAttempt
<1>2. lane[l].token \in 0..MaxClaims /\ t \in Claims
  BY <1>0 DEF RowsTypeOK, LaneRow, TakeLane
<1>3. ASSUME NEW y \in Claims, att[l][y].phase = "claimed"
      PROVE  FALSE
  <2>1. y = lane[l].token /\ lane[l].msg = att[l][y].msg
    BY <1>3 DEF DispatchInv, ClaimedIsCurrent
  <2>2. att[l][y].msg \in Messages
    BY <1>2, <2>1 DEF DispatchInv, AttemptsRecorded
  <2> QED
    BY <1>1, <2>1, <2>2
<1>4. ASSUME NEW n \in Messages, LaneOf[n] = l, st[n] = "dispatching"
      PROVE  FALSE
  <2>1. lane[l].msg = n
    BY <1>4 DEF DispatchInv, LaneSerial
  <2> QED
    BY <1>1, <2>1
<1>5. st[m] = "queued"
  BY DEF TakeLane, Oldest
<1>6. ASSUME NEW y \in Claims, att[l][y].io, att[l][y].msg = m
      PROVE  FALSE
  BY <1>5, <1>6 DEF DispatchInv, IoOnce
<1>7. att[l][t] = NoAttempt
  BY <1>2 DEF DispatchInv, AttemptsRecorded, Claims
<1>8. op[l][t] = "none"
  BY <1>2, <1>7 DEF DispatchInv, AttemptsRecorded, NoAttempt
<1>9. derived[m] = "queued" \/ derived[m] = "dispatching"
  BY <1>5 DEF DispatchInv, StateIsDerived
<1> QED
  BY <1>1, <1>3, <1>4, <1>6, <1>7, <1>8, <1>9, ObserveInFlight

(* Taking a lane keeps the invariant, whether its caller hears of the claim or
   not. *)
LEMMA TakeKeepsInv ==
    ASSUME TypeOK, DispatchInv, NEW o \in Owners, NEW l \in Lanes, NEW m \in Messages,
           ~LaneHasOpenAttempt(l), TakeLane(o, l, m), UNCHANGED providerVars,
           \/ disp' = [disp EXCEPT ![o][l] = Idle]
           \/ disp' = [disp EXCEPT ![o][l] =
                 [pc |-> "claimed", msg |-> m, token |-> lane[l].token + 1,
                  fence |-> lease.token, outcome |-> "none"]]
    PROVE  DispatchInv'
<1> DEFINE t == lane[l].token + 1
           a == [msg |-> m, owner |-> o, fence |-> lease.token,
                 phase |-> "claimed", io |-> FALSE]
           r == [owner |-> o, token |-> t, msg |-> m, live |-> TRUE]
<1>0. RowsTypeOK /\ CallsTypeOK
  BY TypeParts
<1>z. \A x \in Lanes : lane[x].token \in 0..MaxClaims
  BY <1>0 DEF RowsTypeOK, LaneRow
<1>p. /\ AttemptsRecorded /\ CallsOwnAttempts /\ ClaimedIsCurrent /\ IoOnce
      /\ SendsAccounted
  BY DEF DispatchInv
<1>1. /\ lane[l].msg = NoMessage
      /\ \A y \in Claims : att[l][y].phase # "claimed"
      /\ \A n \in Messages : LaneOf[n] = l => st[n] # "dispatching"
      /\ \A y \in Claims : att[l][y].io => att[l][y].msg # m
      /\ att[l][t] = NoAttempt
      /\ op[l][t] = "none"
      /\ Observe(derived[m], "dispatching") = "dispatching"
  BY LaneIsQuiet
<1>2. /\ t \in Claims
      /\ LaneOf[m] = l
      /\ st[m] = "queued"
  BY DEF TakeLane, Oldest
<1>3. \A x \in Lanes : lane'[x] = IF x = l THEN r ELSE lane[x]
  BY <1>0 DEF TakeLane, RowsTypeOK
<1>4. \A x \in Lanes, y \in Claims :
         att'[x][y] = IF x = l /\ y = t THEN a ELSE att[x][y]
  <2>1. att' = [att EXCEPT ![l][t] = a]
    BY DEF TakeLane
  <2> HIDE DEF a, t
  <2> QED
    BY <1>0, <1>2, <2>1 DEF RowsTypeOK
<1>5. \A n \in Messages : /\ st'[n] = IF n = m THEN "dispatching" ELSE st[n]
                          /\ derived'[n] = IF n = m THEN "dispatching" ELSE derived[n]
  BY <1>0, <1>1 DEF TakeLane, RowsTypeOK
<1>6. op' = op /\ sends' = sends
  BY DEF providerVars
<1>7. \A p \in Owners, x \in Lanes :
         \/ disp'[p][x] = disp[p][x]
         \/ disp'[p][x].pc = "idle"
         \/ /\ p = o /\ x = l
            /\ disp'[p][x].pc = "claimed"
            /\ disp'[p][x].msg = m
            /\ disp'[p][x].token = t
  <2>1. CASE disp' = [disp EXCEPT ![o][l] = Idle]
    BY <1>0, <2>1, CallAt DEF Idle
  <2>2. CASE disp' = [disp EXCEPT ![o][l] =
                 [pc |-> "claimed", msg |-> m, token |-> lane[l].token + 1,
                  fence |-> lease.token, outcome |-> "none"]]
    BY <1>0, <2>2, CallAt
  <2> QED
    BY <2>1, <2>2
<1>8. /\ r.token = t /\ r.msg = m
      /\ a.msg = m /\ a.owner = o /\ a.phase = "claimed" /\ a.io = FALSE
      /\ NoAttempt.io = FALSE /\ t = lane[l].token + 1
  BY DEF NoAttempt
<1> HIDE DEF a, r, t
<1>a. AttemptsRecorded'
  BY <1>z, <1>p, <1>1, <1>2, <1>3, <1>4, <1>6, <1>8 DEF AttemptsRecorded, Claims
<1>b. CallsOwnAttempts'
  <2> SUFFICES ASSUME NEW p \in Owners, NEW x \in Lanes,
                      disp'[p][x].pc \notin {"idle", "listed"}
               PROVE  /\ disp'[p][x].token \in 1..lane'[x].token
                      /\ att'[x][disp'[p][x].token].owner = p
                      /\ att'[x][disp'[p][x].token].msg = disp'[p][x].msg
    BY DEF CallsOwnAttempts
  <2>1. CASE disp'[p][x] = disp[p][x]
    <3>1. /\ disp[p][x].token \in 1..lane[x].token
          /\ att[x][disp[p][x].token].owner = p
          /\ att[x][disp[p][x].token].msg = disp[p][x].msg
      BY <1>p, <2>1 DEF CallsOwnAttempts
    <3>2. disp[p][x].token \in Claims /\ lane'[x].token >= lane[x].token
      BY <1>z, <1>3, <1>8, <3>1 DEF Claims
    <3>3. att'[x][disp[p][x].token] = att[x][disp[p][x].token]
      BY <1>z, <1>4, <1>8, <3>1, <3>2
    <3> QED
      BY <1>z, <1>3, <1>8, <2>1, <3>1, <3>2, <3>3
  <2>2. CASE /\ p = o /\ x = l
             /\ disp'[p][x].msg = m
             /\ disp'[p][x].token = t
    BY <1>z, <1>2, <1>3, <1>4, <1>8, <2>2 DEF Claims
  <2> QED
    BY <1>7, <2>1, <2>2
<1>c. ClaimedIsCurrent'
  <2> SUFFICES ASSUME NEW x \in Lanes, NEW y \in Claims, att'[x][y].phase = "claimed"
               PROVE  /\ y = lane'[x].token
                      /\ lane'[x].msg = att'[x][y].msg
                      /\ st'[att'[x][y].msg] = "dispatching"
                      /\ \A u \in Claims : att'[x][u].io => att'[x][u].msg # att'[x][y].msg
    BY DEF ClaimedIsCurrent
  <2>1. CASE x = l
    BY <1>1, <1>2, <1>3, <1>4, <1>5, <1>8, <2>1
  <2>2. CASE x # l
    <3>1. att'[x][y] = att[x][y] /\ lane'[x] = lane[x]
      BY <1>3, <1>4, <2>2
    <3>2. /\ y = lane[x].token
          /\ lane[x].msg = att[x][y].msg
          /\ st[att[x][y].msg] = "dispatching"
          /\ \A u \in Claims : att[x][u].io => att[x][u].msg # att[x][y].msg
      BY <1>p, <3>1 DEF ClaimedIsCurrent
    <3>3. att[x][y].msg \in Messages /\ LaneOf[att[x][y].msg] = x
      BY <1>z, <1>p, <3>2 DEF AttemptsRecorded
    <3>4. st'[att[x][y].msg] = "dispatching"
      BY <1>5, <3>2, <3>3
    <3> QED
      BY <1>4, <2>2, <3>1, <3>2, <3>4
  <2> QED
    BY <2>1, <2>2
<1>d. IoOnce'
  <2> SUFFICES ASSUME NEW x \in Lanes, NEW y \in Claims, att'[x][y].io
               PROVE  /\ st'[att'[x][y].msg] \notin {"", "queued"}
                      /\ \A u \in Claims :
                            att'[x][u].io /\ att'[x][u].msg = att'[x][y].msg => u = y
    BY DEF IoOnce
  <2>1. att'[x][y] = att[x][y]
    BY <1>4, <1>8
  <2>2. /\ st[att[x][y].msg] \notin {"", "queued"}
        /\ \A u \in Claims : att[x][u].io /\ att[x][u].msg = att[x][y].msg => u = y
    BY <1>p, <2>1 DEF IoOnce
  <2>3. att[x][y].msg \in Messages
    <3>1. att[x][y].io
      BY <2>1
    <3> QED
      BY <1>0, <1>p, <3>1, RecordedAttempt
  <2>4. st'[att[x][y].msg] \notin {"", "queued"}
    BY <1>5, <2>2, <2>3
  <2>5. ASSUME NEW u \in Claims, att'[x][u].io, att'[x][u].msg = att'[x][y].msg
        PROVE  u = y
    <3>1. att'[x][u] = att[x][u]
      BY <1>4, <1>8, <2>5
    <3> QED
      BY <2>1, <2>2, <2>5, <3>1
  <2> QED
    BY <2>1, <2>4, <2>5
<1>e. SendsAccounted'
  <2>1. ASSUME NEW x \in Lanes, NEW y \in Claims, op'[x][y] \in {"running", "stray"}
        PROVE  sends'[att'[x][y].msg] = 0
    <3>1. att'[x][y] = att[x][y]
      BY <1>1, <1>4, <1>6, <2>1
    <3> QED
      BY <1>p, <1>6, <2>1, <3>1 DEF SendsAccounted
  <2>2. ASSUME NEW p \in Owners, NEW x \in Lanes, disp'[p][x].pc = "sending"
        PROVE  /\ att'[x][disp'[p][x].token].io
               /\ op'[x][disp'[p][x].token] = "none"
               /\ sends'[disp'[p][x].msg] = 0
    <3>1. disp'[p][x] = disp[p][x]
      BY <1>7, <2>2
    <3>2. /\ disp[p][x].token \in 1..lane[x].token
          /\ att[x][disp[p][x].token].io
          /\ op[x][disp[p][x].token] = "none"
          /\ sends[disp[p][x].msg] = 0
      BY <1>p, <2>2, <3>1 DEF SendsAccounted, CallsOwnAttempts
    <3>3. disp[p][x].token \in Claims
      BY <1>z, <3>2 DEF Claims
    <3>4. att'[x][disp[p][x].token] = att[x][disp[p][x].token]
      BY <1>z, <1>4, <1>8, <3>2, <3>3
    <3> QED
      BY <1>6, <3>1, <3>2, <3>4
  <2>3. ASSUME NEW n \in Messages, sends'[n] > 0
        PROVE  Committed(n)'
    <3>1. PICK y \in Claims : att[LaneOf[n]][y].io /\ att[LaneOf[n]][y].msg = n
      BY <1>p, <1>6, <2>3 DEF SendsAccounted, Committed
    <3>2. att'[LaneOf[n]][y] = att[LaneOf[n]][y]
      BY <1>1, <1>4, <1>8, <3>1
    <3> QED
      BY <3>1, <3>2 DEF Committed
  <2> QED
    BY <2>1, <2>2, <2>3 DEF SendsAccounted
<1>f. AtMostOneSend'
  BY <1>6 DEF DispatchInv, AtMostOneSend
<1>g. LaneSerial'
  BY <1>1, <1>2, <1>3, <1>5, <1>8 DEF DispatchInv, LaneSerial
<1>h. ClaimedLaneHasOpenAttempt'
  BY <1>1, <1>2, <1>3, <1>4, <1>8
    DEF DispatchInv, ClaimedLaneHasOpenAttempt, LaneHasOpenAttempt, OpenPhases
<1>i. StateIsDerived'
  BY <1>5 DEF DispatchInv, StateIsDerived
<1> QED
  BY <1>a, <1>b, <1>c, <1>d, <1>e, <1>f, <1>g, <1>h, <1>i DEF DispatchInv

(* The rows stay: every part of the invariant that speaks of them alone
   does. *)
LEMMA QuietRows ==
    ASSUME DispatchInv, UNCHANGED <<st, derived, att>>,
           \A x \in Lanes : lane'[x].token = lane[x].token /\ lane'[x].msg = lane[x].msg
    PROVE  /\ ClaimedIsCurrent' /\ IoOnce' /\ LaneSerial'
           /\ ClaimedLaneHasOpenAttempt' /\ StateIsDerived'
<1>1. ClaimedIsCurrent'
  BY DEF DispatchInv, ClaimedIsCurrent
<1>2. IoOnce'
  BY DEF DispatchInv, IoOnce
<1>3. LaneSerial'
  BY DEF DispatchInv, LaneSerial
<1>4. ClaimedLaneHasOpenAttempt'
  BY DEF DispatchInv, ClaimedLaneHasOpenAttempt, LaneHasOpenAttempt
<1>5. StateIsDerived'
  BY DEF DispatchInv, StateIsDerived
<1> QED
  BY <1>1, <1>2, <1>3, <1>4, <1>5

\* Calls end, or go on with their claim without newly being about to send.
CallsProgress ==
    \A p \in Owners, x \in Lanes :
        \/ disp'[p][x].pc \in {"idle", "listed"}
        \/ /\ disp[p][x].pc \notin {"idle", "listed"}
           /\ disp'[p][x].token = disp[p][x].token
           /\ disp'[p][x].msg = disp[p][x].msg
           /\ disp'[p][x].pc = "sending" => disp[p][x].pc = "sending"

\* Operations go on without a new one starting.
OperationsProgress ==
    \A x \in Lanes, y \in Claims :
        \/ op'[x][y] = op[x][y]
        \/ /\ op[x][y] # "none" /\ op'[x][y] # "none"
           /\ op'[x][y] \in {"running", "stray"} => op[x][y] \in {"running", "stray"}

(* Steps that leave the rows alone and start and send nothing keep the
   invariant: answers, refusals, renewals, expiries, actor ends and crashes. *)
LEMMA ProgressKeepsInv ==
    ASSUME TypeOK, DispatchInv, UNCHANGED <<st, derived, att, sends>>,
           \A x \in Lanes : lane'[x].token = lane[x].token /\ lane'[x].msg = lane[x].msg,
           CallsProgress, OperationsProgress
    PROVE  DispatchInv'
<1>0. RowsTypeOK /\ CallsTypeOK
  BY TypeParts
<1>p. AttemptsRecorded /\ CallsOwnAttempts /\ SendsAccounted /\ AtMostOneSend
  BY DEF DispatchInv
<1>z. \A x \in Lanes : lane[x].token \in 0..MaxClaims
  BY <1>0 DEF RowsTypeOK, LaneRow
<1>1. AttemptsRecorded'
  BY <1>p DEF AttemptsRecorded, OperationsProgress
<1>2. CallsOwnAttempts'
  BY <1>p DEF CallsOwnAttempts, CallsProgress
<1>3. SendsAccounted'
  <2>1. ASSUME NEW x \in Lanes, NEW y \in Claims, op'[x][y] \in {"running", "stray"}
        PROVE  sends'[att'[x][y].msg] = 0
    BY <1>p, <2>1 DEF SendsAccounted, OperationsProgress
  <2>2. ASSUME NEW p \in Owners, NEW x \in Lanes, disp'[p][x].pc = "sending"
        PROVE  /\ att'[x][disp'[p][x].token].io
               /\ op'[x][disp'[p][x].token] = "none"
               /\ sends'[disp'[p][x].msg] = 0
    <3>1. /\ disp[p][x].pc = "sending"
          /\ disp'[p][x].token = disp[p][x].token
          /\ disp'[p][x].msg = disp[p][x].msg
      BY <2>2 DEF CallsProgress
    <3>2. /\ disp[p][x].token \in 1..lane[x].token
          /\ att[x][disp[p][x].token].io
          /\ op[x][disp[p][x].token] = "none"
          /\ sends[disp[p][x].msg] = 0
      BY <1>p, <3>1 DEF SendsAccounted, CallsOwnAttempts
    <3>3. disp[p][x].token \in Claims
      BY <1>z, <3>2 DEF Claims
    <3>4. op'[x][disp[p][x].token] = "none"
      BY <3>2, <3>3 DEF OperationsProgress
    <3> QED
      BY <3>1, <3>2, <3>4
  <2>3. ASSUME NEW n \in Messages, sends'[n] > 0
        PROVE  Committed(n)'
    BY <1>p, <2>3 DEF SendsAccounted, Committed
  <2> QED
    BY <2>1, <2>2, <2>3 DEF SendsAccounted
<1>4. AtMostOneSend'
  BY <1>p DEF AtMostOneSend
<1> QED
  BY <1>1, <1>2, <1>3, <1>4, QuietRows DEF DispatchInv

\* The claim of a lane is closed: its message leaves dispatching, for the queue
\* only if its attempt never began I/O.
Closes(l, t, m, s, d) ==
    /\ lane[l].token = t
    /\ lane[l].msg = m
    /\ st[m] = "dispatching"
    /\ \/ s = "queued" /\ d = "dispatching" /\ att[l][t].phase = "claimed"
       \/ s = d /\ s \notin {"", "queued", "dispatching"}
    /\ FinishClaim(l, t)
    /\ st' = [st EXCEPT ![m] = s]
    /\ derived' = [derived EXCEPT ![m] = d]

(* Closing the claim of a lane, by recovery, release or completion, keeps the
   invariant. *)
LEMMA CloseKeepsInv ==
    ASSUME TypeOK, DispatchInv, NEW l \in Lanes, NEW t \in Claims, NEW m \in Messages,
           NEW s \in MessageStates, NEW d \in MessageStates, Closes(l, t, m, s, d),
           CallsProgress, UNCHANGED <<op, sends>>
    PROVE  DispatchInv'
<1>0. RowsTypeOK /\ CallsTypeOK
  BY TypeParts
<1>p. /\ AttemptsRecorded /\ CallsOwnAttempts /\ ClaimedIsCurrent /\ IoOnce
      /\ SendsAccounted /\ LaneSerial /\ ClaimedLaneHasOpenAttempt /\ StateIsDerived
      /\ AtMostOneSend
  BY DEF DispatchInv
<1>z. \A x \in Lanes : lane[x].token \in 0..MaxClaims
  BY <1>0 DEF RowsTypeOK, LaneRow
<1>1. \A x \in Lanes : /\ lane'[x].token = lane[x].token
                       /\ lane'[x].msg = IF x = l THEN NoMessage ELSE lane[x].msg
  <2>1. \A x \in Lanes : lane'[x] = IF x = l THEN FreeLane(t) ELSE lane[x]
    BY <1>0 DEF Closes, FinishClaim, RowsTypeOK
  <2>2. FreeLane(t).token = t /\ FreeLane(t).msg = NoMessage
    BY DEF FreeLane
  <2>3. lane[l].token = t
    BY DEF Closes
  <2> QED
    BY <2>1, <2>2, <2>3
<1>2. \A x \in Lanes, y \in Claims :
         /\ att'[x][y].msg = att[x][y].msg
         /\ att'[x][y].owner = att[x][y].owner
         /\ att'[x][y].io = att[x][y].io
         /\ att'[x][y].phase = IF x = l /\ y = t THEN "complete" ELSE att[x][y].phase
         /\ x # l \/ y # t => att'[x][y] = att[x][y]
  <2> DEFINE c == [att[l][t] EXCEPT !.phase = "complete"]
  <2>1. att' = [att EXCEPT ![l][t] = c]
    BY DEF Closes, FinishClaim
  <2>2. att[l][t] \in AttemptRow
    BY <1>0 DEF RowsTypeOK
  <2>3. /\ c.msg = att[l][t].msg /\ c.owner = att[l][t].owner /\ c.io = att[l][t].io
        /\ c.phase = "complete"
    BY <2>2 DEF AttemptRow
  <2> HIDE DEF c
  <2>4. \A x \in Lanes, y \in Claims :
           att'[x][y] = IF x = l /\ y = t THEN c ELSE att[x][y]
    BY <1>0, <2>1 DEF RowsTypeOK
  <2> QED
    BY <2>3, <2>4
<1>3. \A n \in Messages : /\ st'[n] = IF n = m THEN s ELSE st[n]
                          /\ derived'[n] = IF n = m THEN d ELSE derived[n]
  BY <1>0 DEF Closes, RowsTypeOK
<1>5. /\ lane[l].token = t /\ lane[l].msg = m /\ st[m] = "dispatching"
      /\ \/ s = "queued" /\ d = "dispatching" /\ att[l][t].phase = "claimed"
         \/ s = d /\ s \notin {"", "queued", "dispatching"}
  BY DEF Closes
<1>6. t \in Nat /\ lane[l].token = t
  <2>1. t \in Nat
    BY DEF Claims
  <2> QED
    BY <1>5, <2>1
<1>4. LaneOf[m] = l /\ att[l][t].msg = m
  <2>1. att[l][t].msg = m
    BY <1>p, <1>5 DEF ClaimedLaneHasOpenAttempt, LaneHasOpenAttempt
  <2>2. t <= lane[l].token
    BY <1>6
  <2> QED
    BY <1>p, <2>1, <2>2 DEF AttemptsRecorded
<1>a. AttemptsRecorded'
  <2> SUFFICES ASSUME NEW x \in Lanes, NEW y \in Claims
               PROVE  /\ y > lane'[x].token => att'[x][y] = NoAttempt
                      /\ y <= lane'[x].token => /\ att'[x][y].msg \in Messages
                                               /\ LaneOf[att'[x][y].msg] = x
                      /\ op'[x][y] # "none" => att'[x][y].io
    BY DEF AttemptsRecorded
  <2>1. lane'[x].token = lane[x].token /\ op' = op
    BY <1>1
  <2>2. ASSUME y > lane[x].token
        PROVE  att'[x][y] = NoAttempt
    <3>1. x # l \/ y # t
      BY <1>6, <2>2
    <3> QED
      BY <1>p, <1>2, <2>2, <3>1 DEF AttemptsRecorded
  <2> QED
    BY <1>p, <1>2, <2>1, <2>2 DEF AttemptsRecorded
<1>b. CallsOwnAttempts'
  <2> SUFFICES ASSUME NEW p \in Owners, NEW x \in Lanes,
                      disp'[p][x].pc \notin {"idle", "listed"}
               PROVE  /\ disp'[p][x].token \in 1..lane'[x].token
                      /\ att'[x][disp'[p][x].token].owner = p
                      /\ att'[x][disp'[p][x].token].msg = disp'[p][x].msg
    BY DEF CallsOwnAttempts
  <2>1. /\ disp[p][x].pc \notin {"idle", "listed"}
        /\ disp'[p][x].token = disp[p][x].token
        /\ disp'[p][x].msg = disp[p][x].msg
    BY DEF CallsProgress
  <2>2. /\ disp[p][x].token \in 1..lane[x].token
        /\ att[x][disp[p][x].token].owner = p
        /\ att[x][disp[p][x].token].msg = disp[p][x].msg
    BY <1>p, <2>1 DEF CallsOwnAttempts
  <2>3. disp[p][x].token \in Claims
    BY <1>z, <2>2 DEF Claims
  <2> QED
    BY <1>1, <1>2, <2>1, <2>2, <2>3
<1>c. ClaimedIsCurrent'
  <2> SUFFICES ASSUME NEW x \in Lanes, NEW y \in Claims, att'[x][y].phase = "claimed"
               PROVE  /\ y = lane'[x].token
                      /\ lane'[x].msg = att'[x][y].msg
                      /\ st'[att'[x][y].msg] = "dispatching"
                      /\ \A u \in Claims : att'[x][u].io => att'[x][u].msg # att'[x][y].msg
    BY DEF ClaimedIsCurrent
  <2>1. att[x][y].phase = "claimed"
    BY <1>2
  <2>2. /\ y = lane[x].token
        /\ lane[x].msg = att[x][y].msg
        /\ st[att[x][y].msg] = "dispatching"
        /\ \A u \in Claims : att[x][u].io => att[x][u].msg # att[x][y].msg
    BY <1>p, <2>1 DEF ClaimedIsCurrent
  <2>3. x # l
    BY <1>2, <1>5, <2>2
  <2>4. att[x][y].msg \in Messages /\ LaneOf[att[x][y].msg] = x
    BY <1>0, <1>p, <2>1, RecordedAttempt
  <2>5. st'[att[x][y].msg] = "dispatching"
    BY <1>3, <1>4, <2>2, <2>3, <2>4
  <2> QED
    BY <1>1, <1>2, <2>2, <2>3, <2>5
<1>d. IoOnce'
  <2> SUFFICES ASSUME NEW x \in Lanes, NEW y \in Claims, att'[x][y].io
               PROVE  /\ st'[att'[x][y].msg] \notin {"", "queued"}
                      /\ \A u \in Claims :
                            att'[x][u].io /\ att'[x][u].msg = att'[x][y].msg => u = y
    BY DEF IoOnce
  <2>1. att[x][y].io
    BY <1>2
  <2>2. /\ st[att[x][y].msg] \notin {"", "queued"}
        /\ \A u \in Claims : att[x][u].io /\ att[x][u].msg = att[x][y].msg => u = y
    BY <1>p, <2>1 DEF IoOnce
  <2>3. att[x][y].msg \in Messages /\ LaneOf[att[x][y].msg] = x
    BY <1>0, <1>p, <2>1, RecordedAttempt
  \* A message put back into the queue has no attempt that began I/O.
  <2>4. ASSUME att[x][y].msg = m, s = "queued"
        PROVE  FALSE
    <3>1. x = l /\ att[l][t].phase = "claimed"
      BY <1>4, <1>5, <2>3, <2>4
    <3> QED
      BY <1>p, <1>4, <2>1, <2>4, <3>1 DEF ClaimedIsCurrent
  <2>5. st'[att[x][y].msg] \notin {"", "queued"}
    BY <1>3, <1>5, <2>2, <2>3, <2>4
  <2> QED
    BY <1>2, <2>2, <2>5
<1>e. SendsAccounted'
  <2>1. ASSUME NEW x \in Lanes, NEW y \in Claims, op'[x][y] \in {"running", "stray"}
        PROVE  sends'[att'[x][y].msg] = 0
    BY <1>p, <1>2, <2>1 DEF SendsAccounted
  <2>2. ASSUME NEW p \in Owners, NEW x \in Lanes, disp'[p][x].pc = "sending"
        PROVE  /\ att'[x][disp'[p][x].token].io
               /\ op'[x][disp'[p][x].token] = "none"
               /\ sends'[disp'[p][x].msg] = 0
    <3>1. /\ disp[p][x].pc = "sending"
          /\ disp'[p][x].token = disp[p][x].token
          /\ disp'[p][x].msg = disp[p][x].msg
      BY <2>2 DEF CallsProgress
    <3>2. /\ disp[p][x].token \in 1..lane[x].token
          /\ att[x][disp[p][x].token].io
          /\ op[x][disp[p][x].token] = "none"
          /\ sends[disp[p][x].msg] = 0
      BY <1>p, <3>1 DEF SendsAccounted, CallsOwnAttempts
    <3>3. disp[p][x].token \in Claims
      BY <1>z, <3>2 DEF Claims
    <3> QED
      BY <1>2, <3>1, <3>2, <3>3
  <2>3. ASSUME NEW n \in Messages, sends'[n] > 0
        PROVE  Committed(n)'
    <3>1. PICK y \in Claims : att[LaneOf[n]][y].io /\ att[LaneOf[n]][y].msg = n
      BY <1>p, <2>3 DEF SendsAccounted, Committed
    <3> QED
      BY <1>2, <3>1 DEF Committed
  <2> QED
    BY <2>1, <2>2, <2>3 DEF SendsAccounted
<1>f. AtMostOneSend'
  BY <1>p DEF AtMostOneSend
<1>g. LaneSerial'
  <2> SUFFICES ASSUME NEW n \in Messages, st'[n] = "dispatching", LaneOf[n] \in Lanes
               PROVE  lane'[LaneOf[n]].msg = n
    BY DEF LaneSerial
  <2>1. n # m /\ st[n] = "dispatching"
    BY <1>3, <1>5
  <2>2. lane[LaneOf[n]].msg = n
    BY <1>p, <2>1 DEF LaneSerial
  <2>3. LaneOf[n] # l
    BY <1>5, <2>1, <2>2
  <2> QED
    BY <1>1, <2>2, <2>3
<1>h. ClaimedLaneHasOpenAttempt'
  BY <1>p, <1>1, <1>2 DEF ClaimedLaneHasOpenAttempt, LaneHasOpenAttempt
<1>i. StateIsDerived'
  <2> SUFFICES ASSUME NEW n \in Messages
               PROVE  \/ st'[n] = derived'[n]
                      \/ st'[n] = "queued" /\ derived'[n] = "dispatching"
    BY DEF StateIsDerived
  <2>1. CASE n = m
    BY <1>3, <1>5, <2>1
  <2>2. CASE n # m
    BY <1>p, <1>3, <2>2 DEF StateIsDerived
  <2> QED
    BY <2>1, <2>2
<1> QED
  BY <1>a, <1>b, <1>c, <1>d, <1>e, <1>f, <1>g, <1>h, <1>i DEF DispatchInv

-----------------------------------------------------------------------------
(***************************************************************************)
(* The steps of outbound dispatch one by one, and the safety theorems.     *)
(***************************************************************************)

(* The ways a DispatchLane call moves on without newly being about to send. *)
LEMMA CallMoves ==
    ASSUME CallsTypeOK, NEW o \in Owners, NEW l \in Lanes,
           NEW p \in CallPoints, NEW r \in Outcomes,
           \/ disp[o][l].pc \notin {"idle", "listed"} /\ p # "sending"
           \/ p = "listed",
           \/ disp' = disp
           \/ disp' = [disp EXCEPT ![o][l] = Idle]
           \/ disp' = [disp EXCEPT ![o][l].outcome = r]
           \/ disp' = [disp EXCEPT ![o][l].pc = p]
           \/ disp' = [disp EXCEPT ![o][l] = [@ EXCEPT !.pc = p, !.outcome = r]]
    PROVE  CallsProgress
<1>0. disp[o][l] \in DispatchCall
  BY CallFields
<1>1. CASE disp' = disp
  BY <1>1 DEF CallsProgress
<1>2. CASE disp' = [disp EXCEPT ![o][l] = Idle]
  <2>1. Idle.pc = "idle"
    BY DEF Idle
  <2> QED
    BY <1>2, <2>1, CallAt DEF CallsProgress
<1>3. ASSUME NEW c, disp' = [disp EXCEPT ![o][l] = c],
             c.token = disp[o][l].token, c.msg = disp[o][l].msg,
             c.pc = disp[o][l].pc \/ c.pc = p
      PROVE  CallsProgress
  <2>1. \A q \in Owners, x \in Lanes :
           disp'[q][x] = IF q = o /\ x = l THEN c ELSE disp[q][x]
    BY <1>3 DEF CallsTypeOK
  <2> QED
    BY <1>3, <2>1 DEF CallsProgress
<1>4. CASE disp' = [disp EXCEPT ![o][l].outcome = r]
  <2> DEFINE c == [disp[o][l] EXCEPT !.outcome = r]
  <2>1. disp' = [disp EXCEPT ![o][l] = c]
    BY <1>4
  <2>2. c.token = disp[o][l].token /\ c.msg = disp[o][l].msg /\ c.pc = disp[o][l].pc
    BY <1>0 DEF DispatchCall
  <2> HIDE DEF c
  <2> QED
    BY <1>3, <2>1, <2>2
<1>5. CASE disp' = [disp EXCEPT ![o][l].pc = p]
  <2> DEFINE c == [disp[o][l] EXCEPT !.pc = p]
  <2>1. disp' = [disp EXCEPT ![o][l] = c]
    BY <1>5
  <2>2. c.token = disp[o][l].token /\ c.msg = disp[o][l].msg /\ c.pc = p
    BY <1>0 DEF DispatchCall
  <2> HIDE DEF c
  <2> QED
    BY <1>3, <2>1, <2>2
<1>6. CASE disp' = [disp EXCEPT ![o][l] = [@ EXCEPT !.pc = p, !.outcome = r]]
  <2> DEFINE c == [disp[o][l] EXCEPT !.pc = p, !.outcome = r]
  <2>1. disp' = [disp EXCEPT ![o][l] = c]
    BY <1>6
  <2>2. c.token = disp[o][l].token /\ c.msg = disp[o][l].msg /\ c.pc = p
    BY <1>0 DEF DispatchCall
  <2> HIDE DEF c
  <2> QED
    BY <1>3, <2>1, <2>2
<1> QED
  BY <1>1, <1>2, <1>4, <1>5, <1>6

(* Recovering an expired claim keeps the invariant. *)
LEMMA RecoverKeepsInv ==
    ASSUME TypeOK, DispatchInv, NEW l \in Lanes, LaneHasOpenAttempt(l), RecoverLane(l),
           CallsProgress, UNCHANGED <<op, sends>>
    PROVE  DispatchInv'
<1> DEFINE t == lane[l].token
           m == lane[l].msg
           s == RecoveredState(att[l][t].phase)
<1>0. RowsTypeOK
  BY TypeParts
<1>1. t \in Claims /\ m \in Messages /\ att[l][t].msg = m
      /\ att[l][t].phase \in {"claimed", "provider_io_started"}
  BY <1>0 DEF RowsTypeOK, LaneHasOpenAttempt, LaneRow, OpenPhases
<1>2. CASE Recoverable(m)
  <2>1. st[m] = "dispatching"
    BY <1>2 DEF Recoverable
  <2>2. derived[m] = "dispatching"
    BY <1>1, <2>1 DEF DispatchInv, StateIsDerived
  <2>3. /\ st' = [st EXCEPT ![m] = s]
        /\ derived' = [derived EXCEPT ![m] = Observe(derived[m], s)]
        /\ FinishClaim(l, t)
    BY <1>2 DEF RecoverLane, FinishClaim
  <2>4. CASE att[l][t].phase = "claimed"
    <3>1. s = "queued"
      BY <2>4 DEF RecoveredState
    <3>2. Closes(l, t, m, "queued", "dispatching")
      BY <2>1, <2>2, <2>3, <2>4, <3>1, ObserveInFlight DEF Closes
    <3>3. "queued" \in MessageStates /\ "dispatching" \in MessageStates
      BY DEF MessageStates
    <3> HIDE DEF t, m, s
    <3> QED
      BY <1>1, <3>2, <3>3, CloseKeepsInv
  <2>5. CASE att[l][t].phase = "provider_io_started"
    <3>1. s = "uncertain"
      BY <2>5 DEF RecoveredState
    <3>2. Closes(l, t, m, "uncertain", "uncertain")
      BY <2>1, <2>2, <2>3, <3>1, ObserveInFlight DEF Closes
    <3>3. "uncertain" \in MessageStates
      BY DEF MessageStates
    <3> HIDE DEF t, m, s
    <3> QED
      BY <1>1, <3>2, <3>3, CloseKeepsInv
  <2> QED
    BY <1>1, <2>4, <2>5
<1>3. CASE ~Recoverable(m)
  <2>1. st[m] # "dispatching"
    BY <1>3 DEF Recoverable
  <2>2. UNCHANGED <<st, derived, att>> /\ lane' = [lane EXCEPT ![l] = FreeLane(t)]
    BY <1>3 DEF RecoverLane
  <2>3. \A x \in Lanes : /\ lane'[x].token = lane[x].token
                         /\ lane'[x].msg = IF x = l THEN NoMessage ELSE lane[x].msg
    <3>1. \A x \in Lanes : lane'[x] = IF x = l THEN FreeLane(t) ELSE lane[x]
      BY <1>0, <2>2 DEF RowsTypeOK
    <3>2. FreeLane(t).token = t /\ FreeLane(t).msg = NoMessage
      BY DEF FreeLane
    <3> QED
      BY <3>1, <3>2
  <2> HIDE DEF t, s
  <2>p. /\ AttemptsRecorded /\ CallsOwnAttempts /\ ClaimedIsCurrent /\ IoOnce
        /\ SendsAccounted /\ LaneSerial /\ ClaimedLaneHasOpenAttempt /\ StateIsDerived
        /\ AtMostOneSend
    BY DEF DispatchInv
  <2>z. \A x \in Lanes : lane[x].token \in 0..MaxClaims
    BY <1>0 DEF RowsTypeOK, LaneRow
  <2>a. AttemptsRecorded'
    BY <2>p, <2>2, <2>3 DEF AttemptsRecorded
  <2>b. CallsOwnAttempts'
    BY <2>p, <2>2, <2>3 DEF CallsOwnAttempts, CallsProgress
  <2>c. ClaimedIsCurrent'
    <3> SUFFICES ASSUME NEW x \in Lanes, NEW y \in Claims, att[x][y].phase = "claimed"
                 PROVE  /\ y = lane'[x].token
                        /\ lane'[x].msg = att[x][y].msg
                        /\ st[att[x][y].msg] = "dispatching"
                        /\ \A u \in Claims : att[x][u].io => att[x][u].msg # att[x][y].msg
      BY <2>2 DEF ClaimedIsCurrent
    <3>1. /\ y = lane[x].token
          /\ lane[x].msg = att[x][y].msg
          /\ st[att[x][y].msg] = "dispatching"
          /\ \A u \in Claims : att[x][u].io => att[x][u].msg # att[x][y].msg
      BY <2>p DEF ClaimedIsCurrent
    <3>2. x # l
      BY <2>1, <3>1
    <3> QED
      BY <2>3, <3>1, <3>2
  <2>d. IoOnce' /\ StateIsDerived' /\ AtMostOneSend'
    BY <2>p, <2>2 DEF IoOnce, StateIsDerived, AtMostOneSend
  <2>e. SendsAccounted'
    <3>1. ASSUME NEW x \in Lanes, NEW y \in Claims, op[x][y] \in {"running", "stray"}
          PROVE  sends[att[x][y].msg] = 0
      BY <2>p, <3>1 DEF SendsAccounted
    <3>2. ASSUME NEW p \in Owners, NEW x \in Lanes, disp'[p][x].pc = "sending"
          PROVE  /\ att[x][disp'[p][x].token].io
                 /\ op[x][disp'[p][x].token] = "none"
                 /\ sends[disp'[p][x].msg] = 0
      BY <2>p, <3>2 DEF SendsAccounted, CallsProgress
    <3>3. ASSUME NEW n \in Messages, sends[n] > 0
          PROVE  Committed(n)'
      BY <2>p, <2>2, <3>3 DEF SendsAccounted, Committed
    <3> QED
      BY <2>2, <3>1, <3>2, <3>3 DEF SendsAccounted
  <2>f. LaneSerial'
    BY <2>p, <2>1, <2>2, <2>3 DEF LaneSerial
  <2>g. ClaimedLaneHasOpenAttempt'
    BY <2>p, <2>2, <2>3 DEF ClaimedLaneHasOpenAttempt, LaneHasOpenAttempt
  <2> QED
    BY <2>a, <2>b, <2>c, <2>d, <2>e, <2>f, <2>g DEF DispatchInv
<1> QED
  BY <1>2, <1>3

(* Every fenced operation of a dispatcher works on a claim of the lane whose
   message is still dispatching. *)
LEMMA FencedRows ==
    ASSUME TypeOK, DispatchInv, NEW o \in Owners, NEW l \in Lanes,
           disp[o][l].pc \notin {"idle", "listed"}, NEW phase,
           ClaimRowsMatch(o, l, phase)
    PROVE  /\ disp[o][l].token \in Claims
           /\ disp[o][l].msg \in Messages
           /\ lane[l].token = disp[o][l].token
           /\ lane[l].msg = disp[o][l].msg
           /\ att[l][disp[o][l].token].msg = disp[o][l].msg
           /\ att[l][disp[o][l].token].phase = phase
           /\ st[disp[o][l].msg] = "dispatching"
           /\ derived[disp[o][l].msg] = "dispatching"
<1>0. RowsTypeOK
  BY TypeParts
<1>1. /\ lane[l].token = disp[o][l].token
      /\ lane[l].msg = disp[o][l].msg
      /\ att[l][disp[o][l].token].msg = disp[o][l].msg
      /\ att[l][disp[o][l].token].phase = phase
      /\ st[disp[o][l].msg] = "dispatching"
  BY DEF ClaimRowsMatch
<1>2. disp[o][l].token \in 1..lane[l].token
  BY DEF DispatchInv, CallsOwnAttempts
<1>3. lane[l].token \in 0..MaxClaims
  BY <1>0 DEF RowsTypeOK, LaneRow
<1>4. disp[o][l].token \in Claims
  BY <1>2, <1>3 DEF Claims
<1>5. disp[o][l].msg \in Messages
  <2>1. disp[o][l].token <= lane[l].token
    BY <1>2, <1>3
  <2> QED
    BY <1>1, <1>4, <2>1 DEF DispatchInv, AttemptsRecorded
<1>6. derived[disp[o][l].msg] = "dispatching"
  BY <1>1, <1>5 DEF DispatchInv, StateIsDerived
<1> QED
  BY <1>1, <1>4, <1>5, <1>6

(* ReleaseBeforeDispatch keeps the invariant. *)
LEMMA ReleaseKeepsInv ==
    ASSUME TypeOK, DispatchInv, NEW o \in Owners, NEW l \in Lanes,
           ReleaseBeforeDispatch(o, l)
    PROVE  DispatchInv'
<1> DEFINE t == disp[o][l].token
           m == disp[o][l].msg
<1>0. RowsTypeOK /\ CallsTypeOK
  BY TypeParts
<1>1. CallsProgress
  <2>1. disp' = [disp EXCEPT ![o][l] = Idle]
    BY DEF ReleaseBeforeDispatch
  <2>2. "listed" \in CallPoints /\ "none" \in Outcomes
    BY DEF CallPoints, Outcomes
  <2> QED
    BY <1>0, <2>1, <2>2, CallMoves
<1>2. UNCHANGED <<op, sends>> /\ disp[o][l].pc = "releasing"
  BY DEF ReleaseBeforeDispatch, providerVars
<1>3. CASE FencedClaim(o, l, "claimed")
  <2>1. ClaimRowsMatch(o, l, "claimed") /\ disp[o][l].pc \notin {"idle", "listed"}
    BY <1>2, <1>3 DEF FencedClaim
  <2>2. /\ t \in Claims /\ m \in Messages /\ lane[l].token = t /\ lane[l].msg = m
        /\ att[l][t].phase = "claimed" /\ st[m] = "dispatching"
        /\ derived[m] = "dispatching"
    BY <2>1, FencedRows
  <2>3. /\ st' = [st EXCEPT ![m] = "queued"]
        /\ derived' = [derived EXCEPT ![m] = Observe(derived[m], "queued")]
        /\ FinishClaim(l, t)
    BY <1>3 DEF ReleaseBeforeDispatch
  <2> HIDE DEF t, m
  <2>4. Closes(l, t, m, "queued", "dispatching")
    BY <2>2, <2>3, ObserveInFlight DEF Closes
  <2>5. "queued" \in MessageStates /\ "dispatching" \in MessageStates
    BY DEF MessageStates
  <2> QED
    BY <1>1, <1>2, <2>2, <2>4, <2>5, CloseKeepsInv
<1>4. CASE ~FencedClaim(o, l, "claimed")
  <2>1. UNCHANGED <<st, derived, att, sends>> /\ UNCHANGED lane /\ UNCHANGED op
    BY <1>2, <1>4 DEF ReleaseBeforeDispatch, storeVars
  <2>2. OperationsProgress
    BY <2>1 DEF OperationsProgress
  <2> QED
    BY <1>1, <2>1, <2>2, ProgressKeepsInv
<1> QED
  BY <1>3, <1>4

(* CompleteDispatch keeps the invariant. *)
LEMMA CompleteKeepsInv ==
    ASSUME TypeOK, DispatchInv, NEW o \in Owners, NEW l \in Lanes,
           CompleteDispatch(o, l)
    PROVE  DispatchInv'
<1> DEFINE t == disp[o][l].token
           m == disp[o][l].msg
           s == Completed("dispatching", disp[o][l].outcome)
<1>0. RowsTypeOK /\ CallsTypeOK
  BY TypeParts
<1>1. CallsProgress
  <2>1. disp' = [disp EXCEPT ![o][l] = Idle]
    BY DEF CompleteDispatch
  <2>2. "listed" \in CallPoints /\ "none" \in Outcomes
    BY DEF CallPoints, Outcomes
  <2> QED
    BY <1>0, <2>1, <2>2, CallMoves
<1>2. UNCHANGED <<op, sends>> /\ disp[o][l].pc = "completing"
  BY DEF CompleteDispatch, providerVars
<1>3. CASE CompletionFence(o, l)
  <2>1. /\ ClaimRowsMatch(o, l, "provider_io_started")
        /\ disp[o][l].pc \notin {"idle", "listed"}
    BY <1>2, <1>3 DEF CompletionFence
  <2>2. /\ t \in Claims /\ m \in Messages /\ lane[l].token = t /\ lane[l].msg = m
        /\ st[m] = "dispatching" /\ derived[m] = "dispatching"
    BY <2>1, FencedRows
  <2>3. /\ st' = [st EXCEPT ![m] = Completed(st[m], disp[o][l].outcome)]
        /\ derived' = [derived EXCEPT ![m] = Completed(derived[m], disp[o][l].outcome)]
        /\ FinishClaim(l, t)
    BY <1>3 DEF CompleteDispatch
  <2>4. s \in {"awaiting_phone", "failed", "uncertain"}
    BY CompletedInFlight
  <2>5. /\ st' = [st EXCEPT ![m] = s]
        /\ derived' = [derived EXCEPT ![m] = s]
    BY <2>2, <2>3
  <2> HIDE DEF t, m, s
  <2>6. Closes(l, t, m, s, s)
    BY <2>2, <2>3, <2>4, <2>5 DEF Closes
  <2>7. s \in MessageStates
    BY <2>4 DEF MessageStates
  <2> QED
    BY <1>1, <1>2, <2>2, <2>6, <2>7, CloseKeepsInv
<1>4. CASE ~CompletionFence(o, l)
  <2>1. UNCHANGED <<st, derived, att, sends>> /\ UNCHANGED lane /\ UNCHANGED op
    BY <1>2, <1>4 DEF CompleteDispatch, storeVars
  <2>2. OperationsProgress
    BY <2>1 DEF OperationsProgress
  <2> QED
    BY <1>1, <2>1, <2>2, ProgressKeepsInv
<1> QED
  BY <1>3, <1>4

(* Beginning provider I/O under the fence keeps the invariant, whether its
   caller goes on to send or takes the answer for an error. *)
LEMMA StartIOKeepsInv ==
    ASSUME TypeOK, DispatchInv, NEW o \in Owners, NEW l \in Lanes,
           disp[o][l].pc = "claimed", FencedClaim(o, l, "claimed"), StartIO(o, l),
           NEW p \in {"sending", "releasing"}, disp' = [disp EXCEPT ![o][l].pc = p],
           UNCHANGED <<st, derived, lane, op, sends>>
    PROVE  DispatchInv'
<1> DEFINE t == disp[o][l].token
           m == disp[o][l].msg
<1>0. RowsTypeOK /\ CallsTypeOK /\ OperationsTypeOK
  BY TypeParts
<1>p. /\ AttemptsRecorded /\ CallsOwnAttempts /\ ClaimedIsCurrent /\ IoOnce
      /\ SendsAccounted /\ LaneSerial /\ ClaimedLaneHasOpenAttempt /\ StateIsDerived
      /\ AtMostOneSend
  BY DEF DispatchInv
<1>z. \A x \in Lanes : lane[x].token \in 0..MaxClaims
  BY <1>0 DEF RowsTypeOK, LaneRow
<1>1. /\ t \in Claims /\ m \in Messages /\ lane[l].token = t /\ lane[l].msg = m
      /\ att[l][t].msg = m /\ att[l][t].phase = "claimed" /\ st[m] = "dispatching"
  BY FencedRows DEF FencedClaim
<1>2. \A x \in Lanes, y \in Claims :
         /\ att'[x][y].msg = att[x][y].msg
         /\ att'[x][y].owner = att[x][y].owner
         /\ x = l /\ y = t => /\ att'[x][y].phase = "provider_io_started"
                             /\ att'[x][y].io
         /\ x # l \/ y # t => att'[x][y] = att[x][y]
  <2> DEFINE c == [att[l][t] EXCEPT !.phase = "provider_io_started", !.io = TRUE]
  <2>1. att' = [att EXCEPT ![l][t] = c]
    BY DEF StartIO
  <2>2. att[l][t] \in AttemptRow
    BY <1>0, <1>1 DEF RowsTypeOK
  <2>3. /\ c.msg = att[l][t].msg /\ c.owner = att[l][t].owner /\ c.io = TRUE
        /\ c.phase = "provider_io_started"
    BY <2>2 DEF AttemptRow
  <2> HIDE DEF c, t
  <2>4. \A x \in Lanes, y \in Claims :
           att'[x][y] = IF x = l /\ y = t THEN c ELSE att[x][y]
    BY <1>0, <1>1, <2>1 DEF RowsTypeOK
  <2> QED
    BY <2>3, <2>4
<1>3. \A q \in Owners, x \in Lanes :
         /\ disp'[q][x].token = disp[q][x].token
         /\ disp'[q][x].msg = disp[q][x].msg
         /\ q = o /\ x = l => disp'[q][x].pc = p
         /\ q # o \/ x # l => disp'[q][x] = disp[q][x]
  <2> DEFINE c == [disp[o][l] EXCEPT !.pc = p]
  <2>1. disp' = [disp EXCEPT ![o][l] = c]
    OBVIOUS
  <2>2. disp[o][l] \in DispatchCall
    BY <1>0, CallFields
  <2>3. c.token = disp[o][l].token /\ c.msg = disp[o][l].msg /\ c.pc = p
    BY <2>2 DEF DispatchCall
  <2> HIDE DEF c, t, m
  <2>4. \A q \in Owners, x \in Lanes :
           disp'[q][x] = IF q = o /\ x = l THEN c ELSE disp[q][x]
    BY <1>0, <2>1 DEF CallsTypeOK
  <2> QED
    BY <2>3, <2>4
<1>4. disp[o][l].token = t /\ disp[o][l].msg = m /\ disp[o][l].pc = "claimed"
  OBVIOUS
<1> HIDE DEF t, m
<1>5. t \in Nat /\ LaneOf[m] = l
  <2>1. t \in Nat /\ t <= lane[l].token
    BY <1>1 DEF Claims
  <2> QED
    BY <1>p, <1>1, <2>1 DEF AttemptsRecorded
<1>6. \A u \in Claims : att[l][u].io => att[l][u].msg # m
  BY <1>p, <1>1 DEF ClaimedIsCurrent
<1>7. op[l][t] = "none"
  BY <1>p, <1>1, <1>6 DEF AttemptsRecorded
<1>8. sends[m] = 0
  <2>1. ~Committed(m)
    BY <1>5, <1>6 DEF Committed
  <2>2. sends[m] \in Nat
    BY <1>0, <1>1 DEF OperationsTypeOK
  <2> QED
    BY <1>p, <1>1, <2>1, <2>2 DEF SendsAccounted
<1>a. AttemptsRecorded'
  <2> SUFFICES ASSUME NEW x \in Lanes, NEW y \in Claims
               PROVE  /\ y > lane[x].token => att'[x][y] = NoAttempt
                      /\ y <= lane[x].token => /\ att'[x][y].msg \in Messages
                                              /\ LaneOf[att'[x][y].msg] = x
                      /\ op[x][y] # "none" => att'[x][y].io
    BY DEF AttemptsRecorded
  <2>1. /\ y > lane[x].token => att[x][y] = NoAttempt
        /\ y <= lane[x].token => /\ att[x][y].msg \in Messages
                                /\ LaneOf[att[x][y].msg] = x
        /\ op[x][y] # "none" => att[x][y].io
    BY <1>p DEF AttemptsRecorded
  <2>2. y > lane[x].token => x # l \/ y # t
    BY <1>1, <1>5
  <2> QED
    BY <1>2, <2>1, <2>2
<1>b. CallsOwnAttempts'
  <2> SUFFICES ASSUME NEW q \in Owners, NEW x \in Lanes,
                      disp'[q][x].pc \notin {"idle", "listed"}
               PROVE  /\ disp'[q][x].token \in 1..lane[x].token
                      /\ att'[x][disp'[q][x].token].owner = q
                      /\ att'[x][disp'[q][x].token].msg = disp'[q][x].msg
    BY DEF CallsOwnAttempts
  <2>1. disp[q][x].pc \notin {"idle", "listed"}
    BY <1>3, <1>4
  <2>2. /\ disp[q][x].token \in 1..lane[x].token
        /\ att[x][disp[q][x].token].owner = q
        /\ att[x][disp[q][x].token].msg = disp[q][x].msg
    BY <1>p, <2>1 DEF CallsOwnAttempts
  <2>3. disp[q][x].token \in Claims
    BY <1>z, <2>2 DEF Claims
  <2> QED
    BY <1>2, <1>3, <2>2, <2>3
<1>c. ClaimedIsCurrent'
  <2> SUFFICES ASSUME NEW x \in Lanes, NEW y \in Claims, att'[x][y].phase = "claimed"
               PROVE  /\ y = lane[x].token
                      /\ lane[x].msg = att'[x][y].msg
                      /\ st[att'[x][y].msg] = "dispatching"
                      /\ \A u \in Claims : att'[x][u].io => att'[x][u].msg # att'[x][y].msg
    BY DEF ClaimedIsCurrent
  <2>1. att'[x][y] = att[x][y] /\ (x # l \/ y # t)
    BY <1>2
  <2>2. /\ y = lane[x].token
        /\ lane[x].msg = att[x][y].msg
        /\ st[att[x][y].msg] = "dispatching"
        /\ \A u \in Claims : att[x][u].io => att[x][u].msg # att[x][y].msg
    BY <1>p, <2>1 DEF ClaimedIsCurrent
  <2>3. x # l
    BY <1>1, <2>1, <2>2
  <2> QED
    BY <1>2, <2>1, <2>2, <2>3
<1>d. IoOnce'
  <2> SUFFICES ASSUME NEW x \in Lanes, NEW y \in Claims, att'[x][y].io
               PROVE  /\ st[att'[x][y].msg] \notin {"", "queued"}
                      /\ \A u \in Claims :
                            att'[x][u].io /\ att'[x][u].msg = att'[x][y].msg => u = y
    BY DEF IoOnce
  <2>1. CASE x = l /\ y = t
    <3>1. att'[x][y].msg = m
      BY <1>1, <1>2, <2>1
    <3>2. ASSUME NEW u \in Claims, att'[x][u].io, att'[x][u].msg = m
          PROVE  u = y
      BY <1>2, <1>6, <2>1, <3>2
    <3> QED
      BY <1>1, <3>1, <3>2
  <2>2. CASE x # l \/ y # t
    <3>1. att'[x][y] = att[x][y]
      BY <1>2, <2>2
    <3>2. /\ st[att[x][y].msg] \notin {"", "queued"}
          /\ \A u \in Claims : att[x][u].io /\ att[x][u].msg = att[x][y].msg => u = y
      BY <1>p, <3>1 DEF IoOnce
    <3>3. ASSUME NEW u \in Claims, att'[x][u].io, att'[x][u].msg = att'[x][y].msg
          PROVE  u = y
      <4>1. x # l \/ u # t
        BY <1>1, <1>2, <1>6, <2>2, <3>1, <3>3
      <4> QED
        BY <1>2, <3>1, <3>2, <3>3, <4>1
    <3> QED
      BY <3>1, <3>2, <3>3
  <2> QED
    BY <2>1, <2>2
<1>e. SendsAccounted'
  <2>1. ASSUME NEW x \in Lanes, NEW y \in Claims, op[x][y] \in {"running", "stray"}
        PROVE  sends[att'[x][y].msg] = 0
    BY <1>p, <1>2, <2>1 DEF SendsAccounted
  <2>2. ASSUME NEW q \in Owners, NEW x \in Lanes, disp'[q][x].pc = "sending"
        PROVE  /\ att'[x][disp'[q][x].token].io
               /\ op[x][disp'[q][x].token] = "none"
               /\ sends[disp'[q][x].msg] = 0
    <3>1. CASE q = o /\ x = l
      BY <1>1, <1>2, <1>3, <1>4, <1>7, <1>8, <3>1
    <3>2. CASE q # o \/ x # l
      <4>1. disp'[q][x] = disp[q][x]
        BY <1>3, <3>2
      <4>2. /\ disp[q][x].token \in 1..lane[x].token
            /\ att[x][disp[q][x].token].io
            /\ op[x][disp[q][x].token] = "none"
            /\ sends[disp[q][x].msg] = 0
        <5>1. disp[q][x].pc = "sending"
          BY <2>2, <4>1
        <5> QED
          BY <1>p, <5>1 DEF SendsAccounted, CallsOwnAttempts
      <4>3. disp[q][x].token \in Claims
        BY <1>z, <4>2 DEF Claims
      <4>4. att'[x][disp[q][x].token].io
        BY <1>2, <4>2, <4>3
      <4> QED
        BY <4>1, <4>2, <4>4
    <3> QED
      BY <3>1, <3>2
  <2>3. ASSUME NEW n \in Messages, sends[n] > 0
        PROVE  Committed(n)'
    <3>1. PICK y \in Claims : att[LaneOf[n]][y].io /\ att[LaneOf[n]][y].msg = n
      BY <1>p, <2>3 DEF SendsAccounted, Committed
    <3>2. att'[LaneOf[n]][y].io /\ att'[LaneOf[n]][y].msg = n
      BY <1>2, <3>1
    <3> QED
      BY <3>2 DEF Committed
  <2> QED
    BY <2>1, <2>2, <2>3 DEF SendsAccounted
<1>f. AtMostOneSend' /\ LaneSerial' /\ StateIsDerived'
  BY <1>p DEF AtMostOneSend, LaneSerial, StateIsDerived
<1>h. ClaimedLaneHasOpenAttempt'
  BY <1>p, <1>1, <1>2
    DEF ClaimedLaneHasOpenAttempt, LaneHasOpenAttempt, OpenPhases
<1> QED
  BY <1>a, <1>b, <1>c, <1>d, <1>e, <1>f, <1>h DEF DispatchInv

\* A message's state changes outside dispatch: it is submitted, or evidence on
\* a message that began I/O is folded in.
StateMoves(m, d) ==
    /\ st' = [st EXCEPT ![m] = d]
    /\ derived' = [derived EXCEPT ![m] = d]
    /\ \/ st[m] = "" /\ d = "queued"
       \/ Committed(m) /\ (d = st[m] \/ d \notin {"", "queued", "dispatching"})

(* Such a change keeps the invariant. *)
LEMMA StateKeepsInv ==
    ASSUME TypeOK, DispatchInv, UNCHANGED <<lane, att, disp, op, sends>>,
           NEW m \in Messages, NEW d, StateMoves(m, d)
    PROVE  DispatchInv'
<1>0. RowsTypeOK
  BY TypeParts
<1>p. /\ AttemptsRecorded /\ CallsOwnAttempts /\ ClaimedIsCurrent /\ IoOnce
      /\ SendsAccounted /\ LaneSerial /\ ClaimedLaneHasOpenAttempt /\ StateIsDerived
      /\ AtMostOneSend
  BY DEF DispatchInv
<1>1. \A n \in Messages : /\ st'[n] = IF n = m THEN d ELSE st[n]
                          /\ derived'[n] = IF n = m THEN d ELSE derived[n]
  BY <1>0 DEF RowsTypeOK, StateMoves
<1>2. AttemptsRecorded' /\ CallsOwnAttempts' /\ AtMostOneSend'
  <2>1. AttemptsRecorded'
    BY <1>p DEF AttemptsRecorded
  <2>2. CallsOwnAttempts'
    BY <1>p DEF CallsOwnAttempts
  <2>3. AtMostOneSend'
    BY <1>p DEF AtMostOneSend
  <2> QED
    BY <2>1, <2>2, <2>3
<1>3. SendsAccounted' /\ ClaimedLaneHasOpenAttempt'
  <2>1. SendsAccounted'
    BY <1>p DEF SendsAccounted, Committed
  <2>2. ClaimedLaneHasOpenAttempt'
    BY <1>p DEF ClaimedLaneHasOpenAttempt, LaneHasOpenAttempt
  <2> QED
    BY <2>1, <2>2
<1>m. \/ st[m] = "" /\ d = "queued"
      \/ Committed(m) /\ (d = st[m] \/ d \notin {"", "queued", "dispatching"})
  BY DEF StateMoves
<1>4. ClaimedIsCurrent'
  <2> SUFFICES ASSUME NEW x \in Lanes, NEW y \in Claims, att[x][y].phase = "claimed"
               PROVE  /\ y = lane[x].token
                      /\ lane[x].msg = att[x][y].msg
                      /\ st'[att[x][y].msg] = "dispatching"
                      /\ \A u \in Claims : att[x][u].io => att[x][u].msg # att[x][y].msg
    BY DEF ClaimedIsCurrent
  <2>1. /\ y = lane[x].token
        /\ lane[x].msg = att[x][y].msg
        /\ st[att[x][y].msg] = "dispatching"
        /\ \A u \in Claims : att[x][u].io => att[x][u].msg # att[x][y].msg
    BY <1>p DEF ClaimedIsCurrent
  <2>2. att[x][y].msg \in Messages /\ LaneOf[att[x][y].msg] = x
    BY <1>0, <1>p, RecordedAttempt
  <2>3. att[x][y].msg # m
    <3>1. CASE st[m] = ""
      BY <2>1, <3>1
    <3>2. CASE Committed(m)
      <4>1. PICK u \in Claims : att[LaneOf[m]][u].io /\ att[LaneOf[m]][u].msg = m
        BY <3>2 DEF Committed
      <4> QED
        BY <2>1, <2>2, <4>1
    <3> QED
      BY <1>m, <3>1, <3>2
  <2> QED
    BY <1>1, <2>1, <2>2, <2>3
<1>5. IoOnce'
  <2> SUFFICES ASSUME NEW x \in Lanes, NEW y \in Claims, att[x][y].io
               PROVE  /\ st'[att[x][y].msg] \notin {"", "queued"}
                      /\ \A u \in Claims :
                            att[x][u].io /\ att[x][u].msg = att[x][y].msg => u = y
    BY DEF IoOnce
  <2>1. /\ st[att[x][y].msg] \notin {"", "queued"}
        /\ \A u \in Claims : att[x][u].io /\ att[x][u].msg = att[x][y].msg => u = y
    BY <1>p DEF IoOnce
  <2>2. att[x][y].msg \in Messages
    BY <1>0, <1>p, RecordedAttempt
  <2> QED
    BY <1>1, <1>m, <2>1, <2>2
<1>6. LaneSerial'
  <2> SUFFICES ASSUME NEW n \in Messages, st'[n] = "dispatching", LaneOf[n] \in Lanes
               PROVE  lane[LaneOf[n]].msg = n
    BY DEF LaneSerial
  <2>1. st[n] = "dispatching"
    BY <1>1, <1>m
  <2> QED
    BY <1>p, <2>1 DEF LaneSerial
<1>7. StateIsDerived'
  BY <1>p, <1>1 DEF StateIsDerived
<1> QED
  BY <1>2, <1>3, <1>4, <1>5, <1>6, <1>7 DEF DispatchInv

(* CreateOutbound keeps the invariant. *)
LEMMA CreateKeepsInv ==
    ASSUME TypeOK, DispatchInv, NEW m \in Messages, CreateOutbound(m)
    PROVE  DispatchInv'
<1>1. /\ st[m] = ""
      /\ st' = [st EXCEPT ![m] = "queued"]
      /\ derived' = [derived EXCEPT ![m] = "queued"]
      /\ UNCHANGED <<lane, att, disp, op, sends>>
  BY DEF CreateOutbound, providerVars
<1>2. StateMoves(m, "queued")
  BY <1>1 DEF StateMoves
<1> QED
  BY <1>1, <1>2, StateKeepsInv

(* Provider evidence keeps the invariant. *)
LEMMA ProjectKeepsInv ==
    ASSUME TypeOK, DispatchInv, NEW o \in Owners, NEW m \in Messages, NEW s \in Evidence,
           ProjectProviderStatus(o, m, s)
    PROVE  DispatchInv'
<1> DEFINE d == IF s = "" THEN derived[m] ELSE Observe(derived[m], s)
<1>1. /\ sends[m] > 0
      /\ st' = [st EXCEPT ![m] = d]
      /\ derived' = [derived EXCEPT ![m] = d]
      /\ UNCHANGED <<lane, att, disp, op, sends>>
  BY DEF ProjectProviderStatus, providerVars
<1>2. Committed(m)
  BY <1>1 DEF DispatchInv, SendsAccounted
<1>3. st[m] # "queued"
  <2>1. PICK y \in Claims : att[LaneOf[m]][y].io /\ att[LaneOf[m]][y].msg = m
    BY <1>2 DEF Committed
  <2> QED
    BY <2>1 DEF DispatchInv, IoOnce
<1>4. derived[m] = st[m]
  BY <1>3 DEF DispatchInv, StateIsDerived
<1>5. s \in {"", "sent", "delivered", "read", "failed"}
  BY DEF EvidenceStates
<1>6. d = st[m] \/ d \notin {"", "queued", "dispatching"}
  <2>1. CASE s = ""
    BY <1>4, <2>1
  <2>2. CASE s # ""
    <3>1. Observe(derived[m], s) = derived[m] \/ Observe(derived[m], s) = s
      BY ObserveChooses
    <3> QED
      BY <1>4, <1>5, <2>2, <3>1
  <2> QED
    BY <2>1, <2>2
<1> HIDE DEF d
<1>7. StateMoves(m, d)
  BY <1>1, <1>2, <1>6 DEF StateMoves
<1> QED
  BY <1>1, <1>7, StateKeepsInv

(* Handing a send to the actor keeps the invariant. *)
LEMMA OperationStartKeepsInv ==
    ASSUME TypeOK, DispatchInv, NEW o \in Owners, NEW l \in Lanes, OperationStarts(o, l)
    PROVE  DispatchInv'
<1> DEFINE t == disp[o][l].token
<1>0. RowsTypeOK /\ CallsTypeOK /\ OperationsTypeOK
  BY TypeParts
<1>p. AttemptsRecorded /\ CallsOwnAttempts /\ SendsAccounted /\ AtMostOneSend
  BY DEF DispatchInv
<1>z. \A x \in Lanes : lane[x].token \in 0..MaxClaims
  BY <1>0 DEF RowsTypeOK, LaneRow
<1>1. /\ disp[o][l].pc = "sending"
      /\ op' = [op EXCEPT ![l][t] = "running"]
      /\ disp' = [disp EXCEPT ![o][l].pc = "responding"]
      /\ UNCHANGED <<st, derived, lane, att, sends>>
  BY DEF OperationStarts, storeVars
<1>2. /\ t \in 1..lane[l].token
      /\ att[l][t].owner = o
      /\ att[l][t].msg = disp[o][l].msg
      /\ att[l][t].io
      /\ op[l][t] = "none"
      /\ sends[disp[o][l].msg] = 0
  BY <1>p, <1>1 DEF CallsOwnAttempts, SendsAccounted
<1>3. t \in Claims
  BY <1>z, <1>2 DEF Claims
<1>4. disp[o][l].token = t
  OBVIOUS
<1> HIDE DEF t
<1>5. \A x \in Lanes, y \in Claims :
         op'[x][y] = IF x = l /\ y = t THEN "running" ELSE op[x][y]
  BY <1>0, <1>1, <1>3 DEF OperationsTypeOK
<1>6. \A q \in Owners, x \in Lanes :
         /\ disp'[q][x].token = disp[q][x].token
         /\ disp'[q][x].msg = disp[q][x].msg
         /\ q = o /\ x = l => disp'[q][x].pc = "responding"
         /\ q # o \/ x # l => disp'[q][x] = disp[q][x]
  <2> DEFINE c == [disp[o][l] EXCEPT !.pc = "responding"]
  <2>1. disp' = [disp EXCEPT ![o][l] = c]
    BY <1>1
  <2>2. disp[o][l] \in DispatchCall
    BY <1>0, CallFields
  <2>3. c.token = disp[o][l].token /\ c.msg = disp[o][l].msg /\ c.pc = "responding"
    BY <2>2 DEF DispatchCall
  <2> HIDE DEF c
  <2>4. \A q \in Owners, x \in Lanes :
           disp'[q][x] = IF q = o /\ x = l THEN c ELSE disp[q][x]
    BY <1>0, <2>1 DEF CallsTypeOK
  <2> QED
    BY <2>3, <2>4
<1>a. AttemptsRecorded'
  BY <1>p, <1>1, <1>2, <1>5 DEF AttemptsRecorded
<1>b. CallsOwnAttempts'
  BY <1>p, <1>1, <1>6 DEF CallsOwnAttempts
<1>c. SendsAccounted'
  <2>1. ASSUME NEW x \in Lanes, NEW y \in Claims, op'[x][y] \in {"running", "stray"}
        PROVE  sends[att[x][y].msg] = 0
    BY <1>p, <1>2, <1>5, <2>1 DEF SendsAccounted
  <2>2. ASSUME NEW q \in Owners, NEW x \in Lanes, disp'[q][x].pc = "sending"
        PROVE  /\ att[x][disp'[q][x].token].io
               /\ op'[x][disp'[q][x].token] = "none"
               /\ sends[disp'[q][x].msg] = 0
    <3>1. (q # o \/ x # l) /\ disp'[q][x] = disp[q][x]
      BY <1>6, <2>2
    <3>2. disp[q][x].pc = "sending"
      BY <2>2, <3>1
    <3>3. /\ disp[q][x].token \in 1..lane[x].token
          /\ att[x][disp[q][x].token].owner = q
          /\ att[x][disp[q][x].token].io
          /\ op[x][disp[q][x].token] = "none"
          /\ sends[disp[q][x].msg] = 0
      BY <1>p, <3>2 DEF SendsAccounted, CallsOwnAttempts
    <3>4. disp[q][x].token \in Claims
      BY <1>z, <3>3 DEF Claims
    <3>5. x # l \/ disp[q][x].token # t
      BY <1>2, <3>1, <3>3
    <3>6. op'[x][disp[q][x].token] = "none"
      BY <1>5, <3>3, <3>4, <3>5
    <3> QED
      BY <3>1, <3>3, <3>6
  <2>3. ASSUME NEW n \in Messages, sends[n] > 0
        PROVE  Committed(n)'
    BY <1>p, <1>1, <2>3 DEF SendsAccounted, Committed
  <2> QED
    BY <1>1, <2>1, <2>2, <2>3 DEF SendsAccounted
<1>d. AtMostOneSend'
  BY <1>p, <1>1 DEF AtMostOneSend
<1> QED
  BY <1>1, <1>a, <1>b, <1>c, <1>d, QuietRows DEF DispatchInv

(* Putting a message on the wire keeps the invariant. *)
LEMMA ProviderSendKeepsInv ==
    ASSUME TypeOK, DispatchInv, NEW l \in Lanes, NEW t \in Claims, ProviderSend(l, t)
    PROVE  DispatchInv'
<1> DEFINE m == att[l][t].msg
           o == IF op[l][t] = "running" THEN "sent" ELSE "ended"
<1>0. RowsTypeOK /\ CallsTypeOK /\ OperationsTypeOK
  BY TypeParts
<1>p. AttemptsRecorded /\ CallsOwnAttempts /\ IoOnce /\ SendsAccounted /\ AtMostOneSend
  BY DEF DispatchInv
<1>z. \A x \in Lanes : lane[x].token \in 0..MaxClaims
  BY <1>0 DEF RowsTypeOK, LaneRow
<1>1. /\ op[l][t] \in {"running", "stray"}
      /\ op' = [op EXCEPT ![l][t] = o]
      /\ sends' = [sends EXCEPT ![m] = sends[m] + 1]
      /\ UNCHANGED <<st, derived, lane, att, disp>>
  BY DEF ProviderSend, storeVars
<1>2. att[l][t].io /\ sends[m] = 0
  BY <1>p, <1>1 DEF AttemptsRecorded, SendsAccounted
<1>3. m \in Messages /\ LaneOf[m] = l
  BY <1>0, <1>p, <1>2, RecordedAttempt
<1>4. o \in {"sent", "ended"} /\ att[l][t].msg = m
  OBVIOUS
<1> HIDE DEF m, o
<1>5. \A x \in Lanes, y \in Claims :
         op'[x][y] = IF x = l /\ y = t THEN o ELSE op[x][y]
  BY <1>0, <1>1 DEF OperationsTypeOK
<1>6. \A n \in Messages : sends'[n] = IF n = m THEN 1 ELSE sends[n]
  <2>1. \A n \in Messages : sends'[n] = IF n = m THEN sends[m] + 1 ELSE sends[n]
    BY <1>0, <1>1, <1>3 DEF OperationsTypeOK
  <2> QED
    BY <1>2, <2>1
<1>7. ASSUME NEW x \in Lanes, NEW y \in Claims, att[x][y].io, x # l \/ y # t
      PROVE  att[x][y].msg \in Messages /\ att[x][y].msg # m
  <2>1. att[x][y].msg \in Messages /\ LaneOf[att[x][y].msg] = x
    BY <1>0, <1>p, <1>7, RecordedAttempt
  <2> QED
    BY <1>p, <1>2, <1>3, <1>4, <1>7, <2>1 DEF IoOnce
<1>a. AttemptsRecorded'
  BY <1>p, <1>1, <1>2, <1>5 DEF AttemptsRecorded
<1>b. CallsOwnAttempts'
  BY <1>p, <1>1 DEF CallsOwnAttempts
<1>c. SendsAccounted'
  <2>1. ASSUME NEW x \in Lanes, NEW y \in Claims, op'[x][y] \in {"running", "stray"}
        PROVE  sends'[att[x][y].msg] = 0
    <3>1. (x # l \/ y # t) /\ op[x][y] = op'[x][y]
      BY <1>4, <1>5, <2>1
    <3>2. att[x][y].io /\ sends[att[x][y].msg] = 0
      BY <1>p, <2>1, <3>1 DEF AttemptsRecorded, SendsAccounted
    <3>3. att[x][y].msg \in Messages /\ att[x][y].msg # m
      BY <1>7, <3>1, <3>2
    <3> QED
      BY <1>6, <3>2, <3>3
  <2>2. ASSUME NEW q \in Owners, NEW x \in Lanes, disp[q][x].pc = "sending"
        PROVE  /\ att[x][disp[q][x].token].io
               /\ op'[x][disp[q][x].token] = "none"
               /\ sends'[disp[q][x].msg] = 0
    <3>1. /\ disp[q][x].token \in 1..lane[x].token
          /\ att[x][disp[q][x].token].msg = disp[q][x].msg
          /\ att[x][disp[q][x].token].io
          /\ op[x][disp[q][x].token] = "none"
          /\ sends[disp[q][x].msg] = 0
      BY <1>p, <2>2 DEF SendsAccounted, CallsOwnAttempts
    <3>2. disp[q][x].token \in Claims
      BY <1>z, <3>1 DEF Claims
    <3>3. x # l \/ disp[q][x].token # t
      BY <1>1, <3>1
    <3>4. op'[x][disp[q][x].token] = "none"
      BY <1>5, <3>1, <3>2, <3>3
    <3>5. disp[q][x].msg \in Messages /\ disp[q][x].msg # m
      BY <1>7, <3>1, <3>2, <3>3
    <3>6. sends'[disp[q][x].msg] = 0
      BY <1>6, <3>1, <3>5
    <3> QED
      BY <3>1, <3>4, <3>6
  <2>3. ASSUME NEW n \in Messages, sends'[n] > 0
        PROVE  Committed(n)'
    <3>1. CASE n = m
      <4>1. att[LaneOf[n]][t].io /\ att[LaneOf[n]][t].msg = n
        BY <1>2, <1>3, <1>4, <3>1
      <4> QED
        BY <1>1, <4>1 DEF Committed
    <3>2. CASE n # m
      BY <1>p, <1>1, <1>6, <2>3, <3>2 DEF SendsAccounted, Committed
    <3> QED
      BY <3>1, <3>2
  <2> QED
    BY <1>1, <2>1, <2>2, <2>3 DEF SendsAccounted
<1>d. AtMostOneSend'
  BY <1>p, <1>6 DEF AtMostOneSend
<1> QED
  BY <1>1, <1>a, <1>b, <1>c, <1>d, QuietRows DEF DispatchInv

(* An operation that ends is a step of operations without a new one. *)
LEMMA OperationMoves ==
    ASSUME OperationsTypeOK, NEW l \in Lanes, NEW t,
           op' = op \/ (op[l][t] # "none" /\ op' = [op EXCEPT ![l][t] = "ended"])
    PROVE  OperationsProgress
BY DEF OperationsTypeOK, OperationsProgress

(* So is a generation that ends without joining its operation. *)
LEMMA AbandonMoves ==
    ASSUME NEW o \in Owners, op' = Abandoned(o)
    PROVE  OperationsProgress
<1> SUFFICES ASSUME NEW x \in Lanes, NEW y \in Claims
             PROVE  \/ op'[x][y] = op[x][y]
                    \/ /\ op[x][y] # "none" /\ op'[x][y] # "none"
                       /\ op'[x][y] \in {"running", "stray"} => op[x][y] \in {"running", "stray"}
  BY DEF OperationsProgress
<1>1. op'[x][y] = IF <<x, y>> \in Unjoined(o)
                  THEN IF op[x][y] = "running" THEN "stray" ELSE "ended"
                  ELSE op[x][y]
  BY DEF Abandoned
<1>2. <<x, y>> \in Unjoined(o) => op[x][y] \in {"running", "sent"}
  BY DEF Unjoined, LivePhases
<1> QED
  BY <1>1, <1>2

(* Steps of a process or of time that touch no message, attempt or send. *)
LEMMA QuietKeepsInv ==
    ASSUME TypeOK, DispatchInv, UNCHANGED storeVars, sends' = sends,
           CallsProgress, OperationsProgress
    PROVE  DispatchInv'
<1>1. UNCHANGED <<st, derived, att, sends>> /\ lane' = lane
  BY DEF storeVars
<1> QED
  BY <1>1, ProgressKeepsInv

(* ClaimNext keeps the invariant, heard of or not. *)
LEMMA ClaimKeepsInv ==
    ASSUME TypeOK, DispatchInv, NEW o \in Owners, NEW l \in Lanes,
           ClaimNext(o, l) \/ ClaimNextFails(o, l)
    PROVE  DispatchInv'
<1>0. CallsTypeOK
  BY TypeParts
<1>1. UNCHANGED providerVars /\ UNCHANGED <<op, sends>>
  BY DEF ClaimNext, ClaimNextFails, providerVars
<1>2. "listed" \in CallPoints /\ "none" \in Outcomes
  BY DEF CallPoints, Outcomes
<1>3. disp' = [disp EXCEPT ![o][l] = Idle] => CallsProgress
  BY <1>0, <1>2, CallMoves
<1>4. ASSUME LaneHasOpenAttempt(l), RecoverLane(l), disp' = [disp EXCEPT ![o][l] = Idle]
      PROVE  DispatchInv'
  BY <1>1, <1>3, <1>4, RecoverKeepsInv
<1>5. ASSUME ~LaneHasOpenAttempt(l), NEW m \in Messages, TakeLane(o, l, m),
             \/ disp' = [disp EXCEPT ![o][l] = Idle]
             \/ disp' = [disp EXCEPT ![o][l] =
                 [pc |-> "claimed", msg |-> m, token |-> lane[l].token + 1,
                  fence |-> lease.token, outcome |-> "none"]]
      PROVE  DispatchInv'
  BY <1>1, <1>5, TakeKeepsInv
<1>6. ASSUME UNCHANGED storeVars, disp' = [disp EXCEPT ![o][l] = Idle]
      PROVE  DispatchInv'
  <2>1. OperationsProgress
    BY <1>1 DEF OperationsProgress
  <2> QED
    BY <1>1, <1>3, <1>6, <2>1, QuietKeepsInv
<1>7. CASE ClaimNext(o, l)
  BY <1>4, <1>5, <1>6, <1>7 DEF ClaimNext
<1>8. CASE ClaimNextFails(o, l)
  BY <1>4, <1>5, <1>6, <1>8 DEF ClaimNextFails
<1> QED
  BY <1>7, <1>8

(* BeginProviderIO keeps the invariant, heard of or not. *)
LEMMA BeginKeepsInv ==
    ASSUME TypeOK, DispatchInv, NEW o \in Owners, NEW l \in Lanes,
           BeginProviderIO(o, l) \/ BeginProviderIOFails(o, l)
    PROVE  DispatchInv'
<1>0. CallsTypeOK
  BY TypeParts
<1>1. disp[o][l].pc = "claimed" /\ UNCHANGED <<st, derived, lane, op, sends>>
  BY DEF BeginProviderIO, BeginProviderIOFails, providerVars
<1>2. ASSUME FencedClaim(o, l, "claimed"), StartIO(o, l), NEW p \in {"sending", "releasing"},
             disp' = [disp EXCEPT ![o][l].pc = p]
      PROVE  DispatchInv'
  BY <1>1, <1>2, StartIOKeepsInv
<1>3. ASSUME att' = att, disp' = [disp EXCEPT ![o][l].pc = "releasing"]
      PROVE  DispatchInv'
  <2>1. "releasing" \in CallPoints /\ "none" \in Outcomes
    BY DEF CallPoints, Outcomes
  <2>2. CallsProgress
    BY <1>0, <1>1, <1>3, <2>1, CallMoves
  <2>3. OperationsProgress /\ UNCHANGED storeVars
    BY <1>1, <1>3 DEF OperationsProgress, storeVars
  <2> QED
    BY <1>1, <2>2, <2>3, QuietKeepsInv
<1>4. CASE BeginProviderIO(o, l)
  BY <1>2, <1>3, <1>4 DEF BeginProviderIO
<1>5. CASE BeginProviderIOFails(o, l)
  BY <1>2, <1>3, <1>5 DEF BeginProviderIOFails
<1> QED
  BY <1>4, <1>5

(* The steps of a DispatchLane call outside the store. *)
LEMMA CallStepKeepsInv ==
    ASSUME TypeOK, DispatchInv, NEW o \in Owners, NEW l \in Lanes,
           \/ ListLane(o, l) \/ FinishFails(o, l) \/ SendNotStarted(o, l)
           \/ SendReturns(o, l) \/ RenewProviderIO(o, l) \/ RenewProviderIOFails(o, l)
    PROVE  DispatchInv'
<1>0. CallsTypeOK /\ OperationsTypeOK
  BY TypeParts
<1>1. UNCHANGED storeVars /\ sends' = sends
  BY DEF ListLane, FinishFails, SendNotStarted, SendReturns, RenewProviderIO,
         RenewProviderIOFails, providerVars
<1>2. {"listed", "completing"} \subseteq CallPoints /\ Outcomes # {}
      /\ "none" \in Outcomes /\ "uncertain" \in Outcomes
  BY DEF CallPoints, Outcomes
<1>3. op' = op => OperationsProgress
  BY DEF OperationsProgress
<1>4. CASE ListLane(o, l)
  <2>1. disp' = [disp EXCEPT ![o][l].pc = "listed"] /\ op' = op
    BY <1>4 DEF ListLane, providerVars
  <2>2. CallsProgress
    BY <1>0, <1>2, <2>1, CallMoves
  <2> QED
    BY <1>1, <1>3, <2>1, <2>2, QuietKeepsInv
<1>5. CASE FinishFails(o, l)
  <2>1. disp' = [disp EXCEPT ![o][l] = Idle] /\ op' = op
    BY <1>5 DEF FinishFails, providerVars
  <2>2. CallsProgress
    BY <1>0, <1>2, <2>1, CallMoves
  <2> QED
    BY <1>1, <1>3, <2>1, <2>2, QuietKeepsInv
<1>6. CASE SendNotStarted(o, l)
  <2>1. /\ disp[o][l].pc \notin {"idle", "listed"} /\ op' = op
        /\ disp' = [disp EXCEPT ![o][l] =
                [@ EXCEPT !.pc = "completing", !.outcome = "uncertain"]]
    BY <1>6 DEF SendNotStarted, providerVars
  <2>2. CallsProgress
    BY <1>0, <1>2, <2>1, CallMoves
  <2> QED
    BY <1>1, <1>3, <2>1, <2>2, QuietKeepsInv
<1>7. CASE SendReturns(o, l)
  <2> DEFINE t == disp[o][l].token
  <2>1. PICK r \in {"accepted", "rejected", "uncertain"} :
           /\ \/ op[l][t] = "sent" /\ op' = [op EXCEPT ![l][t] = "ended"]
              \/ op[l][t] = "running" /\ op' = [op EXCEPT ![l][t] = "ended"]
              \/ op' = op
           /\ disp' = [disp EXCEPT ![o][l] =
                 [@ EXCEPT !.pc = "completing",
                           !.outcome = Reported(disp[o][l].outcome, r)]]
    BY <1>7 DEF SendReturns
  <2>2. Reported(disp[o][l].outcome, r) \in Outcomes
    BY <2>1 DEF Reported, Outcomes
  <2>3. disp[o][l].pc \notin {"idle", "listed"}
    BY <1>7 DEF SendReturns
  <2>4. CallsProgress
    BY <1>0, <1>2, <2>1, <2>2, <2>3, CallMoves
  <2>5. OperationsProgress
    <3>1. op' = op \/ (op[l][t] # "none" /\ op' = [op EXCEPT ![l][t] = "ended"])
      BY <2>1
    <3> HIDE DEF t
    <3> QED
      BY <1>0, <3>1, OperationMoves
  <2> QED
    BY <1>1, <2>4, <2>5, QuietKeepsInv
<1>8. CASE RenewProviderIO(o, l) \/ RenewProviderIOFails(o, l)
  <2>1. /\ disp' = disp \/ disp' = [disp EXCEPT ![o][l].outcome = "uncertain"]
        /\ op' = op
    BY <1>8 DEF RenewProviderIO, RenewProviderIOFails, providerVars
  <2>2. CallsProgress
    <3>1. CASE disp' = disp
      BY <3>1 DEF CallsProgress
    <3>2. CASE disp' = [disp EXCEPT ![o][l].outcome = "uncertain"]
      BY <1>0, <1>2, <3>2, CallMoves
    <3> QED
      BY <2>1, <3>1, <3>2
  <2> QED
    BY <1>1, <1>3, <2>1, <2>2, QuietKeepsInv
<1> QED
  BY <1>4, <1>5, <1>6, <1>7, <1>8

(* The steps of actors, processes and clocks. *)
LEMMA ActorStepKeepsInv ==
    ASSUME TypeOK, DispatchInv,
           \/ \E o \in Owners : \/ StartActor(o) \/ StopActor(o)
                                \/ ActorLosesLease(o) \/ Crash(o)
           \/ FenceActor \/ LeaseExpires \/ LeaseExpiresEarly
    PROVE  DispatchInv'
<1>0. CallsTypeOK /\ OperationsTypeOK
  BY TypeParts
<1>1. disp' = disp => CallsProgress
  BY DEF CallsProgress
<1>2. op' = op => OperationsProgress
  BY DEF OperationsProgress
<1>3. CASE (\E o \in Owners : StartActor(o)) \/ FenceActor \/ LeaseExpires \/ LeaseExpiresEarly
  <2>1. UNCHANGED storeVars /\ disp' = disp /\ op' = op /\ sends' = sends
    BY <1>3 DEF StartActor, FenceActor, LeaseExpires, LeaseExpiresEarly, dispatchVars,
                providerVars, storeVars
  <2> QED
    BY <1>1, <1>2, <2>1, QuietKeepsInv
<1>4. ASSUME NEW o \in Owners, StopActor(o) \/ ActorLosesLease(o)
      PROVE  DispatchInv'
  <2>1. UNCHANGED storeVars /\ disp' = disp /\ op' = Abandoned(o) /\ sends' = sends
    BY <1>4 DEF StopActor, ActorLosesLease, JoinOperations, dispatchVars, storeVars
  <2> QED
    BY <1>1, <2>1, AbandonMoves, QuietKeepsInv
<1>5. ASSUME NEW o \in Owners, Crash(o)
      PROVE  DispatchInv'
  <2>1. UNCHANGED storeVars /\ sends' = sends
    BY <1>5 DEF Crash
  <2>2. CallsProgress
    <3>1. disp' = [disp EXCEPT ![o] = [l \in Lanes |-> Idle]]
      BY <1>5 DEF Crash
    <3>2. \A p \in Owners, x \in Lanes :
             disp'[p][x] = IF p = o THEN Idle ELSE disp[p][x]
      BY <1>0, <3>1 DEF CallsTypeOK
    <3>3. Idle.pc = "idle"
      BY DEF Idle
    <3> QED
      BY <3>2, <3>3 DEF CallsProgress
  <2>3. OperationsProgress
    <3>1. op' = [l \in Lanes |-> [t \in Claims |->
                    IF <<l, t>> \in OperationsOf(o) /\ op[l][t] # "none"
                    THEN "ended" ELSE op[l][t]]]
      BY <1>5 DEF Crash
    <3> QED
      BY <3>1 DEF OperationsProgress
  <2> QED
    BY <2>1, <2>2, <2>3, QuietKeepsInv
<1> QED
  BY <1>3, <1>4, <1>5

(* The step a lane's claim expires in. *)
LEMMA ClaimLapseKeepsInv ==
    ASSUME TypeOK, DispatchInv, NEW l \in Lanes, ClaimLapses(l)
    PROVE  DispatchInv'
<1>0. RowsTypeOK
  BY TypeParts
<1>1. /\ UNCHANGED <<st, derived, att, sends>> /\ disp' = disp /\ op' = op
      /\ lane' = [lane EXCEPT ![l].live = FALSE]
  BY DEF ClaimLapses, providerVars
<1>2. CallsProgress /\ OperationsProgress
  BY <1>1 DEF CallsProgress, OperationsProgress
<1>3. \A x \in Lanes : lane'[x].token = lane[x].token /\ lane'[x].msg = lane[x].msg
  BY <1>0, <1>1 DEF RowsTypeOK, LaneRow
<1> QED
  BY <1>1, <1>2, <1>3, ProgressKeepsInv

-----------------------------------------------------------------------------
(* Every step of outbound dispatch preserves DispatchInv. *)
LEMMA DispatchInvStep == TypeOK /\ DispatchInv /\ [Next]_vars => DispatchInv'
<1> SUFFICES ASSUME TypeOK, DispatchInv, [Next]_vars
             PROVE  DispatchInv'
  OBVIOUS
<1>1. CASE \E m \in Messages : CreateOutbound(m)
  BY <1>1, CreateKeepsInv
<1>2. ASSUME NEW o \in Owners, NEW l \in Lanes,
             DispatchStep(o, l) \/ RenewProviderIO(o, l) \/ DispatchFault(o, l)
      PROVE  DispatchInv'
  BY <1>2, ClaimKeepsInv, BeginKeepsInv, ReleaseKeepsInv, CompleteKeepsInv,
     OperationStartKeepsInv, CallStepKeepsInv DEF DispatchStep, DispatchFault
<1>3. ASSUME NEW l \in Lanes, NEW t \in Claims, ProviderSend(l, t) \/ OperationEnds(l, t)
      PROVE  DispatchInv'
  <2>1. CASE ProviderSend(l, t)
    BY <2>1, ProviderSendKeepsInv
  <2>2. CASE OperationEnds(l, t)
    <3>1. /\ UNCHANGED storeVars /\ sends' = sends /\ disp' = disp
          /\ op[l][t] # "none" /\ op' = [op EXCEPT ![l][t] = "ended"]
      BY <2>2 DEF OperationEnds, LivePhases
    <3>2. CallsProgress
      BY <3>1 DEF CallsProgress
    <3>3. OperationsTypeOK
      BY TypeParts
    <3>4. OperationsProgress
      BY <3>1, <3>3, OperationMoves
    <3> QED
      BY <3>1, <3>2, <3>4, QuietKeepsInv
  <2> QED
    BY <1>3, <2>1, <2>2
<1>4. CASE \E o \in Owners, m \in Messages, s \in Evidence : ProjectProviderStatus(o, m, s)
  BY <1>4, ProjectKeepsInv
<1>5. CASE \/ \E o \in Owners : \/ StartActor(o) \/ StopActor(o)
                                \/ ActorLosesLease(o) \/ Crash(o)
           \/ FenceActor \/ LeaseExpires \/ LeaseExpiresEarly
  BY <1>5, ActorStepKeepsInv
<1>6. CASE \E l \in Lanes : ClaimExpires(l) \/ ClaimExpiresEarly(l)
  BY <1>6, ClaimLapseKeepsInv DEF ClaimExpires, ClaimExpiresEarly
<1>7. CASE UNCHANGED vars
  <2>1. UNCHANGED storeVars /\ sends' = sends /\ disp' = disp /\ op' = op
    BY <1>7 DEF vars, storeVars
  <2>2. CallsProgress /\ OperationsProgress
    BY <2>1 DEF CallsProgress, OperationsProgress
  <2> QED
    BY <2>1, <2>2, QuietKeepsInv
<1> QED
  BY <1>1, <1>2, <1>3, <1>4, <1>5, <1>6, <1>7 DEF Next

(* Before anything is submitted the invariant holds. *)
LEMMA DispatchInvInit == Init => DispatchInv
<1> SUFFICES ASSUME Init PROVE DispatchInv
  OBVIOUS
<1>1. /\ \A m \in Messages : st[m] = "" /\ derived[m] = "" /\ sends[m] = 0
      /\ \A x \in Lanes : lane[x].token = 0 /\ lane[x].msg = NoMessage
      /\ \A x \in Lanes, y \in Claims : att[x][y] = NoAttempt /\ op[x][y] = "none"
      /\ \A p \in Owners, x \in Lanes : disp[p][x].pc = "idle"
  BY DEF Init, FreeLane, Idle
<1>2. NoAttempt.phase = "none" /\ NoAttempt.io = FALSE
  BY DEF NoAttempt
<1>3. AttemptsRecorded
  <2>1. \A y \in Claims : y > 0
    BY DEF Claims
  <2>2. \A y \in Claims : ~(y <= 0)
    BY DEF Claims
  <2> QED
    BY <1>1, <2>1, <2>2 DEF AttemptsRecorded
<1>4. CallsOwnAttempts /\ ClaimedIsCurrent /\ IoOnce
  BY <1>1, <1>2 DEF CallsOwnAttempts, ClaimedIsCurrent, IoOnce
<1>5. SendsAccounted /\ AtMostOneSend
  <2>1. \A m \in Messages : sends[m] = 0
    BY <1>1
  <2>2. AtMostOneSend /\ (\A m \in Messages : ~(sends[m] > 0))
    BY <2>1 DEF AtMostOneSend
  <2> QED
    BY <1>1, <2>2 DEF SendsAccounted
<1>6. LaneSerial /\ ClaimedLaneHasOpenAttempt /\ StateIsDerived
  BY <1>1 DEF LaneSerial, ClaimedLaneHasOpenAttempt, StateIsDerived
<1> QED
  BY <1>3, <1>4, <1>5, <1>6 DEF DispatchInv

(* The inductive invariant of outbound dispatch: attempts, claims, calls,
   operations and sends of the dispatch store, the dispatcher and the actor
   stay consistent through every interleaving, crash and lapse. *)
THEOREM DispatchInvariant == Spec => []DispatchInv
<1>1. Spec => []TypeOK
  BY DispatchTypeCorrect
<1> QED
  BY <1>1, DispatchInvInit, DispatchInvStep, PTL DEF Spec

(* No message is put on the wire twice: BeginProviderIO permits one send
   attempt per message, whatever crashes, lapses and recoveries happen. *)
THEOREM DispatchAtMostOneSend == Spec => []AtMostOneSend
<1>1. DispatchInv => AtMostOneSend
  BY DEF DispatchInv
<1> QED
  BY <1>1, DispatchInvariant, PTL

(* ClaimNext serialises the lane: what is dispatching is the claimed message. *)
THEOREM DispatchLaneSerial == Spec => []LaneSerial
<1>1. DispatchInv => LaneSerial
  BY DEF DispatchInv
<1> QED
  BY <1>1, DispatchInvariant, PTL

(* A message that reached the wire is never queued again and never about to be
   sent again. *)
THEOREM DispatchWireIsFinal == Spec => []WireIsFinal
<1>1. DispatchInv => WireIsFinal
  <2> SUFFICES ASSUME DispatchInv, NEW m \in Messages, sends[m] > 0
               PROVE  /\ st[m] # "queued"
                      /\ \A o \in Owners, l \in Lanes :
                            disp[o][l].pc = "sending" => disp[o][l].msg # m
    BY DEF WireIsFinal
  <2>1. PICK y \in Claims : att[LaneOf[m]][y].io /\ att[LaneOf[m]][y].msg = m
    BY DEF DispatchInv, SendsAccounted, Committed
  <2>2. st[m] # "queued"
    BY <2>1 DEF DispatchInv, IoOnce
  <2>3. \A o \in Owners, l \in Lanes :
           disp[o][l].pc = "sending" => sends[disp[o][l].msg] = 0
    BY DEF DispatchInv, SendsAccounted
  <2> QED
    BY <2>2, <2>3
<1> QED
  BY <1>1, DispatchInvariant, PTL

(* The claim query never finds a claimed lane without its open attempt, so its
   two updates of the lane row cannot both fire. *)
THEOREM DispatchClaimedLanes == Spec => []ClaimedLaneHasOpenAttempt
<1>1. DispatchInv => ClaimedLaneHasOpenAttempt
  BY DEF DispatchInv
<1> QED
  BY <1>1, DispatchInvariant, PTL

(* current_state never disagrees with the fold of the status history. *)
THEOREM DispatchStateIsDerived == Spec => []StateIsDerived
<1>1. DispatchInv => StateIsDerived
  BY DEF DispatchInv
<1> QED
  BY <1>1, DispatchInvariant, PTL

-----------------------------------------------------------------------------
(***************************************************************************)
(* Outbound dispatch implements OutboundPromise, the specification of what *)
(* the submission API promises of one message: every step is a step of the *)
(* promise or leaves it alone.                                             *)
(***************************************************************************)

\* What the promise needs beyond DispatchInv: an attempt in provider I/O began it, and
\* no message stays provider_accepted, since awaiting_phone follows at once.
PromiseInv ==
    /\ \A l \in Lanes, t \in Claims : att[l][t].phase = "provider_io_started" => att[l][t].io
    /\ \A m \in Messages : st[m] # "provider_accepted"

PromiseStep == [Promise!Next]_(Promise!promiseVars)

\* No attempt begins I/O and none of those that did is lost.
SameIO ==
    \A m \in Messages : Committed(m)' <=> Committed(m)

(* A step that leaves states, attempts in I/O and sends alone is a stutter. *)
LEMMA PromiseStutters ==
    ASSUME st' = st, sends' = sends, SameIO
    PROVE  PromiseStep
<1>1. [m \in Messages |-> Committed(m)]' = [m \in Messages |-> Committed(m)]
  BY SMT DEF SameIO, Committed
<1>2. [m \in Messages |-> sends[m] > 0]' = [m \in Messages |-> sends[m] > 0]
  OBVIOUS
<1> QED BY <1>1, <1>2 DEF PromiseStep, Promise!promiseVars

\* What the caller sees of a message moves as the promise says.
SeenMoves(m, s) ==
    \/ st[m] = "" /\ s = "queued"
    \/ st[m] = "queued" /\ s = "dispatching" /\ ~Committed(m)
    \/ st[m] = "dispatching" /\ s = "queued" /\ ~Committed(m)
    \/ /\ Committed(m) /\ st[m] \in DOMAIN Promise!Learned
       /\ s \in Promise!Learned[st[m]]

(* So a step that changes the state of one message is a step of the promise. *)
LEMMA PromiseSeen ==
    ASSUME NEW m \in Messages, NEW s, st' = [st EXCEPT ![m] = s], sends' = sends, SameIO,
           SeenMoves(m, s)
    PROVE  PromiseStep
<1>1. [n \in Messages |-> Committed(n)]' = [n \in Messages |-> Committed(n)]
  BY SMT DEF SameIO, Committed
<1>2. [n \in Messages |-> sends[n] > 0]' = [n \in Messages |-> sends[n] > 0]
  OBVIOUS
<1>3. CASE st[m] = "" /\ s = "queued"
  <2>1. Promise!Submit(m)
    BY <1>1, <1>2, <1>3 DEF Promise!Submit
  <2> QED BY <2>1 DEF PromiseStep, Promise!Next
<1>4. CASE st[m] = "queued" /\ s = "dispatching" /\ ~Committed(m)
  <2>1. Promise!Take(m)
    BY <1>1, <1>2, <1>4 DEF Promise!Take
  <2> QED BY <2>1 DEF PromiseStep, Promise!Next
<1>5. CASE st[m] = "dispatching" /\ s = "queued" /\ ~Committed(m)
  <2>1. Promise!PutBack(m)
    BY <1>1, <1>2, <1>5 DEF Promise!PutBack
  <2> QED BY <2>1 DEF PromiseStep, Promise!Next
<1>6. CASE /\ Committed(m) /\ st[m] \in DOMAIN Promise!Learned
           /\ s \in Promise!Learned[st[m]]
  <2>1. Promise!Learn(m)
    BY <1>1, <1>2, <1>6 DEF Promise!Learn
  <2> QED BY <2>1 DEF PromiseStep, Promise!Next
<1> QED BY <1>3, <1>4, <1>5, <1>6 DEF SeenMoves

(* The attempt of a message begins. *)
LEMMA PromiseCommits ==
    ASSUME NEW m \in Messages, st' = st, sends' = sends, st[m] = "dispatching", ~Committed(m),
           Committed(m)', \A n \in Messages \ {m} : Committed(n)' <=> Committed(n)
    PROVE  PromiseStep
<1>1. [n \in Messages |-> Committed(n)]' = [[n \in Messages |-> Committed(n)] EXCEPT ![m] = TRUE]
  <2>1. \A n \in Messages : Committed(n)' = IF n = m THEN TRUE ELSE Committed(n)
    BY Zenon DEF Committed
  <2> QED BY <2>1, Zenon
<1>2. [n \in Messages |-> sends[n] > 0]' = [n \in Messages |-> sends[n] > 0]
  OBVIOUS
<1>3. Promise!Commit(m)
  BY <1>1, <1>2 DEF Promise!Commit
<1> QED BY <1>3 DEF PromiseStep, Promise!Next

(* The message goes on the wire. *)
LEMMA PromiseTransmits ==
    ASSUME NEW m \in Messages, st' = st, SameIO, Committed(m), ~(sends[m] > 0), sends'[m] > 0,
           \A n \in Messages \ {m} : sends'[n] = sends[n]
    PROVE  PromiseStep
<1>1. [n \in Messages |-> Committed(n)]' = [n \in Messages |-> Committed(n)]
  BY SMT DEF SameIO, Committed
<1>2. [n \in Messages |-> sends[n] > 0]' = [[n \in Messages |-> sends[n] > 0] EXCEPT ![m] = TRUE]
  <2>1. \A n \in Messages : (sends[n] > 0)' = IF n = m THEN TRUE ELSE sends[n] > 0
    <3>1. \A n \in Messages : n # m => sends'[n] = sends[n]
      OBVIOUS
    <3> QED BY <3>1, Zenon
  <2> QED BY <2>1, Zenon
<1>3. Promise!Transmit(m)
  BY <1>1, <1>2 DEF Promise!Transmit
<1> QED BY <1>3 DEF PromiseStep, Promise!Next

(* What the attempts of a message have begun depends on their io and message. *)
LEMMA SameRowsSameIO ==
    ASSUME \A x \in Lanes, y \in Claims :
              /\ att'[x][y].io <=> att[x][y].io
              /\ att[x][y].io => att'[x][y].msg = att[x][y].msg
    PROVE  SameIO
<1> SUFFICES ASSUME NEW m \in Messages PROVE Committed(m)' <=> Committed(m)
  BY DEF SameIO
<1>1. LaneOf[m] \in Lanes
  OBVIOUS
<1> QED BY <1>1 DEF Committed

(* Steps that leave the rows of messages and attempts and the sends alone. *)
LEMMA QuietKeepsPromise ==
    ASSUME PromiseInv, st' = st, att' = att, sends' = sends
    PROVE  PromiseStep /\ PromiseInv'
<1>1. SameIO
  BY SameRowsSameIO
<1>2. PromiseInv'
  BY DEF PromiseInv
<1> QED BY <1>1, <1>2, PromiseStutters

(* A claim that is closed: put back only when I/O never began, otherwise what is
   learned is an outcome. *)
LEMMA ClosingKeepsPromise ==
    ASSUME TypeOK, DispatchInv, PromiseInv, NEW l \in Lanes, NEW t \in Claims,
           NEW m \in Messages, NEW s, att[l][t].msg = m, st[m] = "dispatching",
           att' = [att EXCEPT ![l][t].phase = "complete"], st' = [st EXCEPT ![m] = s],
           sends' = sends,
           \/ s = "queued" /\ att[l][t].phase = "claimed"
           \/ /\ s \in {"awaiting_phone", "failed", "uncertain"}
              /\ att[l][t].phase = "provider_io_started"
    PROVE  PromiseStep /\ PromiseInv'
<1>0. RowsTypeOK /\ AttemptsRecorded
  BY TypeParts DEF DispatchInv
<1>1. \A x \in Lanes, y \in Claims :
         /\ att'[x][y].io = att[x][y].io /\ att'[x][y].msg = att[x][y].msg
         /\ att'[x][y].phase = att[x][y].phase \/ att'[x][y].phase = "complete"
  <2> DEFINE a == [att[l][t] EXCEPT !.phase = "complete"]
  <2>1. att' = [att EXCEPT ![l][t] = a]
    OBVIOUS
  <2>2. att[l][t] \in AttemptRow
    BY <1>0 DEF RowsTypeOK
  <2>3. a.io = att[l][t].io /\ a.msg = att[l][t].msg /\ a.phase = "complete"
    BY <2>2 DEF AttemptRow
  <2> HIDE DEF a
  <2>4. \A x \in Lanes, y \in Claims : att'[x][y] = IF x = l /\ y = t THEN a ELSE att[x][y]
    <3>1. att \in [Lanes -> [Claims -> AttemptRow]]
      BY <1>0 DEF RowsTypeOK
    <3> QED BY ONLY <2>1, <3>1, l \in Lanes, t \in Claims
  <2> QED BY <2>3, <2>4
<1>2. SameIO
  BY <1>1, SameRowsSameIO
<1>3. LaneOf[m] = l
  <2>1. att[l][t].phase # "none"
    OBVIOUS
  <2> QED BY <1>0, <2>1, RecordedAttempt
<1>4. SeenMoves(m, s)
  <2>1. CASE s = "queued" /\ att[l][t].phase = "claimed"
    <3>1. \A u \in Claims : att[l][u].io => att[l][u].msg # m
      BY <2>1 DEF DispatchInv, ClaimedIsCurrent
    <3>2. ~Committed(m)
      BY <1>3, <3>1 DEF Committed
    <3> QED BY <2>1, <3>2 DEF SeenMoves
  <2>2. CASE /\ s \in {"awaiting_phone", "failed", "uncertain"}
             /\ att[l][t].phase = "provider_io_started"
    <3>1. att[l][t].io
      BY <2>2 DEF PromiseInv
    <3>2. Committed(m)
      BY <1>3, <3>1 DEF Committed
    <3>3. "dispatching" \in DOMAIN Promise!Learned /\ s \in Promise!Learned["dispatching"]
      BY <2>2 DEF Promise!Learned
    <3> QED BY <3>2, <3>3 DEF SeenMoves
  <2> QED BY <2>1, <2>2
<1>5. PromiseInv'
  <2>1. \A n \in Messages : st'[n] = IF n = m THEN s ELSE st[n]
    BY <1>0 DEF RowsTypeOK
  <2> QED BY <1>1, <2>1 DEF PromiseInv
<1> QED BY <1>2, <1>4, <1>5, PromiseSeen

(* The recovery of an expired claim. *)
LEMMA RecoverKeepsPromise ==
    ASSUME TypeOK, DispatchInv, PromiseInv, NEW l \in Lanes, LaneHasOpenAttempt(l),
           RecoverLane(l), sends' = sends
    PROVE  PromiseStep /\ PromiseInv'
<1> DEFINE t == lane[l].token
           m == lane[l].msg
           s == RecoveredState(att[l][t].phase)
<1>0. RowsTypeOK
  BY TypeParts
<1>1. t \in Claims /\ m \in Messages /\ att[l][t].msg = m
      /\ att[l][t].phase \in {"claimed", "provider_io_started"}
  BY <1>0 DEF RowsTypeOK, LaneHasOpenAttempt, LaneRow, OpenPhases
<1>2. CASE Recoverable(m)
  <2>1. st[m] = "dispatching" /\ st' = [st EXCEPT ![m] = s]
        /\ att' = [att EXCEPT ![l][t].phase = "complete"]
    BY <1>2 DEF RecoverLane, Recoverable
  <2>2. \/ s = "queued" /\ att[l][t].phase = "claimed"
        \/ s = "uncertain" /\ att[l][t].phase = "provider_io_started"
    BY <1>1 DEF RecoveredState
  <2> HIDE DEF t, m, s
  <2> QED BY <1>1, <2>1, <2>2, ClosingKeepsPromise
<1>3. CASE ~Recoverable(m)
  <2>1. st' = st /\ att' = att
    BY <1>3 DEF RecoverLane
  <2> QED BY <2>1, QuietKeepsPromise
<1> QED BY <1>2, <1>3

(* The oldest message of a lane is taken. *)
LEMMA TakeKeepsPromise ==
    ASSUME TypeOK, DispatchInv, PromiseInv, NEW o \in Owners, NEW l \in Lanes,
           NEW m \in Messages, ~LaneHasOpenAttempt(l), TakeLane(o, l, m), sends' = sends
    PROVE  PromiseStep /\ PromiseInv'
<1> DEFINE t == lane[l].token + 1
           a == [msg |-> m, owner |-> o, fence |-> lease.token,
                 phase |-> "claimed", io |-> FALSE]
<1>0. RowsTypeOK
  BY TypeParts
<1>1. /\ \A y \in Claims : att[l][y].io => att[l][y].msg # m
      /\ att[l][t] = NoAttempt
  BY LaneIsQuiet
<1>2. /\ t \in Claims /\ LaneOf[m] = l /\ st[m] = "queued"
      /\ st' = [st EXCEPT ![m] = "dispatching"] /\ att' = [att EXCEPT ![l][t] = a]
  BY DEF TakeLane, Oldest
<1>3. a.io = FALSE /\ a.phase = "claimed" /\ NoAttempt.io = FALSE
  BY DEF NoAttempt
<1> HIDE DEF a, t
<1>4. \A x \in Lanes, y \in Claims : att'[x][y] = IF x = l /\ y = t THEN a ELSE att[x][y]
  BY <1>0, <1>2 DEF RowsTypeOK
<1>5. \A x \in Lanes, y \in Claims : x = l /\ y = t => ~att[x][y].io
  BY <1>1, <1>3
<1>6. SameIO
  BY <1>3, <1>4, <1>5, SameRowsSameIO
<1>7. ~Committed(m)
  BY <1>1, <1>2 DEF Committed
<1>8. SeenMoves(m, "dispatching")
  BY <1>2, <1>7 DEF SeenMoves
<1>9. PromiseInv'
  <2>1. \A n \in Messages : st'[n] = IF n = m THEN "dispatching" ELSE st[n]
    BY <1>0, <1>2 DEF RowsTypeOK
  <2> QED BY <1>3, <1>4, <2>1 DEF PromiseInv
<1> QED BY <1>2, <1>6, <1>8, <1>9, PromiseSeen

(* Provider I/O begins under the fence: the gateway commits itself. *)
LEMMA StartIOKeepsPromise ==
    ASSUME TypeOK, DispatchInv, PromiseInv, NEW o \in Owners, NEW l \in Lanes,
           disp[o][l].pc = "claimed", FencedClaim(o, l, "claimed"), StartIO(o, l),
           st' = st, sends' = sends
    PROVE  PromiseStep /\ PromiseInv'
<1>t. PICK t, m : t = disp[o][l].token /\ m = disp[o][l].msg
  OBVIOUS
<1>a. PICK a : a = [att[l][t] EXCEPT !.phase = "provider_io_started", !.io = TRUE]
  OBVIOUS
<1>0. RowsTypeOK /\ AttemptsRecorded
  BY TypeParts DEF DispatchInv
<1>1. /\ t \in Claims /\ m \in Messages /\ att[l][t].msg = m
      /\ att[l][t].phase = "claimed" /\ st[m] = "dispatching"
  <2>1. ClaimRowsMatch(o, l, "claimed") /\ disp[o][l].pc \notin {"idle", "listed"}
    BY DEF FencedClaim
  <2> QED BY <1>t, <2>1, FencedRows
<1>2. att' = [att EXCEPT ![l][t] = a]
  BY <1>t, <1>a DEF StartIO
<1>3. att[l][t] \in AttemptRow
  BY <1>0, <1>1 DEF RowsTypeOK
<1>4. a.io /\ a.msg = m
  BY <1>1, <1>3, <1>a DEF AttemptRow
<1>5. LaneOf[m] = l
  <2>1. att[l][t].phase # "none"
    BY <1>1
  <2> QED BY <1>0, <1>1, <2>1, RecordedAttempt
<1>6. \A u \in Claims : att[l][u].io => att[l][u].msg # m
  BY <1>1 DEF DispatchInv, ClaimedIsCurrent
<1>7. \A x \in Lanes, y \in Claims : att'[x][y] = IF x = l /\ y = t THEN a ELSE att[x][y]
  BY <1>0, <1>2 DEF RowsTypeOK
<1>8. ~Committed(m)
  BY <1>5, <1>6 DEF Committed
<1>9. Committed(m)'
  BY <1>1, <1>4, <1>5, <1>7 DEF Committed
<1>10. ASSUME NEW n \in Messages \ {m} PROVE Committed(n)' <=> Committed(n)
  <2>1. LaneOf[n] \in Lanes
    OBVIOUS
  <2>2. \A y \in Claims : /\ att'[LaneOf[n]][y].io /\ att'[LaneOf[n]][y].msg = n
                          <=> att[LaneOf[n]][y].io /\ att[LaneOf[n]][y].msg = n
    BY <1>1, <1>4, <1>7, <2>1
  <2> QED BY <2>2 DEF Committed
<1>11. PromiseInv'
  BY <1>4, <1>7 DEF PromiseInv
<1> QED BY <1>1, <1>8, <1>9, <1>10, <1>11, PromiseCommits

(* The one send of an attempt. *)
LEMMA SendKeepsPromise ==
    ASSUME TypeOK, DispatchInv, PromiseInv, NEW l \in Lanes, NEW t \in Claims,
           ProviderSend(l, t)
    PROVE  PromiseStep /\ PromiseInv'
<1> DEFINE m == att[l][t].msg
<1>0. RowsTypeOK /\ AttemptsRecorded /\ SendsAccounted /\ OperationsTypeOK
  BY TypeParts DEF DispatchInv
<1>1. /\ op[l][t] \in {"running", "stray"} /\ sends' = [sends EXCEPT ![m] = sends[m] + 1]
      /\ st' = st /\ att' = att
  BY DEF ProviderSend, storeVars
<1>2. att[l][t].io /\ sends[m] = 0
  BY <1>0, <1>1 DEF AttemptsRecorded, SendsAccounted
<1>3. m \in Messages /\ LaneOf[m] = l
  BY <1>0, <1>2, RecordedAttempt
<1>4. Committed(m)
  BY <1>2, <1>3 DEF Committed
<1>5. SameIO /\ PromiseInv'
  BY <1>1, SameRowsSameIO DEF PromiseInv
<1> HIDE DEF m
<1>6. sends'[m] = sends[m] + 1 /\ \A n \in Messages \ {m} : sends'[n] = sends[n]
  BY <1>0, <1>1, <1>3 DEF OperationsTypeOK
<1>7. ~(sends[m] > 0) /\ sends'[m] > 0
  BY <1>2, <1>6
<1> QED BY <1>1, <1>3, <1>4, <1>5, <1>6, <1>7, PromiseTransmits

(* Evidence only gets stronger, and failed and read are final. *)
LEMMA EvidenceIsLearned ==
    ASSUME NEW c \in MessageStates \ {"queued", "provider_accepted"},
           NEW s \in {"sent", "delivered", "read", "failed"}, Observe(c, s) # c
    PROVE  c \in DOMAIN Promise!Learned /\ Observe(c, s) \in Promise!Learned[c]
<1>1. CASE c = "dispatching"
  BY <1>1 DEF Observe, MessageStateRank, MessageStates, Promise!Learned
<1>2. CASE c = "awaiting_phone"
  BY <1>2 DEF Observe, MessageStateRank, MessageStates, Promise!Learned
<1>3. CASE c = "uncertain"
  BY <1>3 DEF Observe, MessageStateRank, MessageStates, Promise!Learned
<1>r. /\ MessageStateRank["sent"] = 5 /\ MessageStateRank["delivered"] = 6
      /\ MessageStateRank["read"] = 7 /\ MessageStateRank["failed"] = 8
  BY DEF MessageStateRank, MessageStates
<1>4. CASE c = "sent"
  <2>1. s \in {"delivered", "read"} /\ Observe(c, s) = s
    BY <1>4, <1>r DEF Observe
  <2> QED BY <1>4, <2>1 DEF Promise!Learned
<1>5. CASE c = "delivered"
  <2>1. s = "read" /\ Observe(c, s) = s
    BY <1>5, <1>r DEF Observe
  <2> QED BY <1>5, <2>1 DEF Promise!Learned
<1>6. CASE c \in {"read", "failed"}
  BY <1>6, <1>r DEF Observe
<1> QED BY <1>1, <1>2, <1>3, <1>4, <1>5, <1>6 DEF MessageStates

(* Provider evidence on a message that was sent. *)
LEMMA ProjectKeepsPromise ==
    ASSUME TypeOK, DispatchInv, PromiseInv, NEW o \in Owners, NEW m \in Messages,
           NEW s \in Evidence, ProjectProviderStatus(o, m, s)
    PROVE  PromiseStep /\ PromiseInv'
<1> DEFINE d == IF s = "" THEN derived[m] ELSE Observe(derived[m], s)
<1>0. RowsTypeOK
  BY TypeParts
<1>1. /\ sends[m] > 0 /\ st' = [st EXCEPT ![m] = d] /\ att' = att /\ sends' = sends
  BY DEF ProjectProviderStatus, providerVars
<1>2. Committed(m)
  BY <1>1 DEF DispatchInv, SendsAccounted
<1>3. st[m] \notin {"", "queued"}
  <2>1. PICK y \in Claims : att[LaneOf[m]][y].io /\ att[LaneOf[m]][y].msg = m
    BY <1>2 DEF Committed
  <2> QED BY <2>1 DEF DispatchInv, IoOnce
<1>4. derived[m] = st[m]
  BY <1>3 DEF DispatchInv, StateIsDerived
<1>5. st[m] \in MessageStates \ {"queued", "provider_accepted"}
  BY <1>0, <1>3 DEF RowsTypeOK, PromiseInv
<1>6. s \in {"", "sent", "delivered", "read", "failed"}
  BY DEF EvidenceStates
<1>7. SameIO
  BY <1>1, SameRowsSameIO
<1>8. \/ d = st[m]
      \/ /\ s \in {"sent", "delivered", "read", "failed"} /\ d = Observe(st[m], s) /\ d # st[m]
  BY <1>4, <1>6
<1> HIDE DEF d
<1>9. CASE d = st[m]
  <2>1. st' = st
    BY <1>0, <1>1, <1>9 DEF RowsTypeOK
  <2> QED BY <1>1, <2>1, QuietKeepsPromise
<1>10. CASE s \in {"sent", "delivered", "read", "failed"} /\ d = Observe(st[m], s) /\ d # st[m]
  <2>1. st[m] \in DOMAIN Promise!Learned /\ d \in Promise!Learned[st[m]]
    BY <1>5, <1>10, EvidenceIsLearned
  <2>2. SeenMoves(m, d)
    BY <1>2, <2>1 DEF SeenMoves
  <2>3. d = s
    BY <1>10, ObserveChooses
  <2>4. \A n \in Messages : st'[n] = IF n = m THEN d ELSE st[n]
    BY <1>0, <1>1 DEF RowsTypeOK
  <2>5. PromiseInv'
    BY <1>1, <1>10, <2>3, <2>4 DEF PromiseInv
  <2> QED BY <1>1, <1>7, <2>2, <2>5, PromiseSeen
<1> QED BY <1>8, <1>9, <1>10

(* The submission of a message. *)
LEMMA CreateKeepsPromise ==
    ASSUME TypeOK, PromiseInv, NEW m \in Messages, CreateOutbound(m)
    PROVE  PromiseStep /\ PromiseInv'
<1>0. RowsTypeOK
  BY TypeParts
<1>1. /\ st[m] = "" /\ st' = [st EXCEPT ![m] = "queued"] /\ att' = att /\ sends' = sends
  BY DEF CreateOutbound, providerVars
<1>2. SameIO
  BY <1>1, SameRowsSameIO
<1>3. SeenMoves(m, "queued")
  BY <1>1 DEF SeenMoves
<1>4. \A n \in Messages : st'[n] = IF n = m THEN "queued" ELSE st[n]
  BY <1>0, <1>1 DEF RowsTypeOK
<1>5. PromiseInv'
  <2>1. \A n \in Messages : st'[n] # "provider_accepted"
    BY <1>4 DEF PromiseInv
  <2>2. \A x \in Lanes, y \in Claims :
           att'[x][y].phase = "provider_io_started" => att'[x][y].io
    BY <1>1 DEF PromiseInv
  <2> QED BY <2>1, <2>2 DEF PromiseInv
<1> QED BY <1>1, <1>2, <1>3, <1>5, PromiseSeen

(* The steps of a DispatchLane call. *)
LEMMA CallKeepsPromise ==
    ASSUME TypeOK, DispatchInv, PromiseInv, NEW o \in Owners, NEW l \in Lanes,
           DispatchStep(o, l) \/ RenewProviderIO(o, l) \/ DispatchFault(o, l)
    PROVE  PromiseStep /\ PromiseInv'
<1>1. CASE ClaimNext(o, l) \/ ClaimNextFails(o, l)
  <2>0. sends' = sends
    BY <1>1 DEF ClaimNext, ClaimNextFails, providerVars
  <2>1. CASE LaneHasOpenAttempt(l) /\ RecoverLane(l)
    BY <2>0, <2>1, RecoverKeepsPromise
  <2>2. ASSUME ~LaneHasOpenAttempt(l), NEW m \in Messages, TakeLane(o, l, m)
        PROVE  PromiseStep /\ PromiseInv'
    BY <2>0, <2>2, TakeKeepsPromise
  <2>3. CASE UNCHANGED storeVars
    BY <2>0, <2>3, QuietKeepsPromise DEF storeVars
  <2> QED BY <1>1, <2>1, <2>2, <2>3 DEF ClaimNext, ClaimNextFails
<1>2. CASE BeginProviderIO(o, l) \/ BeginProviderIOFails(o, l)
  <2>1. disp[o][l].pc = "claimed" /\ st' = st /\ sends' = sends
    BY <1>2 DEF BeginProviderIO, BeginProviderIOFails, providerVars
  <2>2. CASE FencedClaim(o, l, "claimed") /\ StartIO(o, l)
    BY <2>1, <2>2, StartIOKeepsPromise
  <2>3. CASE att' = att
    BY <2>1, <2>3, QuietKeepsPromise
  <2> QED BY <1>2, <2>2, <2>3 DEF BeginProviderIO, BeginProviderIOFails
<1>3. CASE ReleaseBeforeDispatch(o, l)
  <2> DEFINE t == disp[o][l].token
             m == disp[o][l].msg
  <2>1. sends' = sends /\ disp[o][l].pc = "releasing"
    BY <1>3 DEF ReleaseBeforeDispatch, providerVars
  <2>2. CASE FencedClaim(o, l, "claimed")
    <3>1. ClaimRowsMatch(o, l, "claimed") /\ disp[o][l].pc \notin {"idle", "listed"}
      BY <2>1, <2>2 DEF FencedClaim
    <3>2. /\ t \in Claims /\ m \in Messages /\ att[l][t].msg = m
          /\ att[l][t].phase = "claimed" /\ st[m] = "dispatching"
      BY <3>1, FencedRows
    <3>3. st' = [st EXCEPT ![m] = "queued"] /\ att' = [att EXCEPT ![l][t].phase = "complete"]
      BY <1>3, <2>2 DEF ReleaseBeforeDispatch, FinishClaim
    <3> HIDE DEF t, m
    <3> QED BY <2>1, <3>2, <3>3, ClosingKeepsPromise
  <2>3. CASE ~FencedClaim(o, l, "claimed")
    BY <1>3, <2>1, <2>3, QuietKeepsPromise DEF ReleaseBeforeDispatch, storeVars
  <2> QED BY <2>2, <2>3
<1>4. CASE CompleteDispatch(o, l)
  <2> DEFINE t == disp[o][l].token
             m == disp[o][l].msg
             s == Completed("dispatching", disp[o][l].outcome)
  <2>1. sends' = sends /\ disp[o][l].pc = "completing"
    BY <1>4 DEF CompleteDispatch, providerVars
  <2>2. CASE CompletionFence(o, l)
    <3>1. /\ ClaimRowsMatch(o, l, "provider_io_started")
          /\ disp[o][l].pc \notin {"idle", "listed"}
      BY <2>1, <2>2 DEF CompletionFence
    <3>2. /\ t \in Claims /\ m \in Messages /\ att[l][t].msg = m
          /\ att[l][t].phase = "provider_io_started" /\ st[m] = "dispatching"
      BY <3>1, FencedRows
    <3>3. /\ st' = [st EXCEPT ![m] = Completed(st[m], disp[o][l].outcome)]
          /\ att' = [att EXCEPT ![l][t].phase = "complete"]
      BY <1>4, <2>2 DEF CompleteDispatch, FinishClaim
    <3>4. s \in {"awaiting_phone", "failed", "uncertain"}
      BY CompletedInFlight
    <3>5. st' = [st EXCEPT ![m] = s]
      BY <3>2, <3>3
    <3> HIDE DEF t, m, s
    <3> QED BY <2>1, <3>2, <3>3, <3>4, <3>5, ClosingKeepsPromise
  <2>3. CASE ~CompletionFence(o, l)
    BY <1>4, <2>1, <2>3, QuietKeepsPromise DEF CompleteDispatch, storeVars
  <2> QED BY <2>2, <2>3
<1>5. CASE \/ ListLane(o, l) \/ OperationStarts(o, l) \/ SendNotStarted(o, l)
           \/ SendReturns(o, l) \/ RenewProviderIO(o, l) \/ RenewProviderIOFails(o, l)
           \/ FinishFails(o, l)
  <2>1. UNCHANGED storeVars /\ sends' = sends
    BY <1>5 DEF ListLane, OperationStarts, SendNotStarted, SendReturns, RenewProviderIO,
                RenewProviderIOFails, FinishFails, providerVars
  <2> QED BY <2>1, QuietKeepsPromise DEF storeVars
<1> QED BY <1>1, <1>2, <1>3, <1>4, <1>5 DEF DispatchStep, DispatchFault

(* Every step of outbound dispatch is a step of the promise or a stutter. *)
LEMMA DispatchPromiseStep ==
    TypeOK /\ DispatchInv /\ PromiseInv /\ [Next]_vars => PromiseStep /\ PromiseInv'
<1> SUFFICES ASSUME TypeOK, DispatchInv, PromiseInv, [Next]_vars
             PROVE  PromiseStep /\ PromiseInv'
  OBVIOUS
<1>1. CASE \E m \in Messages : CreateOutbound(m)
  BY <1>1, CreateKeepsPromise
<1>2. ASSUME NEW o \in Owners, NEW l \in Lanes,
             DispatchStep(o, l) \/ RenewProviderIO(o, l) \/ DispatchFault(o, l)
      PROVE  PromiseStep /\ PromiseInv'
  BY <1>2, CallKeepsPromise
<1>3. ASSUME NEW l \in Lanes, NEW t \in Claims, ProviderSend(l, t) \/ OperationEnds(l, t)
      PROVE  PromiseStep /\ PromiseInv'
  <2>1. CASE ProviderSend(l, t)
    BY <2>1, SendKeepsPromise
  <2>2. CASE OperationEnds(l, t)
    BY <2>2, QuietKeepsPromise DEF OperationEnds, storeVars
  <2> QED BY <1>3, <2>1, <2>2
<1>4. CASE \E o \in Owners, m \in Messages, s \in Evidence : ProjectProviderStatus(o, m, s)
  BY <1>4, ProjectKeepsPromise
<1>5. CASE \/ \E o \in Owners : StartActor(o) \/ StopActor(o) \/ ActorLosesLease(o) \/ Crash(o)
           \/ FenceActor \/ LeaseExpires \/ LeaseExpiresEarly
  <2>1. st' = st /\ att' = att /\ sends' = sends
    BY <1>5 DEF StartActor, StopActor, ActorLosesLease, Crash, FenceActor, LeaseExpires,
                LeaseExpiresEarly, dispatchVars, providerVars, storeVars
  <2> QED BY <2>1, QuietKeepsPromise
<1>6. CASE \E l \in Lanes : ClaimExpires(l) \/ ClaimExpiresEarly(l)
  <2>1. st' = st /\ att' = att /\ sends' = sends
    BY <1>6 DEF ClaimExpires, ClaimExpiresEarly, ClaimLapses, providerVars
  <2> QED BY <2>1, QuietKeepsPromise
<1>7. CASE UNCHANGED vars
  BY <1>7, QuietKeepsPromise DEF vars
<1> QED BY <1>1, <1>2, <1>3, <1>4, <1>5, <1>6, <1>7 DEF Next

(* Before anything is submitted the promise holds. *)
LEMMA PromiseInitially == Init => PromiseInv /\ Promise!Init
<1> SUFFICES ASSUME Init PROVE PromiseInv /\ Promise!Init
  OBVIOUS
<1>1. /\ st = [m \in Messages |-> ""] /\ \A m \in Messages : sends[m] = 0
      /\ \A x \in Lanes, y \in Claims : att[x][y] = NoAttempt
  BY DEF Init
<1>2. NoAttempt.phase = "none" /\ NoAttempt.io = FALSE
  BY DEF NoAttempt
<1>3. PromiseInv
  BY <1>1, <1>2 DEF PromiseInv
<1>4. \A m \in Messages : Committed(m) = FALSE
  BY <1>1, <1>2 DEF Committed
<1>5. \A m \in Messages : (sends[m] > 0) = FALSE
  <2>1. (0 > 0) = FALSE
    OBVIOUS
  <2> QED BY <1>1, <2>1, Zenon
<1>6. [m \in Messages |-> Committed(m)] = [m \in Messages |-> FALSE]
  BY <1>4, Zenon
<1>7. [m \in Messages |-> sends[m] > 0] = [m \in Messages |-> FALSE]
  BY <1>5, Zenon
<1> QED BY <1>1, <1>3, <1>6, <1>7 DEF Promise!Init

(* Outbound dispatch, with its lanes, claims, leases, crashes and stray operations, keeps
   the promise of the submission API for every message: one attempt, begun once and never
   put back, whose outcome is only ever refined. *)
THEOREM DispatchKeepsPromise == Spec => KeepsPromise
<1>1. Init => PromiseInv /\ Promise!Init
  BY PromiseInitially
<1>2. TypeOK /\ DispatchInv /\ PromiseInv /\ [Next]_vars
         => [Promise!Next]_(Promise!promiseVars) /\ PromiseInv'
  BY DispatchPromiseStep DEF PromiseStep
<1> QED BY <1>1, <1>2, DispatchTypeCorrect, DispatchInvariant, PTL DEF Spec, KeepsPromise, Promise!Spec
=============================================================================
