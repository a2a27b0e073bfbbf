------------------------ MODULE ConnectionLeaseProofs ------------------------
(***************************************************************************)
(* The lease protocol, for any number of processes and any bound on the    *)
(* fencing token.                                                          *)
(***************************************************************************)
EXTENDS ConnectionLease, TLAPS

USE LeaseAssumption


(* No step of the protocol leaves the types of the row and of the tokens in
   the processes' memory: no acquisition or fence exceeds the token's bound. *)
LEMMA LeaseTypeStep == LeaseTypeOK /\ [LeaseNext]_leaseVars => LeaseTypeOK'
<1> SUFFICES ASSUME LeaseTypeOK, [LeaseNext]_leaseVars
             PROVE  LeaseTypeOK'
  OBVIOUS
<1> USE DEF LeaseTypeOK, LeaseRow
<1>1. ASSUME NEW o \in Owners, AcquireConnectionLease(o)
      PROVE  LeaseTypeOK'
  BY <1>1 DEF AcquireConnectionLease, AcquiredToken
<1>2. ASSUME NEW o \in Owners, ReleaseConnectionLease(o)
      PROVE  LeaseTypeOK'
  <2>1. lease' \in LeaseRow
    <3>1. CASE OwnsLease(o)
      BY <1>2, <3>1 DEF ReleaseConnectionLease
    <3>2. CASE ~OwnsLease(o)
      BY <1>2, <3>2 DEF ReleaseConnectionLease
    <3> QED
      BY <3>1, <3>2
  <2> QED
    BY <1>2, <2>1 DEF ReleaseConnectionLease
<1>3. ASSUME NEW o \in Owners, RenewRefused(o) \/ ReleaseLost(o)
      PROVE  LeaseTypeOK'
  BY <1>3 DEF RenewRefused, ReleaseLost
<1>4. CASE FenceConnectionLease
  BY <1>4 DEF FenceConnectionLease
<1>5. CASE LeaseLapses
  BY <1>5 DEF LeaseLapses
<1>6. CASE UNCHANGED leaseVars
  BY <1>6 DEF leaseVars
<1> QED
  BY <1>1, <1>2, <1>3, <1>4, <1>5, <1>6 DEF LeaseNext

(* The row and the tokens in the processes' memory keep their types. *)
LEMMA LeaseTypeCorrect == LeaseSpec => []LeaseTypeOK
<1>1. LeaseInit => LeaseTypeOK
  BY DEF LeaseInit, LeaseTypeOK, LeaseRow
<1> QED
  BY <1>1, LeaseTypeStep, PTL DEF LeaseSpec

(* One step of the protocol keeps every generation at or behind the row, and
   only the row's owner level with it. *)
LEMMA HoldersStayBehind ==
    LeaseTypeOK /\ HoldersBehindRow /\ [LeaseNext]_leaseVars => HoldersBehindRow'
<1> SUFFICES ASSUME LeaseTypeOK, HoldersBehindRow, [LeaseNext]_leaseVars
             PROVE  HoldersBehindRow'
  OBVIOUS
<1> USE DEF LeaseTypeOK, LeaseRow, HoldersBehindRow
\* The token stays only while the owner does; otherwise it leaves all behind.
<1>1. ASSUME NEW o \in Owners, AcquireConnectionLease(o)
      PROVE  HoldersBehindRow'
  BY <1>1 DEF AcquireConnectionLease, AcquiredToken
\* The owner is cleared together with the only holder that was level.
<1>2. ASSUME NEW o \in Owners, ReleaseConnectionLease(o)
      PROVE  HoldersBehindRow'
  BY <1>2 DEF ReleaseConnectionLease, OwnsLease
<1>3. ASSUME NEW o \in Owners, RenewRefused(o) \/ ReleaseLost(o)
      PROVE  HoldersBehindRow'
  BY <1>3 DEF RenewRefused, ReleaseLost
<1>4. CASE FenceConnectionLease \/ LeaseLapses
  BY <1>4 DEF FenceConnectionLease, LeaseLapses
<1>5. CASE UNCHANGED leaseVars
  BY <1>5 DEF leaseVars
<1> QED
  BY <1>1, <1>2, <1>3, <1>4, <1>5 DEF LeaseNext

(* No generation is ahead of the row and the one level with it is the row's
   owner, in every behaviour of the lease protocol. *)
THEOREM LeaseHoldersBehindRow == LeaseSpec => []HoldersBehindRow
<1>1. LeaseInit => HoldersBehindRow
  <2> SUFFICES ASSUME LeaseInit, NEW o \in Owners
               PROVE  /\ held[o] <= lease.token
                      /\ held[o] # 0 /\ held[o] = lease.token => lease.owner = o
    BY DEF HoldersBehindRow
  <2>1. held[o] = 0 /\ lease.token = 0
    BY DEF LeaseInit
  <2> QED
    BY <2>1
<1> QED
  BY <1>1, LeaseTypeCorrect, HoldersStayBehind, PTL DEF LeaseSpec

(* A fencing token never names generations of two different processes. *)
THEOREM LeaseTokenNamesOneOwner == LeaseSpec => []TokenNamesOneOwner
<1>1. ASSUME LeaseTypeOK, HoldersBehindRow, TokenNamesOneOwner,
             [LeaseNext]_leaseVars
      PROVE  TokenNamesOneOwner'
  <2> USE <1>1 DEF LeaseTypeOK, LeaseRow, HoldersBehindRow, TokenNamesOneOwner
  \* The acquired token is new, or was level with the row: the same owner's.
  <2>1. ASSUME NEW o \in Owners, AcquireConnectionLease(o)
        PROVE  TokenNamesOneOwner'
    BY <2>1 DEF AcquireConnectionLease, AcquiredToken
  <2>2. ASSUME NEW o \in Owners,
               ReleaseConnectionLease(o) \/ RenewRefused(o) \/ ReleaseLost(o)
        PROVE  TokenNamesOneOwner'
    BY <2>2 DEF ReleaseConnectionLease, RenewRefused, ReleaseLost
  <2>3. CASE FenceConnectionLease \/ LeaseLapses \/ UNCHANGED leaseVars
    BY <2>3 DEF FenceConnectionLease, LeaseLapses, leaseVars
  <2> QED
    BY <2>1, <2>2, <2>3 DEF LeaseNext
<1>2. LeaseInit => TokenNamesOneOwner
  BY DEF LeaseInit, TokenNamesOneOwner
<1> QED
  BY <1>1, <1>2, LeaseTypeCorrect, LeaseHoldersBehindRow, PTL DEF LeaseSpec

(* Every handover of the connection to another process advances the token, and
   nothing ever lowers it. *)
THEOREM LeaseHandoverAdvancesToken == LeaseSpec => HandoverAdvancesToken
<1> DEFINE Advances ==
        /\ lease'.token >= lease.token
        /\ lease'.owner # lease.owner /\ lease'.owner # NoOwner
             => lease'.token > lease.token
<1>1. ASSUME LeaseTypeOK, [LeaseNext]_leaseVars
      PROVE  [Advances]_leaseVars
  <2> USE <1>1 DEF LeaseTypeOK, LeaseRow
  <2>1. ASSUME NEW o \in Owners, AcquireConnectionLease(o)
        PROVE  Advances
    BY <2>1 DEF AcquireConnectionLease, AcquiredToken
  <2>2. ASSUME NEW o \in Owners,
               ReleaseConnectionLease(o) \/ RenewRefused(o) \/ ReleaseLost(o)
        PROVE  Advances
    <3>1. CASE lease' = lease
      BY <3>1
    <3>2. CASE lease' = [lease EXCEPT !.owner = NoOwner, !.live = FALSE]
      BY <3>2
    <3> QED
      BY <2>2, <3>1, <3>2 DEF ReleaseConnectionLease, RenewRefused, ReleaseLost
  <2>3. CASE FenceConnectionLease \/ LeaseLapses
    BY <2>3 DEF FenceConnectionLease, LeaseLapses
  <2> QED
    BY <2>1, <2>2, <2>3 DEF LeaseNext
<1> QED
  BY <1>1, LeaseTypeCorrect, PTL DEF LeaseSpec, HandoverAdvancesToken
=============================================================================
