--------------------------- MODULE ConnectionLease ---------------------------
(***************************************************************************)
(* The fenced lease that decides which gateway process owns a provider     *)
(* connection (store/postgres/connection_actor.go, table                   *)
(* connection_leases), for one connection.                                 *)
(*                                                                         *)
(* expires_at is only ever compared with the database clock, so the row    *)
(* keeps the comparison's result: live = (expires_at > clock_timestamp()). *)
(* Time passing is the action LeaseLapses; a renewal that succeeds leaves  *)
(* live TRUE and is a stuttering step.  A missing row is token 0.          *)
(*                                                                         *)
(* held[o] is the fencing token the actor generation running in process o  *)
(* got from its acquisition, 0 when none runs.  It is local memory: it     *)
(* outlives the lease (a paused process) and dies with the process.        *)
(***************************************************************************)
EXTENDS Naturals

CONSTANTS Owners,    \* owner ids (SIRENAIX_OWNER_ID), one per gateway process
          NoOwner,   \* the SQL NULL of owner_id
          MaxToken   \* bound on fencing_token

ASSUME LeaseAssumption == NoOwner \notin Owners /\ MaxToken \in Nat

VARIABLES lease, held

leaseVars == <<lease, held>>

LeaseRow == [owner : Owners \cup {NoOwner}, token : 0..MaxToken, live : BOOLEAN]

LeaseTypeOK ==
    /\ lease \in LeaseRow
    /\ held \in [Owners -> 0..MaxToken]

LeaseInit ==
    /\ lease = [owner |-> NoOwner, token |-> 0, live |-> FALSE]
    /\ held = [o \in Owners |-> 0]

-----------------------------------------------------------------------------
(* Mutant: an expired lease is taken over without advancing the token. *)
AcquiredTokenReused(o) ==
    IF lease.token > 0 THEN lease.token ELSE 1

(* The CASE of acquire_connection_lease: only the unexpired lease of the
   same owner keeps its token. *)
AcquiredToken(o) ==
    IF lease.owner = o /\ lease.live THEN lease.token ELSE lease.token + 1

(* The fence every durable write of a generation repeats: owner, token and
   expiry, under FOR UPDATE. *)
OwnsLease(o) ==
    /\ held[o] # 0
    /\ lease.owner = o
    /\ lease.token = held[o]
    /\ lease.live

(* AcquireConnectionLease, by a process that runs no generation.  Refused
   (no row updated) while another owner's lease is unexpired. *)
AcquireConnectionLease(o) ==
    /\ held[o] = 0
    /\ lease.owner = o \/ ~lease.live
    /\ AcquiredToken(o) <= MaxToken
    /\ lease' = [owner |-> o, token |-> AcquiredToken(o), live |-> TRUE]
    /\ held' = [held EXCEPT ![o] = AcquiredToken(o)]

(* ReleaseConnectionLease: the deferred release when a generation ends.  It
   updates nothing when the lease is no longer this generation's. *)
ReleaseConnectionLease(o) ==
    /\ held[o] # 0
    /\ lease' = IF OwnsLease(o)
                THEN [lease EXCEPT !.owner = NoOwner, !.live = FALSE]
                ELSE lease
    /\ held' = [held EXCEPT ![o] = 0]

(* RenewConnectionLease refused: the generation stops. *)
RenewRefused(o) ==
    /\ held[o] # 0
    /\ ~OwnsLease(o)
    /\ held' = [held EXCEPT ![o] = 0]
    /\ UNCHANGED lease

(* The fence of the control plane (quarantine, reauthorization): the row
   loses its owner and its token moves past every generation's. *)
FenceConnectionLease ==
    /\ lease.token > 0
    /\ lease.token < MaxToken
    /\ lease' = [owner |-> NoOwner, token |-> lease.token + 1, live |-> FALSE]
    /\ UNCHANGED held

(* The database clock passes expires_at. *)
LeaseLapses ==
    /\ lease.live
    /\ lease' = [lease EXCEPT !.live = FALSE]
    /\ UNCHANGED held

(* The generation ends and its release never reaches the row: the process
   died, or the deferred release failed (its error is discarded). *)
ReleaseLost(o) ==
    /\ held[o] # 0
    /\ held' = [held EXCEPT ![o] = 0]
    /\ UNCHANGED lease

LeaseNext ==
    \/ \E o \in Owners : \/ AcquireConnectionLease(o)
                         \/ ReleaseConnectionLease(o)
                         \/ RenewRefused(o)
                         \/ ReleaseLost(o)
    \/ FenceConnectionLease
    \/ LeaseLapses

LeaseSpec == LeaseInit /\ [][LeaseNext]_leaseVars

-----------------------------------------------------------------------------
(* No two processes ever run generations with the same fencing token, live
   or stale: a token names one generation's owner for ever, so a write that
   checks it can never be attributed to the wrong process. *)
TokenNamesOneOwner ==
    \A o, p \in Owners : held[o] # 0 /\ held[o] = held[p] => o = p

(* The row's token never goes back, and a change of the recorded owner to
   another process always advances it: whoever held the connection before is
   fenced out by the step that hands it over. *)
HandoverAdvancesToken ==
    [][/\ lease'.token >= lease.token
       /\ lease'.owner # lease.owner /\ lease'.owner # NoOwner
            => lease'.token > lease.token]_leaseVars

(* The strengthening that makes TokenNamesOneOwner inductive: no generation is
   ahead of the row, and the one that is level with it is the row's owner. *)
HoldersBehindRow ==
    \A o \in Owners : /\ held[o] <= lease.token
                      /\ held[o] # 0 /\ held[o] = lease.token => lease.owner = o
=============================================================================
