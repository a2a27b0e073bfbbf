----------------------------- MODULE MCConnection ----------------------------
(***************************************************************************)
(* A connection from its actor down to the phone, checked in one run: a    *)
(* behaviour picks the actors of two processes, the client of the          *)
(* provider, its link to the phone, a room of the bridge or its logins at  *)
(* the start and takes its steps only; the others rest in their initial    *)
(* states.                                                                 *)
(***************************************************************************)
EXTENDS ConnectionActor, ClientLifecycle, PhoneLink, BridgeRoom, LoginFlow, TLC

CONSTANTS p1, p2, Components

VARIABLE component

ConnectionInit ==
    /\ component \in Components
    /\ Init /\ ClientInit /\ LinkInit /\ RoomInit /\ LoginInit
    /\ component = "client" \/ secrets
    /\ component = "login" \/ flow = [l \in Logins |-> "qr"]

ConnectionNext ==
    /\ UNCHANGED component
    /\ \/ /\ component = "actor" /\ Next
          /\ UNCHANGED <<lifecycleVars, linkVars, roomVars, loginVars>>
       \/ /\ component = "client" /\ ClientNext
          /\ UNCHANGED <<vars, linkVars, roomVars, loginVars>>
       \/ /\ component = "link" /\ LinkNext
          /\ UNCHANGED <<vars, lifecycleVars, roomVars, loginVars>>
       \/ /\ component = "room" /\ RoomNext
          /\ UNCHANGED <<vars, lifecycleVars, linkVars, loginVars>>
       \/ /\ component = "login" /\ LoginNext
          /\ UNCHANGED <<vars, lifecycleVars, linkVars, roomVars>>

ConnectionSpec ==
    /\ ConnectionInit
    /\ [][ConnectionNext]_<<component, vars, lifecycleVars, linkVars, roomVars, loginVars>>

\* p1 and p2 are the processes, the callers of Connect and Disconnect and the ids
\* of pings.
ConnectionSymmetry == Permutations({p1, p2})

\* Sessions and fencing tokens share one bound: a hand-over with the session of a
\* pairing, a callback's session on top of it with one token, or a hand-over, a
\* fence and a re-acquisition without a session.
\* Updates and resyncs of a room share one too: three updates around one resync, or
\* one between two that overlap.
ShortHistory == issued + lease.token <= 3 /\ updates + 2 * syncs <= 5

-----------------------------------------------------------------------------
(* What a phone answers: with one code and one set of keys, with two codes,
   without keys. *)
ServerInit(c, k, b) == [codes |-> c, keys |-> k, sound |-> b]
MCServerInits == {ServerInit(0, 1, TRUE), ServerInit(1, 2, TRUE), ServerInit(2, 0, TRUE)}
=============================================================================
