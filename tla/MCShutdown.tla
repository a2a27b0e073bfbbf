----------------------------- MODULE MCShutdown ------------------------------
(***************************************************************************)
(* How the long-lived parts of a process stop, checked in one run: a       *)
(* behaviour picks the connection actor, the supervisor or the provider    *)
(* client and takes its steps only; the others rest in their initial       *)
(* states.                                                                 *)
(***************************************************************************)
EXTENDS ConnectionActor, Supervisor, ClientLifecycle

CONSTANT Components

VARIABLE component

ShutdownInit ==
    /\ component \in Components
    /\ Init /\ SupervisorInit /\ ClientInit
    /\ component = "client" \/ secrets

ShutdownNext ==
    /\ UNCHANGED component
    /\ \/ component = "actor" /\ Next /\ UNCHANGED <<supervisorVars, lifecycleVars>>
       \/ component = "supervisor" /\ SupervisorNext /\ UNCHANGED <<vars, lifecycleVars>>
       \/ component = "client" /\ ClientNext /\ UNCHANGED <<vars, supervisorVars>>

(* The fairness of the modules.  An actor that was not started and a client
   nobody called have no fair step; the loops of the supervisor are owed steps
   only in the behaviours that run it. *)
ShutdownSpec ==
    /\ ShutdownInit /\ [][ShutdownNext]_<<component, vars, supervisorVars, lifecycleVars>>
    /\ Fairness /\ ClientFairness
    /\ \A l \in Loops :
          WF_supervisorVars(component = "supervisor" /\ process # "exited" /\ SupervisorLoopStep(l))
    /\ WF_supervisorVars(component = "supervisor" /\ process # "exited" /\ StopStep)
=============================================================================
