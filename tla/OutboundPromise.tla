--------------------------- MODULE OutboundPromise ---------------------------
(***************************************************************************)
(* What outbound messaging promises the caller of the submission API, for  *)
(* each message on its own: no lanes, claims, leases, processes or         *)
(* crashes.  An accepted message is offered for dispatch until the gateway *)
(* commits itself, once and for ever, to one attempt; only that attempt    *)
(* may put it on the wire; from then on the visible state only follows     *)
(* what is learned about the attempt.  OutboundDispatch implements it.     *)
(***************************************************************************)
EXTENDS Naturals

CONSTANT Messages

VARIABLES visible,    \* the state the API shows ("" : not submitted)
          committed,  \* the gateway has begun the message's one attempt
          wired       \* the message was put on the wire

promiseVars == <<visible, committed, wired>>

\* What the caller may see next, once the attempt has begun.  failed is final,
\* evidence only gets stronger, and nothing returns to the queue.
Learned ==
    [s \in {"dispatching", "awaiting_phone", "uncertain", "sent", "delivered"} |->
        CASE s = "dispatching" -> {"awaiting_phone", "uncertain", "failed",
                                   "sent", "delivered", "read"}
          [] s = "sent"        -> {"delivered", "read"}
          [] s = "delivered"   -> {"read"}
          [] OTHER             -> {"failed", "sent", "delivered", "read"}]

Init ==
    /\ visible = [m \in Messages |-> ""]
    /\ committed = [m \in Messages |-> FALSE]
    /\ wired = [m \in Messages |-> FALSE]

Submit(m) ==
    /\ visible[m] = ""
    /\ visible' = [visible EXCEPT ![m] = "queued"]
    /\ UNCHANGED <<committed, wired>>

Take(m) ==
    /\ visible[m] = "queued"
    /\ ~committed[m]
    /\ visible' = [visible EXCEPT ![m] = "dispatching"]
    /\ UNCHANGED <<committed, wired>>

PutBack(m) ==
    /\ visible[m] = "dispatching"
    /\ ~committed[m]
    /\ visible' = [visible EXCEPT ![m] = "queued"]
    /\ UNCHANGED <<committed, wired>>

Commit(m) ==
    /\ visible[m] = "dispatching"
    /\ ~committed[m]
    /\ committed' = [committed EXCEPT ![m] = TRUE]
    /\ UNCHANGED <<visible, wired>>

Transmit(m) ==
    /\ committed[m]
    /\ ~wired[m]
    /\ wired' = [wired EXCEPT ![m] = TRUE]
    /\ UNCHANGED <<visible, committed>>

Learn(m) ==
    /\ committed[m]
    /\ visible[m] \in DOMAIN Learned
    /\ \E s \in Learned[visible[m]] : visible' = [visible EXCEPT ![m] = s]
    /\ UNCHANGED <<committed, wired>>

Next ==
    \E m \in Messages :
        Submit(m) \/ Take(m) \/ PutBack(m) \/ Commit(m) \/ Transmit(m) \/ Learn(m)

Spec == Init /\ [][Next]_promiseVars
=============================================================================
