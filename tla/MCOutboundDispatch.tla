-------------------------- MODULE MCOutboundDispatch --------------------------
(***************************************************************************)
(* Small instances of OutboundDispatch for TLC.                            *)
(***************************************************************************)
EXTENDS OutboundDispatch, TLC

\* Every message in one lane.
OneLane == [m \in Messages |-> CHOOSE l \in Lanes : TRUE]

\* The processes are interchangeable.
OwnerSymmetry == Permutations(Owners)
=============================================================================
