---------------------------- MODULE MessageState ----------------------------
(***************************************************************************)
(* domain/message.go: the externally visible message states, their rank    *)
(* and the fold that derives the current state from the immutable status   *)
(* history.  "" is the Go zero value of MessageState: no valid observation *)
(* yet.                                                                    *)
(***************************************************************************)
EXTENDS Naturals, Sequences

MessageStates == {"queued", "dispatching", "provider_accepted",
                  "awaiting_phone", "sent", "delivered", "read",
                  "uncertain", "failed"}

\* Evidence that the message left the phone.
CarrierStates == {"sent", "delivered", "read"}

\* messageStateRank: "" is the fold's initial rank -1, shifted by one so that
\* ranks are naturals.  uncertain shares the rank of provider_accepted.
MessageStateRank ==
    [s \in MessageStates \cup {""} |->
        CASE s = ""                  -> 0
          [] s = "queued"            -> 1
          [] s = "dispatching"       -> 2
          [] s = "provider_accepted" -> 3
          [] s = "uncertain"         -> 3
          [] s = "awaiting_phone"    -> 4
          [] s = "sent"              -> 5
          [] s = "delivered"         -> 6
          [] s = "read"              -> 7
          [] s = "failed"            -> 8]

\* Mutant: a late uncertain or failed observation overrides carrier evidence.
ObserveOverridesEvidence(current, observed) ==
    IF observed \in {"uncertain", "failed"}
    THEN observed
    ELSE IF \/ current = "uncertain"
            \/ /\ current # "failed"
               /\ MessageStateRank[observed] >= MessageStateRank[current]
         THEN observed
         ELSE current

\* One iteration of DeriveMessageState's loop.  The loop's currentRank is
\* always the rank of current, so current alone is the accumulator.
Observe(current, observed) ==
    IF observed \in {"uncertain", "failed"}
    THEN IF MessageStateRank[current] < MessageStateRank["sent"]
         THEN observed
         ELSE current
    ELSE IF \/ current = "uncertain"
            \/ /\ current # "failed"
               /\ MessageStateRank[observed] >= MessageStateRank[current]
         THEN observed
         ELSE current

\* DeriveMessageState over a whole history, as the fold the code computes.
DeriveMessageState(history) ==
    LET fold[i \in 0..Len(history)] ==
            IF i = 0 THEN "" ELSE Observe(fold[i - 1], history[i])
    IN  fold[Len(history)]
=============================================================================
