---------------------------- MODULE StatusHistory ----------------------------
(***************************************************************************)
(* The immutable status history of one message (message_status_history):   *)
(* rows are only appended, and every reader folds the whole of it with     *)
(* DeriveMessageState.  All sequences of observations up to MaxHistory are *)
(* explored, not only the ones today's writers produce.                    *)
(***************************************************************************)
EXTENDS MessageState, FiniteSetsExt

CONSTANT MaxHistory   \* bound on the length of the history

ASSUME HistoryAssumption == MaxHistory \in Nat

VARIABLE history

HistoryInit == history = <<>>

InsertMessageStatus(s) ==
    /\ Len(history) < MaxHistory
    /\ history' = Append(history, s)

HistoryNext == \E s \in MessageStates : InsertMessageStatus(s)

HistorySpec == HistoryInit /\ [][HistoryNext]_history

-----------------------------------------------------------------------------
\* The strongest state observed at the given positions.
Strongest(positions) ==
    IF positions = {} THEN ""
    ELSE LET best == Max({MessageStateRank[history[i]] : i \in positions})
         IN  history[CHOOSE i \in positions : MessageStateRank[history[i]] = best]

Positions(states) == {i \in 1..Len(history) : history[i] \in states}

\* What the comment on DeriveMessageState promises, without the loop.  The
\* first decisive observation (evidence or failure) settles which of the two
\* it is; before one, an uncertain observation forgets everything older.
ReferenceState ==
    LET decisive == Positions(CarrierStates \cup {"failed"})
        lost     == Positions({"uncertain"})
    IN  IF decisive # {}
        THEN IF history[Min(decisive)] = "failed"
             THEN "failed"
             ELSE Strongest(Positions(CarrierStates))
        ELSE IF lost = {}
             THEN Strongest(1..Len(history))
             ELSE IF Max(lost) = Len(history)
                  THEN "uncertain"
                  ELSE Strongest((Max(lost) + 1)..Len(history))

(* DeriveMessageState's single pass with its running rank computes the
   declarative reference for every history. *)
DerivesReference == DeriveMessageState(history) = ReferenceState
=============================================================================
