---------------------------- MODULE CanonicalLane ----------------------------
(***************************************************************************)
(* The lane of a conversation.  A message to a known conversation queues   *)
(* on the conversation's ordering key; one to a new recipient queues on    *)
(* the recipient's own lane and learns only from the provider which        *)
(* conversation it belongs to (resolveConversation of                      *)
(* messaging_runtime.go), which then moves to that lane                    *)
(* (RecordCreatedConversationFenced of store/postgres/messages.go) unless  *)
(* another lane has work for it.  Submission and recording lock the        *)
(* connection row, so both are one step.  Fencing and reconciliation are   *)
(* OutboundDispatch's: here an attempt that loses its lease is over.       *)
(***************************************************************************)
EXTENDS Naturals, FiniteSets

CONSTANTS LaneMessages,    \* outbound messages of one connection
          Recipients,      \* numbers as the callers write them
          Threads,         \* provider conversation IDs
          Resolve,         \* Resolve[r]: the conversation the provider has for r
          NoKey            \* no row, no lane, no conversation

ASSUME LaneAssumption ==
    /\ Resolve \in [Recipients -> Threads]
    /\ NoKey \notin Recipients \cup Threads
    /\ Recipients \cap Threads = {}

\* Ordering keys: a conversation ID, or "new:" and a recipient.
LaneKeys == Recipients \cup Threads

VARIABLES orderingKey,   \* conversations: COALESCE(ordering_key, conversation_id), NoKey: no row
          work           \* messages with their lane and open attempt

laneVars == <<orderingKey, work>>

NoWork == [stage |-> "none", key |-> NoKey, conv |-> NoKey]

LaneInit ==
    /\ orderingKey = [c \in Threads |-> NoKey]
    /\ work = [m \in LaneMessages |-> NoWork]

\* A message with an open attempt holds the claim of its lane.
OpenAttempt(m) == work[m].stage \in {"claimed", "creating", "sending"}
Unfinished(m) == work[m].stage = "queued" \/ OpenAttempt(m)

\* CreateOutbound: validateMessageRoute gives the lane of a known conversation.
SubmitTo(m, c) ==
    /\ work[m].stage = "none"
    /\ orderingKey[c] # NoKey
    /\ work' = [work EXCEPT ![m] = [stage |-> "queued", key |-> orderingKey[c], conv |-> c]]
    /\ UNCHANGED orderingKey

\* CreateOutbound without a conversation: the lane "new:" + recipient.
SubmitNew(m, r) ==
    /\ work[m].stage = "none"
    /\ work' = [work EXCEPT ![m] = [stage |-> "queued", key |-> r, conv |-> NoKey]]
    /\ UNCHANGED orderingKey

\* An inbound envelope inserts the conversation; its empty ordering key reads as its ID.
InboundConversation(c) ==
    /\ orderingKey[c] = NoKey
    /\ orderingKey' = [orderingKey EXCEPT ![c] = c]
    /\ UNCHANGED work

ClaimLane(m) ==
    /\ work[m].stage = "queued"
    /\ \A n \in LaneMessages : ~(OpenAttempt(n) /\ work[n].key = work[m].key)
    /\ work' = [work EXCEPT ![m].stage = "claimed"]
    /\ UNCHANGED orderingKey

\* GetConversation leads straight to SendMessage, GetOrCreateConversation to a record.
StartIO(m) ==
    /\ work[m].stage = "claimed"
    /\ work' = [work EXCEPT ![m].stage = IF work[m].conv # NoKey
                                         THEN "sending" ELSE "creating"]
    /\ UNCHANGED orderingKey

ThreadOf(m) == Resolve[work[m].key]

\* Mutant: only open attempts make the other lane busy, not its queue.
OtherLaneBusyOpenOnly(m) ==
    LET existing == orderingKey[ThreadOf(m)]
    IN  /\ existing \notin {NoKey, work[m].key}
        /\ \E n \in LaneMessages : OpenAttempt(n) /\ work[n].key = existing

\* other_lane_work: a claim, an open attempt or a queued message on the existing lane.
OtherLaneBusy(m) ==
    LET existing == orderingKey[ThreadOf(m)]
    IN  /\ existing \notin {NoKey, work[m].key}
        /\ \E n \in LaneMessages : Unfinished(n) /\ work[n].key = existing

RecordCreatedConversation(m) ==
    /\ work[m].stage = "creating"
    /\ ~OtherLaneBusy(m)
    /\ orderingKey' = [orderingKey EXCEPT ![ThreadOf(m)] = work[m].key]
    /\ work' = [work EXCEPT ![m].stage = "sending", ![m].conv = ThreadOf(m)]

\* ErrCanonicalLaneBusy, and any other end of the attempt.
AttemptOver(m) ==
    /\ OpenAttempt(m)
    /\ work' = [work EXCEPT ![m].stage = "done"]
    /\ UNCHANGED orderingKey

LaneNext ==
    \/ \E m \in LaneMessages :
          \/ \E c \in Threads : SubmitTo(m, c)
          \/ \E r \in Recipients : SubmitNew(m, r)
          \/ ClaimLane(m) \/ StartIO(m) \/ RecordCreatedConversation(m) \/ AttemptOver(m)
    \/ \E c \in Threads : InboundConversation(c)

LaneSpec == LaneInit /\ [][LaneNext]_laneVars

-----------------------------------------------------------------------------
(* The provider is never sent two messages of one conversation at once, on
   whatever lanes they were queued and however often the conversation moved:
   the order of a conversation is the order of its lane. *)
ConversationSerial ==
    \A m, n \in LaneMessages :
        work[m].stage = "sending" /\ work[n].stage = "sending" /\ work[m].conv = work[n].conv
            => m = n

(* The invariant behind it: all unfinished work that names a conversation is on
   the conversation's lane. *)
WorkOnCanonicalLane ==
    \A m \in LaneMessages : Unfinished(m) /\ work[m].conv # NoKey
        => orderingKey[work[m].conv] = work[m].key
=============================================================================
