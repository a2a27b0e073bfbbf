--------------------------- MODULE MessagingProofs ---------------------------
(***************************************************************************)
(* The path of a message through the gateway: its lane, its submission,    *)
(* its backfill and its ingress.                                           *)
(***************************************************************************)
EXTENDS CanonicalLane, Submission, Backfill, Ingress, ConnectionLeaseProofs, PagingLemmas

-----------------------------------------------------------------------------
(***************************************************************************)
(* Proof that no two messages of one conversation are ever sent at once.   *)
(* The inductive invariant says that unfinished work which names a         *)
(* conversation is on the conversation's lane, and that a lane has one     *)
(* open attempt; the step that moves a conversation keeps the first part   *)
(* because it refuses to move one that has work on another lane.           *)
(***************************************************************************)

Stages == {"none", "queued", "claimed", "creating", "sending", "done"}

LaneTypeOK ==
    /\ orderingKey \in [Threads -> LaneKeys \cup {NoKey}]
    /\ work \in [LaneMessages -> [stage : Stages, key : LaneKeys \cup {NoKey},
                                  conv : Threads \cup {NoKey}]]

\* A lane has one claim, and so one open attempt.
OneAttemptPerLane ==
    \A m, n \in LaneMessages :
        OpenAttempt(m) /\ OpenAttempt(n) /\ work[m].key = work[n].key => m = n

\* Work has a lane, without a conversation a recipient's one, and what is
\* being sent has a conversation.
WorkIsAddressed ==
    \A m \in LaneMessages :
        /\ Unfinished(m) => work[m].key # NoKey
        /\ Unfinished(m) /\ work[m].conv = NoKey => work[m].key \in Recipients
        /\ work[m].stage = "creating" => work[m].conv = NoKey
        /\ work[m].stage = "sending" => work[m].conv # NoKey

LaneInv == LaneTypeOK /\ WorkOnCanonicalLane /\ OneAttemptPerLane /\ WorkIsAddressed

\* No work exists at the start.
LEMMA LaneInitially == LaneInit => LaneInv
  BY DEF LaneInit, LaneInv, LaneTypeOK, Stages, NoWork, WorkOnCanonicalLane, Unfinished,
         OpenAttempt, OneAttemptPerLane, WorkIsAddressed

\* Moving a conversation leaves no work behind on another lane.
LEMMA RecordKeepsLanes ==
    ASSUME LaneInv, NEW m \in LaneMessages, RecordCreatedConversation(m)
    PROVE  LaneInv'
  <1> USE LaneAssumption DEF LaneKeys
  <1> DEFINE c == ThreadOf(m)
  <1>1. work[m].key \in Recipients /\ c \in Threads /\ work[m].conv = NoKey
    BY DEF LaneInv, LaneTypeOK, WorkIsAddressed, RecordCreatedConversation, ThreadOf, Unfinished,
           OpenAttempt
  <1>2. LaneTypeOK'
    BY <1>1 DEF LaneInv, LaneTypeOK, RecordCreatedConversation, Stages
  <1>3. ASSUME NEW n \in LaneMessages, Unfinished(n), work[n].conv = c
        PROVE  work[n].key = work[m].key
    <2>1. orderingKey[c] = work[n].key
      BY <1>1, <1>3 DEF LaneInv, WorkOnCanonicalLane
    <2>2. work[n].key # NoKey
      BY <1>3 DEF LaneInv, WorkIsAddressed
    <2> QED
      BY <1>3, <2>1, <2>2 DEF RecordCreatedConversation, OtherLaneBusy
  <1>4. WorkOnCanonicalLane'
    BY <1>1, <1>3 DEF LaneInv, LaneTypeOK, WorkOnCanonicalLane, RecordCreatedConversation,
                      Unfinished, OpenAttempt, ThreadOf
  <1>5. OneAttemptPerLane'
    BY DEF LaneInv, LaneTypeOK, OneAttemptPerLane, RecordCreatedConversation, OpenAttempt
  <1>6. WorkIsAddressed'
    BY <1>1 DEF LaneInv, LaneTypeOK, WorkIsAddressed, RecordCreatedConversation, Unfinished,
                OpenAttempt
  <1> QED BY <1>2, <1>4, <1>5, <1>6 DEF LaneInv

\* Every submission, alias, move and dispatch of the lanes keeps the invariant.
LEMMA LaneStep == LaneInv /\ [LaneNext]_laneVars => LaneInv'
  <1> SUFFICES ASSUME LaneInv, [LaneNext]_laneVars PROVE LaneInv'
    OBVIOUS
  <1> USE LaneAssumption DEF LaneKeys
  <1>1. ASSUME NEW m \in LaneMessages, NEW c \in Threads, SubmitTo(m, c) PROVE LaneInv'
    <2>1. LaneTypeOK'
      BY <1>1 DEF LaneInv, LaneTypeOK, SubmitTo, Stages
    <2>2. WorkOnCanonicalLane' /\ OneAttemptPerLane' /\ WorkIsAddressed'
      BY <1>1 DEF LaneInv, LaneTypeOK, SubmitTo, WorkOnCanonicalLane, OneAttemptPerLane,
                  WorkIsAddressed, Unfinished, OpenAttempt
    <2> QED BY <2>1, <2>2 DEF LaneInv
  <1>2. ASSUME NEW m \in LaneMessages, NEW r \in Recipients, SubmitNew(m, r) PROVE LaneInv'
    <2>1. LaneTypeOK'
      BY <1>2 DEF LaneInv, LaneTypeOK, SubmitNew, Stages
    <2>2. WorkOnCanonicalLane' /\ OneAttemptPerLane' /\ WorkIsAddressed'
      BY <1>2 DEF LaneInv, LaneTypeOK, SubmitNew, WorkOnCanonicalLane, OneAttemptPerLane,
                  WorkIsAddressed, Unfinished, OpenAttempt
    <2> QED BY <2>1, <2>2 DEF LaneInv
  <1>3. ASSUME NEW m \in LaneMessages, ClaimLane(m) PROVE LaneInv'
    <2>1. LaneTypeOK'
      BY <1>3 DEF LaneInv, LaneTypeOK, ClaimLane, Stages
    <2>2. WorkOnCanonicalLane' /\ OneAttemptPerLane' /\ WorkIsAddressed'
      BY <1>3 DEF LaneInv, LaneTypeOK, ClaimLane, WorkOnCanonicalLane, OneAttemptPerLane,
                  WorkIsAddressed, Unfinished, OpenAttempt
    <2> QED BY <2>1, <2>2 DEF LaneInv
  <1>4. ASSUME NEW m \in LaneMessages, StartIO(m) PROVE LaneInv'
    <2>1. LaneTypeOK'
      BY <1>4 DEF LaneInv, LaneTypeOK, StartIO, Stages
    <2>2. WorkOnCanonicalLane' /\ OneAttemptPerLane' /\ WorkIsAddressed'
      BY <1>4 DEF LaneInv, LaneTypeOK, StartIO, WorkOnCanonicalLane, OneAttemptPerLane,
                  WorkIsAddressed, Unfinished, OpenAttempt
    <2> QED BY <2>1, <2>2 DEF LaneInv
  <1>5. ASSUME NEW m \in LaneMessages, AttemptOver(m) PROVE LaneInv'
    <2>1. LaneTypeOK'
      BY <1>5 DEF LaneInv, LaneTypeOK, AttemptOver, Stages
    <2>2. WorkOnCanonicalLane' /\ OneAttemptPerLane' /\ WorkIsAddressed'
      BY <1>5 DEF LaneInv, LaneTypeOK, AttemptOver, WorkOnCanonicalLane, OneAttemptPerLane,
                  WorkIsAddressed, Unfinished, OpenAttempt
    <2> QED BY <2>1, <2>2 DEF LaneInv
  <1>6. ASSUME NEW c \in Threads, InboundConversation(c) PROVE LaneInv'
    <2>1. LaneTypeOK'
      BY <1>6 DEF LaneInv, LaneTypeOK, InboundConversation
    <2>2. OneAttemptPerLane' /\ WorkIsAddressed'
      BY <1>6 DEF LaneInv, OneAttemptPerLane, WorkIsAddressed, InboundConversation, Unfinished,
                  OpenAttempt
    <2>3. WorkOnCanonicalLane'
      BY <1>6 DEF LaneInv, LaneTypeOK, WorkOnCanonicalLane, WorkIsAddressed, InboundConversation,
                  Unfinished, OpenAttempt
    <2> QED BY <2>1, <2>2, <2>3 DEF LaneInv
  <1>7. CASE UNCHANGED laneVars
    BY <1>7 DEF laneVars, LaneInv, LaneTypeOK, WorkOnCanonicalLane, OneAttemptPerLane,
                WorkIsAddressed, Unfinished, OpenAttempt
  <1> QED BY <1>1, <1>2, <1>3, <1>4, <1>5, <1>6, <1>7, RecordKeepsLanes DEF LaneNext

\* Work that names one conversation is on one lane, and a lane has one open attempt.
LEMMA LaneInvImpliesSerial == LaneInv => ConversationSerial
  BY DEF LaneInv, ConversationSerial, WorkOnCanonicalLane, OneAttemptPerLane, WorkIsAddressed,
         Unfinished, OpenAttempt

\* The provider is never sent two messages of one conversation at once, for any
\* set of messages, recipients and conversations and whatever the provider
\* resolves them to (RecordCreatedConversationFenced, resolveConversation).
THEOREM LanesAreSerial == LaneSpec => []ConversationSerial
  <1>1. LaneSpec => []LaneInv
    BY LaneInitially, LaneStep, PTL DEF LaneSpec
  <1> QED BY <1>1, LaneInvImpliesSerial, PTL

-----------------------------------------------------------------------------
(***************************************************************************)
(* Proof that a request is submitted once. The inductive invariant ties    *)
(* the three tables: a key in use names a stored message with its digest,  *)
(* a stored message has one key, an audited command has the message of its *)
(* key; and a listing has everything it owes up to its cursor.             *)
(***************************************************************************)

\* The digests of the requests.
Digests == {CanonicalDigest(i) : i \in SendInputs}

ClientRow ==
    [pc : {"idle", "submit", "refused", "accepted", "conflict", "lost", "read",
           "not_found", "more", "listed"},
     key : IdemKeys \cup {Unset}, input : SendInputs \cup {Unset},
     offset : Offsets \cup {Unset}, answer : MessageIds \cup {Unset},
     after : Nat, listed : SUBSET MessageIds, owed : SUBSET MessageIds]

SubmissionTypeOK ==
    /\ idempotency \in [IdemKeys -> {Unset} \cup [digest : Digests, id : MessageIds]]
    /\ outbound \in [MessageIds -> {Unset} \cup Digests]
    /\ audits \in [Offsets -> {Unset} \cup [key : IdemKeys, id : MessageIds]]
    /\ client \in [Callers -> ClientRow]

\* A request under way has a key and a body.
RequestIsWhole(c) ==
    client[c].pc \in {"submit", "refused", "lost", "accepted", "read"} =>
        client[c].key \in IdemKeys /\ client[c].input \in SendInputs

\* Who was told a message has the message of its key.
AnswerIsKeyed(c) ==
    client[c].pc \in {"accepted", "read"} =>
        /\ client[c].answer \in MessageIds
        /\ idempotency[client[c].key] =
              [digest |-> CanonicalDigest(client[c].input), id |-> client[c].answer]

\* A key's message is stored with the key's digest.
KeyIsStored ==
    \A k \in IdemKeys : idempotency[k] # Unset =>
        outbound[idempotency[k].id] = idempotency[k].digest

StoredIsKeyed ==
    \A m \in MessageIds : outbound[m] # Unset =>
        \E k \in IdemKeys : idempotency[k] = [digest |-> outbound[m], id |-> m]

KeysAreApart ==
    \A j, k \in IdemKeys :
        j # k /\ idempotency[j] # Unset /\ idempotency[k] # Unset
          => idempotency[j].id # idempotency[k].id

AuditIsKeyed ==
    \A o \in Offsets : audits[o] # Unset =>
        /\ idempotency[audits[o].key] # Unset
        /\ idempotency[audits[o].key].id = audits[o].id

\* A listing has everything it owes up to its cursor.
ListingKeepsUp(c) ==
    /\ client[c].pc \notin {"more", "listed"} => client[c].after = 0
    /\ client[c].owed \subseteq StoredIds
    /\ client[c].pc = "more" => \A m \in client[c].owed : m <= client[c].after => m \in client[c].listed
    /\ client[c].pc = "listed" => client[c].owed \subseteq client[c].listed
    /\ client[c].pc # "not_found"

SubmissionInv ==
    /\ SubmissionTypeOK
    /\ KeyIsStored /\ StoredIsKeyed /\ KeysAreApart /\ AuditIsKeyed
    /\ \A c \in Callers : RequestIsWhole(c) /\ AnswerIsKeyed(c) /\ ListingKeepsUp(c)

(* The invariant holds before the first request. *)
LEMMA SubmissionInitially == SubmissionInit => SubmissionInv
<1> SUFFICES ASSUME SubmissionInit
             PROVE  SubmissionInv
  OBVIOUS
<1> USE SubmissionAssumption DEF SubmissionInit
<1>1. NoRequest \in ClientRow
  BY DEF NoRequest, ClientRow
<1>2. SubmissionTypeOK
  BY <1>1 DEF SubmissionTypeOK
<1>3. KeyIsStored /\ StoredIsKeyed /\ KeysAreApart /\ AuditIsKeyed
  BY DEF KeyIsStored, StoredIsKeyed, KeysAreApart, AuditIsKeyed
<1>4. ASSUME NEW c \in Callers
      PROVE  RequestIsWhole(c) /\ AnswerIsKeyed(c) /\ ListingKeepsUp(c)
  BY DEF NoRequest, RequestIsWhole, AnswerIsKeyed, ListingKeepsUp
<1> QED
  BY <1>2, <1>3, <1>4 DEF SubmissionInv

(* A step of one caller that stores nothing keeps the invariant when it keeps
   the caller's own part. *)
LEMMA CallerMovesOn ==
    ASSUME SubmissionInv, NEW c \in Callers, NEW r \in ClientRow,
           client' = [client EXCEPT ![c] = r],
           UNCHANGED <<idempotency, outbound, audits>>,
           RequestIsWhole(c)' /\ AnswerIsKeyed(c)' /\ ListingKeepsUp(c)'
    PROVE  SubmissionInv'
<1> USE DEF SubmissionInv
<1>1. SubmissionTypeOK'
  BY DEF SubmissionTypeOK
<1>2. KeyIsStored' /\ StoredIsKeyed' /\ KeysAreApart' /\ AuditIsKeyed'
  BY DEF KeyIsStored, StoredIsKeyed, KeysAreApart, AuditIsKeyed
<1>3. ASSUME NEW d \in Callers, d # c
      PROVE  RequestIsWhole(d)' /\ AnswerIsKeyed(d)' /\ ListingKeepsUp(d)'
  <2>1. client'[d] = client[d] /\ StoredIds' = StoredIds
    BY <1>3 DEF SubmissionTypeOK, StoredIds
  <2>2. RequestIsWhole(d) /\ AnswerIsKeyed(d) /\ ListingKeepsUp(d)
    BY DEF SubmissionInv
  <2> QED
    BY <2>1, <2>2 DEF RequestIsWhole, AnswerIsKeyed, ListingKeepsUp
<1> QED
  BY <1>1, <1>2, <1>3

(* A request comes in. *)
LEMMA SubmitKeeps ==
    ASSUME SubmissionInv, NEW c \in Callers, NEW key \in IdemKeys, NEW input \in SendInputs,
           NEW offset \in Offsets \cup {Unset}, SubmitMessage(c, key, input, offset)
    PROVE  SubmissionInv'
<1> DEFINE stage == IF ValidCommand(input) THEN "submit" ELSE "refused"
           r == [NoRequest EXCEPT !.pc = stage, !.key = key, !.input = input, !.offset = offset]
<1>1. client' = [client EXCEPT ![c] = r] /\ UNCHANGED <<idempotency, outbound, audits>>
  BY DEF SubmitMessage
<1>2. stage \in {"submit", "refused"}
  OBVIOUS
<1> HIDE DEF stage
<1>3. NoRequest \in ClientRow /\ NoRequest.after = 0 /\ NoRequest.owed = {}
  BY DEF NoRequest, ClientRow
<1>4. r \in ClientRow /\ r.pc = stage /\ r.key = key /\ r.input = input /\ r.after = 0 /\ r.owed = {}
  BY <1>2, <1>3 DEF ClientRow
<1> HIDE DEF r
<1>5. client'[c] = r
  BY <1>1 DEF SubmissionInv, SubmissionTypeOK
<1>6. RequestIsWhole(c)' /\ AnswerIsKeyed(c)' /\ ListingKeepsUp(c)'
  BY <1>2, <1>4, <1>5 DEF RequestIsWhole, AnswerIsKeyed, ListingKeepsUp
<1> QED
  BY <1>1, <1>4, <1>6, CallerMovesOn

(* A caller repeats its request, or reads the message it was told. *)
LEMMA RepeatAndReadKeep ==
    ASSUME SubmissionInv, NEW c \in Callers, RepeatRequest(c) \/ GetMessage(c)
    PROVE  SubmissionInv'
<1>1. /\ client[c] \in ClientRow /\ client \in [Callers -> ClientRow]
      /\ RequestIsWhole(c) /\ AnswerIsKeyed(c) /\ ListingKeepsUp(c) /\ KeyIsStored
      /\ UNCHANGED <<idempotency, outbound, audits>>
  BY DEF SubmissionInv, SubmissionTypeOK, RepeatRequest, GetMessage
<1>2. CASE RepeatRequest(c)
  <2> DEFINE r == [client[c] EXCEPT !.pc = "submit"]
  <2>1. r \in ClientRow
    BY <1>1 DEF ClientRow
  <2>2. client' = [client EXCEPT ![c] = r] /\ client'[c] = r
    BY <1>1, <1>2 DEF RepeatRequest
  <2>3. RequestIsWhole(c)' /\ AnswerIsKeyed(c)' /\ ListingKeepsUp(c)'
    BY <1>1, <1>2, <2>2 DEF RepeatRequest, RequestIsWhole, AnswerIsKeyed, ListingKeepsUp,
          ClientRow, StoredIds
  <2> QED
    BY <1>1, <2>1, <2>2, <2>3, CallerMovesOn
<1>3. CASE GetMessage(c)
  <2>1. /\ client[c].pc = "accepted" /\ client[c].answer \in MessageIds
        /\ client[c].key \in IdemKeys /\ client[c].input \in SendInputs
        /\ idempotency[client[c].key] =
              [digest |-> CanonicalDigest(client[c].input), id |-> client[c].answer]
    BY <1>1, <1>3 DEF GetMessage, AnswerIsKeyed, RequestIsWhole
  <2>2. outbound[client[c].answer] = CanonicalDigest(client[c].input)
    BY <1>1, <2>1, UnsetIsNoRow DEF KeyIsStored
  <2>3. outbound[client[c].answer] # Unset
    BY <2>1, <2>2, UnsetIsNoRow
  <2> DEFINE r == [client[c] EXCEPT !.pc = "read"]
  <2>4. r \in ClientRow
    BY <1>1 DEF ClientRow
  <2>5. client' = [client EXCEPT ![c] = r] /\ client'[c] = r
    BY <1>1, <1>3, <2>3 DEF GetMessage
  <2>6. RequestIsWhole(c)' /\ AnswerIsKeyed(c)' /\ ListingKeepsUp(c)'
    BY <1>1, <2>1, <2>5 DEF RequestIsWhole, AnswerIsKeyed, ListingKeepsUp, ClientRow, StoredIds
  <2> QED
    BY <1>1, <2>4, <2>5, <2>6, CallerMovesOn
<1> QED
  BY <1>2, <1>3

(* A page of the listing brings everything owed up to the new cursor; the last
   page brings the rest. *)
LEMMA ListKeeps ==
    ASSUME SubmissionInv, NEW c \in Callers, ListMessages(c)
    PROVE  SubmissionInv'
<1> DEFINE a == client[c].after
           page == MessagePage(a)
           more == \E m \in StoredIds : m > a /\ m \notin page
           last == CHOOSE m \in page : \A n \in page : n <= m
           stage == IF more THEN "more" ELSE "listed"
           after == IF more THEN last ELSE a
           owed == IF client[c].pc = "more" THEN client[c].owed ELSE StoredIds
           r == [client[c] EXCEPT !.pc = stage, !.owed = owed,
                                  !.listed = client[c].listed \cup page, !.after = after]
<1>1. /\ client[c] \in ClientRow /\ client \in [Callers -> ClientRow] /\ a \in Nat
      /\ RequestIsWhole(c) /\ AnswerIsKeyed(c) /\ ListingKeepsUp(c)
      /\ UNCHANGED <<idempotency, outbound, audits>>
  BY DEF SubmissionInv, SubmissionTypeOK, ListMessages, ClientRow
<1>2. StoredIds \in SUBSET Nat /\ StoredIds \subseteq MessageIds /\ page \subseteq StoredIds
      /\ 0 \notin StoredIds /\ MessagesPerPage \in Nat \ {0}
  BY SubmissionAssumption DEF StoredIds, MessagePage
<1>3. page = PageAfter(StoredIds, a, MessagesPerPage)
  BY DEF MessagePage, PageAfter, UpTo
<1>4. ASSUME more
      PROVE  last \in page /\ \A n \in page : n <= last
  <2>1. \E m \in page : \A n \in page : n <= m
    BY <1>1, <1>2, <1>3, <1>4, PageHasLast
  <2> QED
    BY <2>1
<1>5. client' = [client EXCEPT ![c] = r] /\ client'[c] = r
  <2>1. client' = [client EXCEPT ![c].pc = stage, ![c].owed = owed,
                                 ![c].listed = client[c].listed \cup page, ![c].after = after]
    BY <1>1 DEF ListMessages, ClientRow
  <2> HIDE DEF stage, owed, page, after
  <2> QED
    BY <1>1, <2>1 DEF ClientRow
<1>6. stage \in {"more", "listed"} /\ (stage = "more" <=> more)
  OBVIOUS
<1>7. after \in Nat /\ owed \subseteq StoredIds
  BY <1>1, <1>2, <1>4 DEF ListingKeepsUp
<1>8. ASSUME NEW m \in owed, m <= after \/ ~more
      PROVE  m \in client[c].listed \cup page
  <2>1. m \in StoredIds /\ m \in Nat
    BY <1>2, <1>7
  <2>2. CASE m <= a
    <3>1. CASE client[c].pc = "more"
      BY <1>1, <2>2, <3>1 DEF ListingKeepsUp
    <3>2. CASE client[c].pc # "more"
      <4>1. a = 0
        BY <1>1, <3>2 DEF ListingKeepsUp, ListMessages
      <4> QED
        BY <1>2, <2>1, <2>2, <4>1
    <3> QED
      BY <3>1, <3>2
  <2>3. CASE a < m /\ more
    <3>1. last \in PageAfter(StoredIds, a, MessagesPerPage) /\ m <= last
      BY <1>3, <1>4, <1>8, <2>3
    <3> QED
      BY <1>1, <1>2, <1>3, <2>1, <2>3, <3>1, PageIsClosed
  <2>4. CASE a < m /\ ~more
    BY <2>1, <2>4
  <2> QED
    BY <1>1, <2>1, <2>2, <2>3, <2>4
<1> HIDE DEF stage, after, owed, page, more, last
<1>9. r \in ClientRow
  BY <1>1, <1>2, <1>6, <1>7 DEF ClientRow
<1>10. RequestIsWhole(c)' /\ AnswerIsKeyed(c)'
  BY <1>1, <1>5, <1>6 DEF RequestIsWhole, AnswerIsKeyed, ClientRow
<1>11. ListingKeepsUp(c)'
  <2>1. /\ client'[c].pc = stage /\ client'[c].owed = owed
        /\ client'[c].listed = client[c].listed \cup page /\ client'[c].after = after
    BY <1>1, <1>5 DEF ClientRow
  <2>2. StoredIds' = StoredIds
    BY <1>1 DEF StoredIds
  <2> QED
    BY <1>6, <1>7, <1>8, <2>1, <2>2 DEF ListingKeepsUp
<1> QED
  BY <1>1, <1>5, <1>9, <1>10, <1>11, CallerMovesOn

(* What an answer does to the caller's record. *)
LEMMA AnswerReaches ==
    ASSUME SubmissionInv, NEW c \in Callers, NEW id \in MessageIds, NEW lost \in BOOLEAN,
           NEW outcome \in {"accepted", "conflict", "refused"},
           client[c].pc = "submit", Answers(c, outcome, id, lost)
    PROVE  /\ client' \in [Callers -> ClientRow]
           /\ \A d \in Callers : d # c => client'[d] = client[d]
           /\ client'[c].key = client[c].key /\ client'[c].input = client[c].input
           /\ client'[c].after = client[c].after /\ client'[c].owed = client[c].owed
           /\ client'[c].pc \in {"accepted", "conflict", "refused", "lost"}
           /\ client'[c].pc = "accepted" => outcome = "accepted" /\ client'[c].answer = id
<1>1. client[c] \in ClientRow /\ client \in [Callers -> ClientRow]
  BY DEF SubmissionInv, SubmissionTypeOK
<1> DEFINE stage == IF lost THEN "lost" ELSE outcome
           told == IF outcome = "accepted" /\ ~lost THEN id ELSE client[c].answer
<1>2. client' = [client EXCEPT ![c].pc = stage, ![c].answer = told]
  BY <1>1 DEF Answers, ClientRow
<1>3. /\ stage \in {"accepted", "conflict", "refused", "lost"}
      /\ told \in MessageIds \cup {Unset}
      /\ stage = "accepted" => outcome = "accepted" /\ told = id
  BY <1>1 DEF ClientRow
<1> HIDE DEF stage, told
<1> QED
  BY <1>1, <1>2, <1>3 DEF ClientRow

(* The audit of a command that fits names the message of the command's key. *)
LEMMA AuditKept ==
    ASSUME SubmissionInv, NEW c \in Callers, NEW id \in MessageIds, client[c].key \in IdemKeys,
           audits' = Audited(c, id) \/ audits' = audits,
           \A k \in IdemKeys : idempotency[k] # Unset => idempotency'[k] = idempotency[k],
           audits' = audits \/ (idempotency'[client[c].key] # Unset
                                /\ idempotency'[client[c].key].id = id)
    PROVE  /\ audits' \in [Offsets -> {Unset} \cup [key : IdemKeys, id : MessageIds]]
           /\ AuditIsKeyed'
<1>1. /\ audits \in [Offsets -> {Unset} \cup [key : IdemKeys, id : MessageIds]]
      /\ client[c].offset \in Offsets \cup {Unset} /\ AuditIsKeyed
  BY DEF SubmissionInv, SubmissionTypeOK, ClientRow
<1>2. audits' \in [Offsets -> {Unset} \cup [key : IdemKeys, id : MessageIds]]
  BY <1>1 DEF Audited
<1>3. ASSUME NEW o \in Offsets, audits'[o] # Unset
      PROVE  /\ idempotency'[audits'[o].key] # Unset
             /\ idempotency'[audits'[o].key].id = audits'[o].id
  <2>1. CASE audits'[o] = audits[o]
    <3>1. audits[o] \in [key : IdemKeys, id : MessageIds]
      BY <1>1, <1>3, <2>1
    <3> QED
      BY <1>1, <1>3, <2>1, <3>1 DEF AuditIsKeyed
  <2>2. CASE audits'[o] # audits[o]
    <3>1. audits'[o] = [key |-> client[c].key, id |-> id]
      BY <1>1, <2>2 DEF Audited
    <3> QED
      BY <2>2, <3>1
  <2> QED
    BY <2>1, <2>2
<1> QED
  BY <1>2, <1>3 DEF AuditIsKeyed

(* A key that is known answers its message, or a conflict. *)
LEMMA KnownKeyKeeps ==
    ASSUME SubmissionInv, NEW c \in Callers, NEW lost \in BOOLEAN, AnswerKnownKey(c, lost)
    PROVE  SubmissionInv'
<1> DEFINE stored == idempotency[client[c].key]
           known == stored # Unset /\ SameRequest(stored, client[c].input)
           fits == known /\ AuditFits(c, stored.id)
           outcome == IF fits THEN "accepted" ELSE "conflict"
<1>1. /\ client[c].pc = "submit" /\ stored # Unset
      /\ audits' = IF fits THEN Audited(c, stored.id) ELSE audits
      /\ Answers(c, outcome, stored.id, lost)
      /\ UNCHANGED <<idempotency, outbound>>
  BY DEF AnswerKnownKey
<1>2. client[c].key \in IdemKeys /\ client[c].input \in SendInputs
  BY <1>1 DEF SubmissionInv, RequestIsWhole
<1>3. stored \in [digest : Digests, id : MessageIds]
  BY <1>1, <1>2 DEF SubmissionInv, SubmissionTypeOK
<1>4. outcome = "accepted" =>
         stored = [digest |-> CanonicalDigest(client[c].input), id |-> stored.id]
  BY <1>3 DEF SameRequest
<1>5. /\ client' \in [Callers -> ClientRow]
      /\ \A d \in Callers : d # c => client'[d] = client[d]
      /\ client'[c].key = client[c].key /\ client'[c].input = client[c].input
      /\ client'[c].after = client[c].after /\ client'[c].owed = client[c].owed
      /\ client'[c].pc \in {"accepted", "conflict", "refused", "lost"}
      /\ client'[c].pc = "accepted" => outcome = "accepted" /\ client'[c].answer = stored.id
  <2>1. outcome \in {"accepted", "conflict", "refused"} /\ stored.id \in MessageIds
    BY <1>3
  <2> HIDE DEF outcome, stored
  <2> QED
    BY <1>1, <2>1, AnswerReaches
<1> HIDE DEF outcome
<1>6. /\ audits' \in [Offsets -> {Unset} \cup [key : IdemKeys, id : MessageIds]]
      /\ AuditIsKeyed'
  BY <1>1, <1>2, <1>3, AuditKept
<1>7. SubmissionTypeOK'
  BY <1>1, <1>5, <1>6 DEF SubmissionInv, SubmissionTypeOK
<1>8. KeyIsStored' /\ StoredIsKeyed' /\ KeysAreApart'
  BY <1>1 DEF SubmissionInv, KeyIsStored, StoredIsKeyed, KeysAreApart
<1>9. StoredIds' = StoredIds
  BY <1>1 DEF StoredIds
<1>10. ASSUME NEW d \in Callers
       PROVE  RequestIsWhole(d)' /\ AnswerIsKeyed(d)' /\ ListingKeepsUp(d)'
  <2>1. RequestIsWhole(d) /\ AnswerIsKeyed(d) /\ ListingKeepsUp(d)
    BY DEF SubmissionInv
  <2>2. CASE d # c
    BY <1>1, <1>5, <1>9, <2>1, <2>2 DEF RequestIsWhole, AnswerIsKeyed, ListingKeepsUp
  <2>3. CASE d = c
    BY <1>1, <1>2, <1>3, <1>4, <1>5, <1>9, <2>1, <2>3 DEF RequestIsWhole, AnswerIsKeyed,
          ListingKeepsUp
  <2> QED
    BY <2>2, <2>3
<1> QED
  BY <1>6, <1>7, <1>8, <1>10 DEF SubmissionInv

(* A new key: its message, key and audit are stored together or not at all. *)
LEMMA CreateKeeps ==
    ASSUME SubmissionInv, NEW c \in Callers, NEW id \in MessageIds, NEW lost \in BOOLEAN,
           CreateOutbound(c, id, lost)
    PROVE  SubmissionInv'
<1> DEFINE input == client[c].input
           key == client[c].key
           done == Sendable(input) /\ AuditFits(c, id)
           outcome == IF done THEN "accepted" ELSE IF Sendable(input) THEN "conflict" ELSE "refused"
           stored == [digest |-> CanonicalDigest(input), id |-> id]
<1>1. /\ client[c].pc = "submit" /\ idempotency[key] = Unset /\ outbound[id] = Unset
      /\ Answers(c, outcome, id, lost)
      /\ done => /\ outbound' = [outbound EXCEPT ![id] = CanonicalDigest(input)]
                 /\ idempotency' = [idempotency EXCEPT ![key] = stored]
                 /\ audits' = Audited(c, id)
      /\ ~done => UNCHANGED <<idempotency, outbound, audits>>
  BY DEF CreateOutbound
<1>2. key \in IdemKeys /\ input \in SendInputs
  BY <1>1 DEF SubmissionInv, RequestIsWhole
<1>3. outcome \in {"accepted", "conflict", "refused"} /\ (outcome = "accepted" <=> done)
  OBVIOUS
<1> HIDE DEF outcome
<1>4. /\ client' \in [Callers -> ClientRow]
      /\ \A d \in Callers : d # c => client'[d] = client[d]
      /\ client'[c].key = key /\ client'[c].input = input
      /\ client'[c].after = client[c].after /\ client'[c].owed = client[c].owed
      /\ client'[c].pc \in {"accepted", "conflict", "refused", "lost"}
      /\ client'[c].pc = "accepted" => outcome = "accepted" /\ client'[c].answer = id
  BY <1>1, <1>3, AnswerReaches
<1> HIDE DEF done
<1>5. /\ idempotency \in [IdemKeys -> {Unset} \cup [digest : Digests, id : MessageIds]]
      /\ outbound \in [MessageIds -> {Unset} \cup Digests]
  BY DEF SubmissionInv, SubmissionTypeOK
<1>6. stored \in [digest : Digests, id : MessageIds] /\ stored.id = id /\ stored.digest = CanonicalDigest(input)
      /\ stored # Unset /\ CanonicalDigest(input) # Unset /\ CanonicalDigest(input) \in Digests
  BY <1>2, UnsetIsNoRow DEF Digests
<1> HIDE DEF stored, input, key
<1>7. /\ \A k \in IdemKeys : idempotency[k] # Unset => idempotency'[k] = idempotency[k]
      /\ \A m \in MessageIds : outbound[m] # Unset => outbound'[m] = outbound[m]
      /\ done => idempotency'[key] = stored /\ outbound'[id] = CanonicalDigest(input)
      /\ \A k \in IdemKeys : k # key \/ ~done => idempotency'[k] = idempotency[k]
      /\ \A m \in MessageIds : m # id \/ ~done => outbound'[m] = outbound[m]
      /\ idempotency' \in [IdemKeys -> {Unset} \cup [digest : Digests, id : MessageIds]]
      /\ outbound' \in [MessageIds -> {Unset} \cup Digests]
  BY <1>1, <1>2, <1>5, <1>6
<1>8. /\ audits' \in [Offsets -> {Unset} \cup [key : IdemKeys, id : MessageIds]]
      /\ AuditIsKeyed'
  BY <1>1, <1>2, <1>6, <1>7, AuditKept DEF key
<1>9. SubmissionTypeOK'
  BY <1>4, <1>7, <1>8 DEF SubmissionTypeOK
<1>10. \A k \in IdemKeys : idempotency[k] # Unset => idempotency[k].id # id /\ idempotency[k].id \in MessageIds
  <2>1. ASSUME NEW k \in IdemKeys, idempotency[k] # Unset
        PROVE  idempotency[k].id # id /\ idempotency[k].id \in MessageIds
    <3>1. idempotency[k] \in [digest : Digests, id : MessageIds]
      BY <1>5, <2>1
    <3>2. \A d \in Digests : d # Unset
      BY UnsetIsNoRow DEF Digests
    <3>3. outbound[idempotency[k].id] = idempotency[k].digest
      BY <2>1 DEF SubmissionInv, KeyIsStored
    <3> QED
      BY <1>1, <3>1, <3>2, <3>3
  <2> QED
    BY <2>1
<1>11. KeyIsStored'
  <2>1. ASSUME NEW k \in IdemKeys, idempotency'[k] # Unset
        PROVE  outbound'[idempotency'[k].id] = idempotency'[k].digest
    <3>1. CASE k = key /\ done
      BY <1>6, <1>7, <3>1
    <3>2. CASE k # key \/ ~done
      BY <1>7, <1>10, <2>1, <3>2 DEF SubmissionInv, KeyIsStored
    <3> QED
      BY <3>1, <3>2
  <2> QED
    BY <2>1 DEF KeyIsStored
<1>12. StoredIsKeyed'
  <2>1. ASSUME NEW m \in MessageIds, outbound'[m] # Unset
        PROVE  \E k \in IdemKeys : idempotency'[k] = [digest |-> outbound'[m], id |-> m]
    <3>1. CASE m = id /\ done
      BY <1>2, <1>7, <3>1 DEF stored
    <3>2. CASE m # id \/ ~done
      <4>1. outbound'[m] = outbound[m]
        BY <1>7, <3>2
      <4>2. PICK k \in IdemKeys : idempotency[k] = [digest |-> outbound[m], id |-> m]
        BY <2>1, <4>1 DEF SubmissionInv, StoredIsKeyed
      <4>3. k # key \/ ~done
        BY <1>1, <1>6, <1>7, <4>1, <4>2, <2>1, <3>2, UnsetIsNoRow, <1>5 DEF Digests
      <4> QED
        BY <1>7, <4>1, <4>2, <4>3
    <3> QED
      BY <3>1, <3>2
  <2> QED
    BY <2>1 DEF StoredIsKeyed
<1>13. KeysAreApart'
  <2>1. ASSUME NEW j \in IdemKeys, NEW k \in IdemKeys, j # k,
               idempotency'[j] # Unset, idempotency'[k] # Unset
        PROVE  idempotency'[j].id # idempotency'[k].id
    <3>1. CASE ~done \/ (j # key /\ k # key)
      BY <1>7, <2>1, <3>1 DEF SubmissionInv, KeysAreApart
    <3>2. CASE done /\ j = key
      BY <1>6, <1>7, <1>10, <2>1, <3>2
    <3>3. CASE done /\ k = key
      BY <1>6, <1>7, <1>10, <2>1, <3>3
    <3> QED
      BY <3>1, <3>2, <3>3
  <2> QED
    BY <2>1 DEF KeysAreApart
<1>14. StoredIds \subseteq StoredIds'
  BY <1>7 DEF StoredIds
<1>15. ASSUME NEW d \in Callers
       PROVE  RequestIsWhole(d)' /\ AnswerIsKeyed(d)' /\ ListingKeepsUp(d)'
  <2>1. RequestIsWhole(d) /\ AnswerIsKeyed(d) /\ ListingKeepsUp(d)
    BY DEF SubmissionInv
  <2>2. CASE d # c
    <3>1. client'[d] = client[d]
      BY <1>4, <2>2
    <3>2. AnswerIsKeyed(d)'
      <4>1. ASSUME client[d].pc \in {"accepted", "read"}
            PROVE  idempotency'[client[d].key] = idempotency[client[d].key]
        <5>1. /\ client[d].key \in IdemKeys /\ client[d].input \in SendInputs
              /\ client[d].answer \in MessageIds
              /\ idempotency[client[d].key] =
                    [digest |-> CanonicalDigest(client[d].input), id |-> client[d].answer]
          BY <2>1, <4>1 DEF RequestIsWhole, AnswerIsKeyed
        <5>2. idempotency[client[d].key] # Unset
          BY <5>1, UnsetIsNoRow
        <5> QED
          BY <1>7, <5>1, <5>2
      <4> QED
        BY <2>1, <3>1, <4>1 DEF AnswerIsKeyed
    <3> QED
      BY <1>14, <2>1, <3>1, <3>2 DEF RequestIsWhole, ListingKeepsUp
  <2>3. CASE d = c
    <3>1. AnswerIsKeyed(c)'
      BY <1>3, <1>4, <1>7 DEF AnswerIsKeyed, stored
    <3>2. RequestIsWhole(c)'
      BY <1>2, <1>4 DEF RequestIsWhole
    <3>3. ListingKeepsUp(c)'
      BY <1>1, <1>4, <1>14, <2>1, <2>3 DEF ListingKeepsUp
    <3> QED
      BY <2>3, <3>1, <3>2, <3>3
  <2> QED
    BY <2>2, <2>3
<1> QED
  BY <1>8, <1>9, <1>11, <1>12, <1>13, <1>15 DEF SubmissionInv

(* Every step keeps the invariant. *)
LEMMA SubmissionStepKeeps ==
    SubmissionInv /\ [SubmissionNext]_submissionVars => SubmissionInv'
<1> SUFFICES ASSUME SubmissionInv, [SubmissionNext]_submissionVars
             PROVE  SubmissionInv'
  OBVIOUS
<1>1. CASE UNCHANGED <<idempotency, outbound, audits, client>>
  BY <1>1 DEF SubmissionInv, SubmissionTypeOK, KeyIsStored, StoredIsKeyed, KeysAreApart,
        AuditIsKeyed, RequestIsWhole, AnswerIsKeyed, ListingKeepsUp, StoredIds
<1>2. ASSUME NEW c \in Callers, NEW key \in IdemKeys, NEW input \in SendInputs,
             NEW offset \in Offsets \cup {Unset}, SubmitMessage(c, key, input, offset)
      PROVE  SubmissionInv'
  BY <1>2, SubmitKeeps
<1>3. ASSUME NEW c \in Callers, NEW lost \in BOOLEAN, AnswerKnownKey(c, lost)
      PROVE  SubmissionInv'
  BY <1>3, KnownKeyKeeps
<1>4. ASSUME NEW c \in Callers, NEW lost \in BOOLEAN, NEW id \in MessageIds,
             CreateOutbound(c, id, lost)
      PROVE  SubmissionInv'
  BY <1>4, CreateKeeps
<1>5. ASSUME NEW c \in Callers, RepeatRequest(c) \/ GetMessage(c)
      PROVE  SubmissionInv'
  BY <1>5, RepeatAndReadKeep
<1>6. ASSUME NEW c \in Callers, ListMessages(c)
      PROVE  SubmissionInv'
  BY <1>6, ListKeeps
<1>7. RouteChanges \/ MediaBecomesReady \/ UNCHANGED submissionVars
        => UNCHANGED <<idempotency, outbound, audits, client>>
  BY DEF RouteChanges, MediaBecomesReady, submissionVars
<1> QED
  BY <1>1, <1>2, <1>3, <1>4, <1>5, <1>6, <1>7 DEF SubmissionNext

(* A key submits one message, however often requests are repeated, answers are
   lost and keys are shared; what was accepted can be read back and listed. *)
THEOREM SubmissionSubmitsOnce == SubmissionSpec => []SubmittedOnce
<1>1. SubmissionInv => SubmittedOnce
  <2> SUFFICES ASSUME SubmissionInv
               PROVE  SubmittedOnce
    OBVIOUS
  <2>1. ASSUME NEW c \in Callers
        PROVE  /\ client[c].pc \in {"accepted", "read"} =>
                     /\ idempotency[client[c].key] =
                           [digest |-> CanonicalDigest(client[c].input), id |-> client[c].answer]
                     /\ outbound[client[c].answer] = CanonicalDigest(client[c].input)
               /\ client[c].pc # "not_found"
               /\ client[c].pc = "listed" => client[c].owed \subseteq client[c].listed
    <3>1. RequestIsWhole(c) /\ AnswerIsKeyed(c) /\ ListingKeepsUp(c) /\ KeyIsStored
      BY DEF SubmissionInv
    <3>2. ASSUME client[c].pc \in {"accepted", "read"}
          PROVE  outbound[client[c].answer] = CanonicalDigest(client[c].input)
      BY <3>1, <3>2, UnsetIsNoRow DEF RequestIsWhole, AnswerIsKeyed, KeyIsStored
    <3> QED
      BY <3>1, <3>2 DEF AnswerIsKeyed, ListingKeepsUp
  <2>2. StoredIsKeyed /\ KeysAreApart /\ AuditIsKeyed
    BY DEF SubmissionInv
  <2> QED
    BY <2>1, <2>2 DEF SubmittedOnce, StoredIsKeyed, KeysAreApart, AuditIsKeyed, StoredIds
<1> QED
  BY <1>1, SubmissionInitially, SubmissionStepKeeps, PTL DEF SubmissionSpec

-----------------------------------------------------------------------------
(***************************************************************************)
(* Proof that the listing of a backfill moves on only after the            *)
(* conversations of its page. The inductive invariant is about the process *)
(* that owns the lease: what it asks for is still pending in the           *)
(* checkpoint, and its last page of a conversation is committed before it  *)
(* completes the item; what another process holds is fenced off by its     *)
(* token.                                                                  *)
(***************************************************************************)

\* What a page may list.
BackfillItems == [conv : Conversations, state : {"pending", "poisoned", "complete"}]

WorkerRow ==
    [step : {"idle", "asked", "answered", "poisoned"}, scope : Scopes,
     base : Cursors \cup {NoCursor}, id : Nat, next : Cursors \cup {NoCursor}, items : Pages]

CheckpointRow ==
    [id : Nat, next : Cursors \cup {NoCursor}, terminal : BOOLEAN, done : BOOLEAN,
     items : Seq(BackfillItems)]

BackfillTypeOK ==
    /\ LeaseTypeOK
    /\ committed \in [Scopes -> Cursors \cup {NoCursor}]
    /\ checkpoint \in CheckpointRow
    /\ worker \in [Owners -> WorkerRow]
    /\ moves \in Nat

\* A process that runs no generation has no invocation.
NoHolderNoWork == \A o \in Owners : held[o] = 0 => worker[o].step = "idle"

\* A page lists a conversation once.
ItemsAreApart ==
    \A i, j \in DOMAIN checkpoint.items :
        checkpoint.items[i].conv = checkpoint.items[j].conv => i = j

\* What the owner of the lease asks for is still pending.
OwnerAsksPending ==
    \A o \in Owners :
        OwnsLease(o) /\ worker[o].step # "idle" /\ worker[o].scope # Listing
          => \E i \in PendingItems : checkpoint.items[i].conv = worker[o].scope

\* The owner's last page is committed.
OwnerHasLastPage ==
    \A o \in Owners :
        OwnsLease(o) /\ worker[o].step = "answered" /\ worker[o].next = NoCursor
                     /\ worker[o].scope # Listing
          => worker[o].scope \in finished

CompleteIsFinished ==
    \A i \in DOMAIN checkpoint.items :
        checkpoint.items[i].state = "complete" => checkpoint.items[i].conv \in finished

BackfillInv ==
    /\ BackfillTypeOK /\ NoHolderNoWork /\ ItemsAreApart
    /\ OwnerAsksPending /\ OwnerHasLastPage /\ CompleteIsFinished

(* A page is a list of distinct conversations, none of them complete. *)
LEMMA PagesAreLists ==
    ASSUME NEW p \in Pages
    PROVE  /\ p \in Seq(BackfillItems)
           /\ \A i, j \in DOMAIN p : p[i].conv = p[j].conv => i = j
           /\ \A i \in DOMAIN p : p[i].state # "complete"
<1>1. CASE p = <<>>
  BY <1>1
<1>2. ASSUME NEW c \in Conversations, NEW s \in {"pending", "poisoned"},
             p = <<[conv |-> c, state |-> s]>>
      PROVE  /\ p \in Seq(BackfillItems)
             /\ \A i, j \in DOMAIN p : p[i].conv = p[j].conv => i = j
             /\ \A i \in DOMAIN p : p[i].state # "complete"
  BY <1>2 DEF BackfillItems
<1>3. ASSUME NEW c \in Conversations, NEW d \in Conversations, c # d,
             p = <<[conv |-> c, state |-> "pending"], [conv |-> d, state |-> "pending"]>>
      PROVE  /\ p \in Seq(BackfillItems)
             /\ \A i, j \in DOMAIN p : p[i].conv = p[j].conv => i = j
             /\ \A i \in DOMAIN p : p[i].state # "complete"
  BY <1>3 DEF BackfillItems
<1>4. \/ p = <<>>
      \/ \E c \in Conversations, s \in {"pending", "poisoned"} : p = <<[conv |-> c, state |-> s]>>
      \/ \E c, d \in Conversations :
            c # d /\ p = <<[conv |-> c, state |-> "pending"], [conv |-> d, state |-> "pending"]>>
  BY DEF Pages
<1> QED
  BY <1>1, <1>2, <1>3, <1>4

(* What a checkpoint lists. *)
LEMMA CheckpointLists ==
    ASSUME checkpoint \in CheckpointRow, NEW i \in DOMAIN checkpoint.items
    PROVE  checkpoint.items[i] \in BackfillItems /\ checkpoint.items[i].conv \in Conversations
<1>1. checkpoint.items \in Seq(BackfillItems)
  BY DEF CheckpointRow
<1>2. checkpoint.items[i] \in BackfillItems
  BY <1>1
<1> QED
  BY <1>2 DEF BackfillItems

(* The invariant holds before anything is asked. *)
LEMMA BackfillInitially == BackfillInit => BackfillInv
<1> SUFFICES ASSUME BackfillInit
             PROVE  BackfillInv
  OBVIOUS
<1> USE DEF BackfillInit
<1>1. LeaseTypeOK
  BY LeaseAssumption DEF LeaseInit, LeaseTypeOK, LeaseRow
<1>2. Resting \in WorkerRow /\ NoCheckpoint \in CheckpointRow
  BY DEF Resting, WorkerRow, NoCheckpoint, CheckpointRow, Scopes, Pages
<1>3. BackfillTypeOK
  BY <1>1, <1>2 DEF BackfillTypeOK
<1>4. NoHolderNoWork /\ OwnerAsksPending /\ OwnerHasLastPage
  BY DEF NoHolderNoWork, OwnerAsksPending, OwnerHasLastPage, Resting
<1>5. ItemsAreApart /\ CompleteIsFinished
  BY DEF ItemsAreApart, CompleteIsFinished, NoCheckpoint
<1> QED
  BY <1>3, <1>4, <1>5 DEF BackfillInv

(* The lease has one owner. *)
LEMMA OneLeaseOwner ==
    ASSUME NEW o, NEW p, OwnsLease(o), OwnsLease(p)
    PROVE  o = p
  BY DEF OwnsLease

(* An invocation that asks, fails or is answered with poison. *)
LEMMA AskKeeps ==
    ASSUME BackfillInv, NEW o \in Owners, Ask(o) \/ AskFails(o) \/ CommitPoisonedPage(o)
    PROVE  BackfillInv'
<1>1. /\ BackfillTypeOK /\ worker[o] \in WorkerRow /\ checkpoint \in CheckpointRow
      /\ UNCHANGED <<lease, held, committed, checkpoint, finished, moves>>
  BY DEF BackfillInv, BackfillTypeOK, Ask, AskFails, CommitPoisonedPage
<1>2. LeaseTypeOK' /\ ItemsAreApart' /\ CompleteIsFinished'
  BY <1>1 DEF BackfillInv, BackfillTypeOK, LeaseTypeOK, ItemsAreApart, CompleteIsFinished
<1>3. PICK r \in WorkerRow :
        /\ worker' = [worker EXCEPT ![o] = r]
        /\ r.step # "idle" => held[o] # 0
        /\ r.step # "idle" /\ r.scope # Listing /\ OwnsLease(o)
             => \E i \in PendingItems : checkpoint.items[i].conv = r.scope
        /\ r.step # "answered"
  <2>1. CASE Ask(o)
    <3> DEFINE scope == IF checkpoint.id = 0 THEN Listing ELSE checkpoint.items[FirstPending].conv
               r == [Resting EXCEPT !.step = "asked", !.scope = scope,
                                    !.base = committed[scope], !.id = checkpoint.id]
    <3>1. PendingItems # {} => FirstPending \in PendingItems
      <4> SUFFICES ASSUME PendingItems # {}
                   PROVE  FirstPending \in PendingItems
        OBVIOUS
      <4>1. PendingItems \in SUBSET Nat
        BY <1>1 DEF PendingItems, CheckpointRow
      <4>2. \E i \in PendingItems : \A j \in PendingItems : i <= j
        BY <4>1, SmallestExists
      <4> QED
        BY <4>2 DEF FirstPending
    <3>2. scope # Listing => FirstPending \in PendingItems /\ scope = checkpoint.items[FirstPending].conv
      BY <2>1, <3>1 DEF Ask
    <3>3. scope \in Scopes
      <4>1. CASE checkpoint.id = 0
        BY <4>1 DEF Scopes
      <4>2. CASE checkpoint.id # 0
        <5>1. FirstPending \in DOMAIN checkpoint.items
          BY <2>1, <3>1, <4>2 DEF Ask, PendingItems
        <5> QED
          BY <1>1, <4>2, <5>1, CheckpointLists DEF Scopes
      <4> QED
        BY <4>1, <4>2
    <3>4. committed[scope] \in Cursors \cup {NoCursor} /\ checkpoint.id \in Nat
      BY <1>1, <3>3 DEF BackfillTypeOK, CheckpointRow
    <3>5. worker' = [worker EXCEPT ![o] = r] /\ held[o] # 0
      BY <2>1 DEF Ask
    <3> HIDE DEF scope
    <3>6. Resting \in WorkerRow
      BY DEF Resting, WorkerRow, Scopes, Pages
    <3>7. r \in WorkerRow /\ r.step = "asked" /\ r.scope = scope
      BY <3>3, <3>4, <3>6 DEF WorkerRow
    <3> QED
      BY <3>2, <3>5, <3>7
  <2>2. CASE AskFails(o)
    <3>1. Resting \in WorkerRow /\ Resting.step = "idle"
      BY DEF Resting, WorkerRow, Scopes, Pages
    <3> QED
      BY <2>2, <3>1 DEF AskFails
  <2>3. CASE CommitPoisonedPage(o)
    <3> DEFINE r == [worker[o] EXCEPT !.step = "poisoned"]
    <3>1. r \in WorkerRow /\ r.step = "poisoned" /\ r.scope = worker[o].scope
      BY <1>1 DEF WorkerRow
    <3>2. worker' = [worker EXCEPT ![o] = r] /\ held[o] # 0 /\ worker[o].step = "asked"
      BY <1>1, <2>3 DEF CommitPoisonedPage, Poisoned, OwnsLease, BackfillTypeOK
    <3> QED
      BY <3>1, <3>2 DEF BackfillInv, OwnerAsksPending
  <2> QED
    BY <2>1, <2>2, <2>3
<1>4. BackfillTypeOK'
  BY <1>1, <1>2, <1>3 DEF BackfillTypeOK
<1>5. worker'[o] = r /\ \A p \in Owners : p # o => worker'[p] = worker[p]
  BY <1>1, <1>3 DEF BackfillTypeOK
<1>6. \A p : OwnsLease(p)' <=> OwnsLease(p)
  BY <1>1 DEF OwnsLease
<1>7. NoHolderNoWork'
  BY <1>1, <1>3, <1>5 DEF BackfillInv, NoHolderNoWork
<1>8. OwnerAsksPending'
  BY <1>1, <1>3, <1>5, <1>6 DEF BackfillInv, OwnerAsksPending, PendingItems
<1>9. OwnerHasLastPage'
  BY <1>1, <1>3, <1>5, <1>6 DEF BackfillInv, OwnerHasLastPage
<1> QED
  BY <1>2, <1>4, <1>7, <1>8, <1>9 DEF BackfillInv

(* A page that commits: the last one finishes its conversation; one with a
   further cursor reopens it, and the conversation is one that is pending. *)
LEMMA CommitPageKeeps ==
    ASSUME BackfillInv, NEW o \in Owners, NEW items \in Pages,
           CommitLastPage(o, items) \/ \E next \in Cursors : CommitCursorPage(o, next, items)
    PROVE  BackfillInv'
<1> DEFINE s == worker[o].scope
<1>1. /\ BackfillTypeOK /\ worker[o] \in WorkerRow /\ checkpoint \in CheckpointRow
      /\ worker[o].step = "asked" /\ OwnsLease(o)
      /\ UNCHANGED <<lease, held, checkpoint, moves>>
  BY DEF BackfillInv, BackfillTypeOK, CommitLastPage, CommitCursorPage
<1>2. LeaseTypeOK' /\ ItemsAreApart'
  BY <1>1 DEF BackfillInv, BackfillTypeOK, LeaseTypeOK, ItemsAreApart
<1>3. PICK r \in WorkerRow :
        /\ worker' = [worker EXCEPT ![o] = r]
        /\ r.scope = s
        /\ \/ r.step = "answered" /\ r.next = NoCursor
              /\ finished' = IF s = Listing THEN finished ELSE finished \cup {s}
           \/ r.step = "answered" /\ r.next # NoCursor /\ finished' = finished \ {s}
           \/ r.step = "poisoned" /\ finished' = finished
        /\ committed' \in [Scopes -> Cursors \cup {NoCursor}]
  <2>1. CASE CommitLastPage(o, items)
    <3> DEFINE r == [worker[o] EXCEPT !.step = "answered", !.next = NoCursor, !.items = items]
    <3>1. r \in WorkerRow /\ r.step = "answered" /\ r.next = NoCursor /\ r.scope = s
      BY <1>1 DEF WorkerRow
    <3>2. worker' = [worker EXCEPT ![o] = r]
      BY <1>1, <2>1 DEF CommitLastPage, Answered, BackfillTypeOK
    <3>3. finished' = IF s = Listing THEN finished ELSE finished \cup {s}
      BY <2>1 DEF CommitLastPage
    <3>4. committed' \in [Scopes -> Cursors \cup {NoCursor}]
      BY <1>1, <2>1 DEF CommitLastPage, BackfillTypeOK
    <3> QED
      BY <3>1, <3>2, <3>3, <3>4
  <2>2. ASSUME NEW next \in Cursors, CommitCursorPage(o, next, items)
        PROVE  \E r \in WorkerRow :
                 /\ worker' = [worker EXCEPT ![o] = r]
                 /\ r.scope = s
                 /\ \/ r.step = "answered" /\ r.next # NoCursor /\ finished' = finished \ {s}
                    \/ r.step = "poisoned" /\ finished' = finished
                 /\ committed' \in [Scopes -> Cursors \cup {NoCursor}]
    <3> DEFINE good == CursorVerdict(s, worker[o].base, next) \in {"known", "fresh"}
    <3>1. /\ good => /\ Answered(o, next, items)
                     /\ committed' = IF s = Listing THEN committed
                                     ELSE [committed EXCEPT ![s] = next]
                     /\ finished' = finished \ {s}
          /\ ~good => Poisoned(o) /\ UNCHANGED <<committed, finished>>
      BY <2>2 DEF CommitCursorPage
    <3> HIDE DEF good
    <3>2. committed' \in [Scopes -> Cursors \cup {NoCursor}]
      BY <1>1, <3>1 DEF BackfillTypeOK
    <3>3. CASE good
      <4> DEFINE r == [worker[o] EXCEPT !.step = "answered", !.next = next, !.items = items]
      <4>1. r \in WorkerRow /\ r.step = "answered" /\ r.next = next /\ r.scope = s
        BY <1>1 DEF WorkerRow
      <4>2. worker' = [worker EXCEPT ![o] = r]
        BY <1>1, <3>1, <3>3 DEF Answered, BackfillTypeOK
      <4> QED
        BY <3>1, <3>2, <3>3, <4>1, <4>2, BackfillAssumption
    <3>4. CASE ~good
      <4> DEFINE r == [worker[o] EXCEPT !.step = "poisoned"]
      <4>1. r \in WorkerRow /\ r.step = "poisoned" /\ r.scope = s
        BY <1>1 DEF WorkerRow
      <4>2. worker' = [worker EXCEPT ![o] = r]
        BY <1>1, <3>1, <3>4 DEF Poisoned, BackfillTypeOK
      <4> QED
        BY <3>1, <3>2, <3>4, <4>1, <4>2
    <3> QED
      BY <3>3, <3>4
  <2> QED
    BY <2>1, <2>2
<1>4. BackfillTypeOK'
  BY <1>1, <1>2, <1>3 DEF BackfillTypeOK
<1>5. worker'[o] = r /\ \A p \in Owners : p # o => worker'[p] = worker[p] /\ ~OwnsLease(p)
  BY <1>1, <1>3, OneLeaseOwner DEF BackfillTypeOK
<1>6. \A p : OwnsLease(p)' <=> OwnsLease(p)
  BY <1>1 DEF OwnsLease
<1>7. NoHolderNoWork'
  BY <1>1, <1>5 DEF BackfillInv, NoHolderNoWork, OwnsLease
<1>8. OwnerAsksPending'
  <2>1. s # Listing => \E i \in PendingItems : checkpoint.items[i].conv = s
    BY <1>1 DEF BackfillInv, OwnerAsksPending
  <2> QED
    BY <1>1, <1>3, <1>5, <1>6, <2>1 DEF OwnerAsksPending, PendingItems
<1>9. OwnerHasLastPage'
  BY <1>3, <1>5, <1>6 DEF OwnerHasLastPage
<1>10. CompleteIsFinished'
  <2> SUFFICES ASSUME NEW i \in DOMAIN checkpoint.items, checkpoint.items[i].state = "complete"
               PROVE  checkpoint.items[i].conv \in finished'
    BY <1>1 DEF CompleteIsFinished
  <2>1. checkpoint.items[i].conv \in finished
    BY DEF BackfillInv, CompleteIsFinished
  <2>2. checkpoint.items[i].conv # s
    <3>1. checkpoint.items[i].conv # Listing
      BY <1>1, BackfillAssumption, CheckpointLists
    <3>2. CASE s # Listing
      <4>1. PICK j \in PendingItems : checkpoint.items[j].conv = s
        BY <1>1, <3>2 DEF BackfillInv, OwnerAsksPending
      <4> QED
        BY <4>1 DEF BackfillInv, ItemsAreApart, PendingItems
    <3> QED
      BY <3>1, <3>2
  <2> QED
    BY <1>3, <2>1, <2>2
<1> QED
  BY <1>2, <1>4, <1>7, <1>8, <1>9, <1>10 DEF BackfillInv

(* A staged page has no complete conversation. *)
LEMMA StageKeeps ==
    ASSUME BackfillInv, NEW o \in Owners, StageBackfillPage(o)
    PROVE  BackfillInv'
<1> DEFINE c == [id |-> moves + 1, next |-> worker[o].next, terminal |-> worker[o].next = NoCursor,
                 done |-> FALSE, items |-> worker[o].items]
<1>1. /\ BackfillTypeOK /\ worker[o] \in WorkerRow /\ worker[o].items \in Pages
      /\ OwnsLease(o) /\ checkpoint' = c
      /\ worker' = [worker EXCEPT ![o] = Resting]
      /\ UNCHANGED <<lease, held, committed, moves>>
  BY DEF BackfillInv, BackfillTypeOK, StageBackfillPage, Done, WorkerRow
<1>2. /\ worker[o].items \in Seq(BackfillItems)
      /\ \A i, j \in DOMAIN worker[o].items :
            worker[o].items[i].conv = worker[o].items[j].conv => i = j
      /\ \A i \in DOMAIN worker[o].items : worker[o].items[i].state # "complete"
  BY <1>1, PagesAreLists
<1>3. c \in CheckpointRow /\ c.items = worker[o].items
  BY <1>1, <1>2 DEF CheckpointRow, BackfillTypeOK, WorkerRow
<1> HIDE DEF c
<1>4. Resting \in WorkerRow /\ Resting.step = "idle"
  BY DEF Resting, WorkerRow, Scopes, Pages
<1>5. BackfillTypeOK'
  BY <1>1, <1>3, <1>4 DEF BackfillTypeOK, LeaseTypeOK
<1>6. worker'[o] = Resting /\ \A p \in Owners : p # o => worker'[p] = worker[p] /\ ~OwnsLease(p)
  BY <1>1, OneLeaseOwner DEF BackfillTypeOK
<1>7. \A p : OwnsLease(p)' <=> OwnsLease(p)
  BY <1>1 DEF OwnsLease
<1>8. NoHolderNoWork' /\ OwnerAsksPending' /\ OwnerHasLastPage'
  BY <1>1, <1>4, <1>6, <1>7 DEF BackfillInv, NoHolderNoWork, OwnerAsksPending, OwnerHasLastPage
<1>9. ItemsAreApart' /\ CompleteIsFinished'
  BY <1>1, <1>2, <1>3 DEF ItemsAreApart, CompleteIsFinished
<1> QED
  BY <1>5, <1>8, <1>9 DEF BackfillInv

(* A conversation is marked complete once its last page is committed. *)
LEMMA MarkKeeps ==
    ASSUME BackfillInv, NEW o \in Owners, MarkBackfillItem(o)
    PROVE  BackfillInv'
<1> DEFINE state == IF worker[o].step = "poisoned" THEN "poisoned" ELSE "complete"
           i == ItemOf(o)
<1>1. /\ BackfillTypeOK /\ worker[o] \in WorkerRow /\ checkpoint \in CheckpointRow
      /\ worker[o].scope # Listing /\ OwnsLease(o) /\ worker[o].step # "idle"
      /\ state = "complete" => worker[o].step = "answered" /\ worker[o].next = NoCursor
      /\ i \in PendingItems
      /\ checkpoint' = [checkpoint EXCEPT !.items[i].state = state]
      /\ worker' = [worker EXCEPT ![o] = Resting]
      /\ UNCHANGED <<lease, held, committed, finished, moves>>
  BY DEF BackfillInv, BackfillTypeOK, MarkBackfillItem, Done
<1>2. checkpoint.items[i].conv = worker[o].scope
  <2>1. \E j \in DOMAIN checkpoint.items : checkpoint.items[j].conv = worker[o].scope
    BY <1>1 DEF BackfillInv, OwnerAsksPending, PendingItems
  <2> QED
    BY <2>1 DEF ItemOf
<1>3. state \in {"poisoned", "complete"} /\ i \in DOMAIN checkpoint.items
  BY <1>1 DEF PendingItems
<1>4. state = "complete" => worker[o].scope \in finished
  BY <1>1 DEF BackfillInv, OwnerHasLastPage
<1> HIDE DEF state, i
<1> DEFINE new == [checkpoint.items EXCEPT ![i].state = state]
<1>5. checkpoint.items \in Seq(BackfillItems)
  BY <1>1 DEF CheckpointRow
<1>6. /\ new \in Seq(BackfillItems) /\ DOMAIN new = DOMAIN checkpoint.items
      /\ \A j \in DOMAIN new : new[j].conv = checkpoint.items[j].conv
      /\ \A j \in DOMAIN new : j # i => new[j] = checkpoint.items[j]
      /\ new[i].state = state
  <2> DEFINE entry == [checkpoint.items[i] EXCEPT !.state = state]
  <2>1. checkpoint.items[i] \in BackfillItems
    BY <1>3, <1>5
  <2>2. entry \in BackfillItems /\ entry.state = state /\ entry.conv = checkpoint.items[i].conv
    BY <1>3, <2>1 DEF BackfillItems
  <2>3. new = [checkpoint.items EXCEPT ![i] = entry]
    OBVIOUS
  <2> HIDE DEF entry, new
  <2>4. new \in Seq(BackfillItems) /\ DOMAIN new = DOMAIN checkpoint.items
    BY <1>3, <1>5, <2>2, <2>3
  <2>5. \A j \in DOMAIN new : new[j] = IF j = i THEN entry ELSE checkpoint.items[j]
    BY <1>3, <1>5, <2>3, <2>4
  <2> QED
    BY <1>3, <2>2, <2>4, <2>5
<1>7. checkpoint' = [checkpoint EXCEPT !.items = new]
  BY <1>1
<1> HIDE DEF new
<1>8. checkpoint' \in CheckpointRow /\ checkpoint'.items = new
  BY <1>1, <1>6, <1>7 DEF CheckpointRow
<1>9. Resting \in WorkerRow /\ Resting.step = "idle"
  BY DEF Resting, WorkerRow, Scopes, Pages
<1>10. BackfillTypeOK'
  BY <1>1, <1>8, <1>9 DEF BackfillTypeOK, LeaseTypeOK
<1>11. worker'[o] = Resting /\ \A p \in Owners : p # o => worker'[p] = worker[p] /\ ~OwnsLease(p)
  BY <1>1, OneLeaseOwner DEF BackfillTypeOK
<1>12. \A p : OwnsLease(p)' <=> OwnsLease(p)
  BY <1>1 DEF OwnsLease
<1>13. NoHolderNoWork' /\ OwnerAsksPending' /\ OwnerHasLastPage'
  BY <1>1, <1>9, <1>11, <1>12 DEF BackfillInv, NoHolderNoWork, OwnerAsksPending, OwnerHasLastPage
<1>14. ItemsAreApart'
  BY <1>6, <1>8 DEF BackfillInv, ItemsAreApart
<1>15. CompleteIsFinished'
  <2> SUFFICES ASSUME NEW j \in DOMAIN new, new[j].state = "complete"
               PROVE  new[j].conv \in finished
    BY <1>1, <1>8 DEF CompleteIsFinished
  <2>1. CASE j = i
    BY <1>2, <1>3, <1>4, <1>6, <2>1
  <2>2. CASE j # i
    BY <1>6, <2>2 DEF BackfillInv, CompleteIsFinished
  <2> QED
    BY <2>1, <2>2
<1> QED
  BY <1>10, <1>13, <1>14, <1>15 DEF BackfillInv

(* The page is passed, or the scan is complete. *)
LEMMA CompleteKeeps ==
    ASSUME BackfillInv, NEW o \in Owners, CompleteBackfillPage(o)
    PROVE  BackfillInv'
<1>1. /\ BackfillTypeOK /\ checkpoint \in CheckpointRow
      /\ OwnsLease(o) /\ worker[o].step = "idle"
      /\ UNCHANGED <<lease, held, worker, finished>>
  BY DEF BackfillInv, BackfillTypeOK, CompleteBackfillPage
<1>2. /\ checkpoint' = [checkpoint EXCEPT !.done = TRUE] \/ checkpoint' = NoCheckpoint
      /\ committed' = committed \/ committed' = [committed EXCEPT ![Listing] = checkpoint.next]
      /\ moves' = moves \/ moves' = moves + 1
  BY DEF CompleteBackfillPage
<1>3. /\ checkpoint' \in CheckpointRow
      /\ checkpoint'.items = checkpoint.items \/ checkpoint'.items = <<>>
  <2>1. NoCheckpoint \in CheckpointRow /\ NoCheckpoint.items = <<>>
    BY DEF NoCheckpoint, CheckpointRow
  <2> QED
    BY <1>1, <1>2, <2>1 DEF CheckpointRow
<1>4. BackfillTypeOK'
  <2>1. moves' \in Nat /\ LeaseTypeOK' /\ worker' \in [Owners -> WorkerRow]
    BY <1>1, <1>2 DEF BackfillTypeOK, LeaseTypeOK
  <2>2. committed' \in [Scopes -> Cursors \cup {NoCursor}]
    BY <1>1, <1>2 DEF BackfillTypeOK, CheckpointRow
  <2> QED
    BY <1>3, <2>1, <2>2 DEF BackfillTypeOK
<1>5. \A p \in Owners : p # o => ~OwnsLease(p)
  BY <1>1, OneLeaseOwner
<1>6. \A p : OwnsLease(p)' <=> OwnsLease(p)
  BY <1>1 DEF OwnsLease
<1>7. NoHolderNoWork' /\ OwnerAsksPending' /\ OwnerHasLastPage'
  BY <1>1, <1>5, <1>6 DEF BackfillInv, NoHolderNoWork, OwnerAsksPending, OwnerHasLastPage
<1>8. ItemsAreApart' /\ CompleteIsFinished'
  BY <1>1, <1>3 DEF BackfillInv, ItemsAreApart, CompleteIsFinished
<1> QED
  BY <1>4, <1>7, <1>8 DEF BackfillInv

(* A step of the lease: a process that comes to own it has no invocation yet. *)
LEMMA BackfillLeaseKeeps ==
    ASSUME BackfillInv, BackfillLease
    PROVE  BackfillInv'
<1>1. /\ LeaseTypeOK /\ LeaseNext /\ worker \in [Owners -> WorkerRow]
      /\ worker' = [o \in Owners |-> IF held'[o] = 0 THEN Resting ELSE worker[o]]
      /\ UNCHANGED <<committed, checkpoint, finished, moves>>
  BY DEF BackfillInv, BackfillTypeOK, BackfillLease
<1>2. LeaseTypeOK'
  BY <1>1, LeaseTypeStep
<1>3. Resting \in WorkerRow /\ Resting.step = "idle"
  BY DEF Resting, WorkerRow, Scopes, Pages
<1>4. BackfillTypeOK'
  BY <1>1, <1>2, <1>3 DEF BackfillInv, BackfillTypeOK
<1>5. NoHolderNoWork'
  BY <1>1, <1>3 DEF NoHolderNoWork
<1>6. ASSUME NEW o \in Owners, OwnsLease(o)', worker'[o].step # "idle"
      PROVE  OwnsLease(o) /\ worker'[o] = worker[o]
  <2>1. worker'[o] = worker[o] /\ held[o] # 0
    BY <1>1, <1>3, <1>6 DEF BackfillInv, NoHolderNoWork
  <2>2. ASSUME NEW p \in Owners, AcquireConnectionLease(p)
        PROVE  OwnsLease(o)
    <3>1. p # o
      BY <2>1, <2>2 DEF AcquireConnectionLease
    <3> QED
      BY <1>6, <2>2, <3>1 DEF AcquireConnectionLease, OwnsLease
  <2>3. ASSUME NEW p \in Owners,
               ReleaseConnectionLease(p) \/ RenewRefused(p) \/ ReleaseLost(p)
        PROVE  OwnsLease(o)
    <3>1. p # o
      BY <1>1, <1>6, <2>3 DEF ReleaseConnectionLease, RenewRefused, ReleaseLost, OwnsLease,
            LeaseTypeOK
    <3>2. held'[o] = held[o]
      BY <1>1, <2>3, <3>1 DEF ReleaseConnectionLease, RenewRefused, ReleaseLost, LeaseTypeOK
    <3>3. lease' = lease \/ lease'.live = FALSE
      BY <1>1, <2>3 DEF ReleaseConnectionLease, RenewRefused, ReleaseLost, LeaseTypeOK, LeaseRow
    <3> QED
      BY <1>6, <3>2, <3>3 DEF OwnsLease
  <2>4. CASE FenceConnectionLease \/ LeaseLapses
    BY <1>1, <1>6, <2>4 DEF FenceConnectionLease, LeaseLapses, OwnsLease, LeaseTypeOK, LeaseRow
  <2> QED
    BY <1>1, <2>1, <2>2, <2>3, <2>4 DEF LeaseNext
<1>7. OwnerAsksPending' /\ OwnerHasLastPage'
  BY <1>1, <1>6 DEF BackfillInv, OwnerAsksPending, OwnerHasLastPage, PendingItems
<1>8. ItemsAreApart' /\ CompleteIsFinished'
  BY <1>1 DEF BackfillInv, ItemsAreApart, CompleteIsFinished
<1> QED
  BY <1>4, <1>5, <1>7, <1>8 DEF BackfillInv

(* Every step keeps the invariant. *)
LEMMA BackfillStepKeeps == BackfillInv /\ [BackfillNext]_backfillVars => BackfillInv'
<1> SUFFICES ASSUME BackfillInv, [BackfillNext]_backfillVars
             PROVE  BackfillInv'
  OBVIOUS
<1>1. CASE UNCHANGED backfillVars
  BY <1>1 DEF backfillVars, BackfillInv, BackfillTypeOK, LeaseTypeOK, NoHolderNoWork, ItemsAreApart,
        OwnerAsksPending, OwnerHasLastPage, CompleteIsFinished, PendingItems, OwnsLease
<1>2. ASSUME NEW o \in Owners, NEW items \in Pages,
             CommitLastPage(o, items) \/ \E next \in Cursors : CommitCursorPage(o, next, items)
      PROVE  BackfillInv'
  BY <1>2, CommitPageKeeps
<1> QED
  BY <1>1, <1>2, AskKeeps, StageKeeps, MarkKeeps, CompleteKeeps, BackfillLeaseKeeps DEF BackfillNext

(* The listing cursor moves, and a scan completes, only over a page whose
   conversations all have had their last message page committed. *)
THEOREM BackfillNeverSkipsChildren == BackfillSpec => ListingMovesAfterChildren
<1> DEFINE Over ==
      \/ committed'[Listing] # committed[Listing]
      \/ checkpoint'.done /\ ~checkpoint.done
      => \A i \in DOMAIN checkpoint.items :
            /\ checkpoint.items[i].state = "complete"
            /\ checkpoint.items[i].conv \in finished
<1>1. BackfillInv /\ [BackfillNext]_backfillVars => [Over]_backfillVars
  <2> SUFFICES ASSUME BackfillInv, BackfillNext
               PROVE  Over
    OBVIOUS
  <2>1. ASSUME NEW o \in Owners, CompleteBackfillPage(o)
        PROVE  Over
    BY <2>1 DEF CompleteBackfillPage, PageComplete, BackfillInv, CompleteIsFinished
  <2>2. CASE UNCHANGED <<committed, checkpoint>>
    BY <2>2
  <2>3. ASSUME NEW o \in Owners, NEW items \in Pages, NEW next \in Cursors,
               CommitCursorPage(o, next, items)
        PROVE  Over
    <3>1. checkpoint' = checkpoint
      BY <2>3 DEF CommitCursorPage
    <3>2. committed' = committed
          \/ (worker[o].scope # Listing /\ committed' = [committed EXCEPT ![worker[o].scope] = next])
      BY <2>3 DEF CommitCursorPage
    <3>3. committed'[Listing] = committed[Listing]
      BY <3>2 DEF BackfillInv, BackfillTypeOK, Scopes
    <3> QED
      BY <3>1, <3>3
  <2>4. ASSUME NEW o \in Owners, StageBackfillPage(o)
        PROVE  Over
    <3>1. checkpoint'.done = FALSE /\ committed' = committed
      BY <2>4 DEF StageBackfillPage
    <3> QED
      BY <3>1
  <2>5. ASSUME NEW o \in Owners, MarkBackfillItem(o)
        PROVE  Over
    <3>1. checkpoint'.done = checkpoint.done /\ committed' = committed
      BY <2>5 DEF MarkBackfillItem, BackfillInv, BackfillTypeOK, CheckpointRow
    <3> QED
      BY <3>1
  <2>6. ASSUME NEW o \in Owners, NEW items \in Pages,
               Ask(o) \/ AskFails(o) \/ CommitPoisonedPage(o) \/ CommitLastPage(o, items)
        PROVE  UNCHANGED <<committed, checkpoint>>
    BY <2>6 DEF Ask, AskFails, CommitPoisonedPage, CommitLastPage
  <2>7. ASSUME NEW o \in Owners, Ask(o) \/ AskFails(o) \/ CommitPoisonedPage(o)
        PROVE  UNCHANGED <<committed, checkpoint>>
    BY <2>7 DEF Ask, AskFails, CommitPoisonedPage
  <2>8. BackfillLease => UNCHANGED <<committed, checkpoint>>
    BY DEF BackfillLease
  <2> HIDE DEF Over
  <2> QED
    BY <2>1, <2>2, <2>3, <2>4, <2>5, <2>6, <2>7, <2>8 DEF BackfillNext
<1>2. BackfillInit /\ [][BackfillNext]_backfillVars => []BackfillInv
  BY BackfillInitially, BackfillStepKeeps, PTL
<1> QED
  BY <1>1, <1>2, PTL DEF BackfillSpec, ListingMovesAfterChildren

-----------------------------------------------------------------------------
(***************************************************************************)
(* Proof that a notification is durable before it is acknowledged and that *)
(* a message is announced once. The inductive invariant says that a row    *)
(* has its envelope and, unless poisoned, its message and an event, that   *)
(* what an open batch names is stored, and that an announced transition    *)
(* lies behind the state of its message.                                   *)
(***************************************************************************)

PoisonReasons == {"invalid_settings_snapshot", "decode_failed", "projection_invalid"}

IngressRow ==
    [disp : {"none", "inbox", "rejected"}, env : Envelopes \cup {None}, conflicted : BOOLEAN,
     poisoned : BOOLEAN, ack : BOOLEAN,
     reason : {"", "invalid_settings_snapshot", "decode_failed", "projection_invalid",
               "response_id_digest_conflict", "media_identity_conflict"}]

\* The states a projection gives a message.
ProjectedStates == CarrierStates \cup {"", "failed", "uncertain", "provider_accepted"}

IngressMessage ==
    [known : BOOLEAN, media : {e.media : e \in Envelopes} \cup {None}, state : ProjectedStates]

IngressTypeOK ==
    /\ row \in [Responses -> IngressRow]
    /\ message \in [Messages -> IngressMessage]
    /\ \A m \in Outbound : message[m].known /\ message[m].state # ""
    /\ wired \subseteq Responses
    /\ batch = [o \in Owners |-> [ids |-> batch[o].ids, admitted |-> batch[o].admitted,
                                  sent |-> batch[o].sent]]
    /\ \A o \in Owners : batch[o].admitted \subseteq Responses /\ batch[o].sent \in BOOLEAN

\* A row keeps its envelope; what is not poisoned has its message and an event.
RowIsProjected(r) ==
    /\ row[r].disp = "none" => ~row[r].ack
    /\ row[r].disp # "none" => row[r].env \in Envelopes
    /\ row[r].disp # "none" /\ ~row[r].poisoned =>
          /\ message[row[r].env.msg].known
          /\ \E ev \in events : ev.of = row[r].env.msg
    /\ row[r].reason = "invalid_settings_snapshot" =>
          row[r].env.kind = "settings" /\ row[r].disp = "inbox" /\ row[r].poisoned /\ ~row[r].ack

\* What an open batch names is pending, and there is one open batch.
BatchIsPending ==
    /\ \A o \in Owners : \A r \in batch[o].admitted : row[r].ack /\ ~row[r].conflicted
    /\ \A o, p \in Owners : batch[o].admitted # {} /\ batch[p].admitted # {} => o = p

WiredIsStored == \A r \in wired : row[r].disp # "none"

\* A message is announced with one event, and a transition that was announced lies
\* behind the message's state.
EventsAreSemantic ==
    \A ev \in events :
        /\ ev.type = "message.received" =>
              ev = [type |-> "message.received", of |-> ev.of, content |-> None]
        /\ ev.type = "message.<state>" =>
              /\ ev.of \in Outbound /\ ev.state \in CarrierStates \cup {"failed"}
              /\ MessageStateRank[ev.state] <= MessageStateRank[message[ev.of].state]

IngressInv ==
    /\ IngressTypeOK /\ BatchIsPending /\ WiredIsStored /\ EventsAreSemantic
    /\ \A r \in Responses : RowIsProjected(r)

(* What a receipt's state makes of the state a message is in: it stays, or it
   moves to the receipt's state, which ranks higher. *)
LEMMA ReceiptRaises ==
    ASSUME NEW cur \in CarrierStates \cup {"failed", "uncertain", "provider_accepted"},
           NEW obs \in CarrierStates \cup {"failed"}
    PROVE  Observe(cur, obs) = cur
           \/ (Observe(cur, obs) = obs /\ MessageStateRank[cur] < MessageStateRank[obs])
<1> DEFINE rank(s) == MessageStateRank[s]
           to(c, n) == Observe(c, n)
<1>1. /\ rank("provider_accepted") = 3 /\ rank("uncertain") = 3
      /\ rank("sent") = 5 /\ rank("delivered") = 6
      /\ rank("read") = 7 /\ rank("failed") = 8
  BY DEF MessageStateRank, MessageStates
<1>2. cur \in {"provider_accepted", "uncertain", "sent", "delivered", "read", "failed"}
  BY DEF CarrierStates
<1>3. obs \in {"sent", "delivered", "read", "failed"}
  BY DEF CarrierStates
<1>4. ASSUME obs = "failed"
      PROVE  to(cur, obs) = IF rank(cur) < 5 THEN obs ELSE cur
  BY <1>1, <1>4 DEF Observe
<1>5. ASSUME obs # "failed"
      PROVE  to(cur, obs) = IF cur = "uncertain" \/ (cur # "failed" /\ rank(obs) >= rank(cur))
                              THEN obs ELSE cur
  BY <1>3, <1>5 DEF Observe
<1> SUFFICES to(cur, obs) = cur \/ (to(cur, obs) = obs /\ rank(cur) < rank(obs))
  OBVIOUS
<1> HIDE DEF rank, to
<1>6. CASE obs = "failed"
  <2>1. rank(obs) = 8 /\ rank(cur) \in {3, 5, 6, 7, 8}
    BY <1>1, <1>2, <1>6
  <2> QED
    BY <1>4, <1>6, <2>1
<1>7. CASE obs # "failed"
  <2>1. rank(obs) \in 5..7
    <3>1. obs = "sent" \/ obs = "delivered" \/ obs = "read"
      BY <1>3, <1>7
    <3> QED
      BY <1>1, <3>1
  <2>2. CASE cur = "provider_accepted"
    BY <1>1, <1>5, <1>7, <2>1, <2>2
  <2>3. CASE cur = "uncertain"
    BY <1>1, <1>5, <1>7, <2>1, <2>3
  <2>4. CASE cur = "failed"
    BY <1>5, <1>7, <2>4
  <2>5. CASE cur \in {"sent", "delivered", "read"}
    BY <1>1, <1>3, <1>5, <1>7, <2>5
  <2> QED
    BY <1>2, <2>2, <2>3, <2>4, <2>5
<1> QED
  BY <1>6, <1>7

(* A comparison has a truth value. *)
LEMMA DifferenceIsBoolean == ASSUME NEW x, NEW y PROVE (x # y) \in BOOLEAN
OBVIOUS

(* Membership has one, too. *)
LEMMA MembershipIsBoolean == ASSUME NEW S, NEW x PROVE (x \in S) \in BOOLEAN
OBVIOUS

(* The invariant holds before the first delivery. *)
LEMMA IngressInitially == IngressInit => IngressInv
<1> SUFFICES ASSUME IngressInit
             PROVE  IngressInv
  OBVIOUS
<1> USE IngressAssumption DEF IngressInit
<1>1. NoRow \in IngressRow
  BY DEF NoRow, IngressRow
<1>2. IngressTypeOK
  <2>1. message \in [Messages -> IngressMessage]
    <3> SUFFICES ASSUME NEW m \in Messages
                 PROVE  [known |-> m \in Outbound, media |-> None,
                         state |-> IF m \in Outbound THEN "provider_accepted" ELSE ""]
                           \in IngressMessage
      OBVIOUS
    <3>1. (IF m \in Outbound THEN "provider_accepted" ELSE "") \in ProjectedStates
      BY DEF ProjectedStates
    <3> DEFINE s == IF m \in Outbound THEN "provider_accepted" ELSE ""
               k == m \in Outbound
    <3>4. k \in BOOLEAN
      BY MembershipIsBoolean
    <3>2. s \in ProjectedStates /\ k \in BOOLEAN
      BY <3>1, <3>4
    <3> HIDE DEF s, k
    <3>3. [known |-> k, media |-> None, state |-> s] \in IngressMessage
      BY <3>2 DEF IngressMessage
    <3> QED
      BY <3>3 DEF s, k
  <2>2. \A m \in Outbound : message[m].known /\ message[m].state # ""
    OBVIOUS
  <2>3. \A o \in Owners : batch[o].admitted \subseteq Responses /\ batch[o].sent \in BOOLEAN
    BY DEF Idle
  <2>4. batch = [o \in Owners |-> [ids |-> batch[o].ids, admitted |-> batch[o].admitted,
                                   sent |-> batch[o].sent]]
    BY DEF Idle
  <2> QED
    BY <1>1, <2>1, <2>2, <2>3, <2>4 DEF IngressTypeOK
<1>3. BatchIsPending /\ WiredIsStored /\ EventsAreSemantic
  BY DEF BatchIsPending, WiredIsStored, EventsAreSemantic, Idle
<1>4. \A r \in Responses : RowIsProjected(r)
  BY DEF RowIsProjected, NoRow
<1> QED
  BY <1>2, <1>3, <1>4 DEF IngressInv

(* A step that writes no row, no message and no event keeps what is said of them. *)
LEMMA StoreKept ==
    ASSUME IngressInv, UNCHANGED storeVars
    PROVE  /\ row' \in [Responses -> IngressRow] /\ message' \in [Messages -> IngressMessage]
           /\ \A m \in Outbound : message'[m].known /\ message'[m].state # ""
           /\ EventsAreSemantic' /\ \A r \in Responses : RowIsProjected(r)'
  BY DEF IngressInv, IngressTypeOK, storeVars, EventsAreSemantic, RowIsProjected

(* A step of one client that leaves it with an empty batch or the one it had. *)
LEMMA ClientStepKeeps ==
    ASSUME IngressInv, UNCHANGED storeVars, wired' = wired, NEW o \in Owners,
           batch' = batch \/ batch' = [batch EXCEPT ![o] = Idle]
    PROVE  IngressInv'
<1>1. /\ row' \in [Responses -> IngressRow] /\ message' \in [Messages -> IngressMessage]
      /\ \A m \in Outbound : message'[m].known /\ message'[m].state # ""
      /\ EventsAreSemantic' /\ \A r \in Responses : RowIsProjected(r)'
  BY StoreKept
<1>2. \A p \in Owners : batch'[p] = batch[p] \/ batch'[p] = Idle
  BY DEF IngressInv, IngressTypeOK
<1>3. Idle = [ids |-> Idle.ids, admitted |-> Idle.admitted, sent |-> Idle.sent]
      /\ Idle.admitted = {} /\ Idle.sent = FALSE
  BY DEF Idle
<1>4. batch' = [p \in Owners |-> [ids |-> batch'[p].ids, admitted |-> batch'[p].admitted,
                                  sent |-> batch'[p].sent]]
  BY <1>2, <1>3 DEF IngressInv, IngressTypeOK
<1>5. \A p \in Owners : batch'[p].admitted \subseteq Responses /\ batch'[p].sent \in BOOLEAN
  BY <1>2, <1>3 DEF IngressInv, IngressTypeOK
<1>6. IngressTypeOK'
  BY <1>1, <1>4, <1>5 DEF IngressInv, IngressTypeOK
<1>7. BatchIsPending'
  BY <1>2, <1>3 DEF IngressInv, BatchIsPending, storeVars
<1>8. WiredIsStored'
  BY DEF IngressInv, WiredIsStored, storeVars
<1> QED
  BY <1>1, <1>6, <1>7, <1>8 DEF IngressInv

(* A step that touches none of the rows, batches and requests. *)
LEMMA UnchangedKeeps ==
    ASSUME IngressInv, UNCHANGED storeVars, wired' = wired, batch' = batch
    PROVE  IngressInv'
  BY DEF IngressInv, IngressTypeOK, BatchIsPending, WiredIsStored, EventsAreSemantic,
         RowIsProjected, storeVars

(* Admission opens a batch of pending responses while no other is open. *)
LEMMA AdmitKeeps ==
    ASSUME IngressInv, NEW o \in Owners, AdmitACKs(o)
    PROVE  IngressInv'
<1> DEFINE admitted == Admitted(Batch(queue[o]))
           b == [ids |-> Batch(queue[o]), admitted |-> admitted, sent |-> FALSE]
<1>1. UNCHANGED storeVars /\ wired' = wired /\ Unlocked
  BY DEF AdmitACKs
<1>2. CASE batch' = batch
  BY <1>1, <1>2, ClientStepKeeps
<1>3. CASE batch' = [batch EXCEPT ![o] = b]
  <2>1. /\ row' \in [Responses -> IngressRow] /\ message' \in [Messages -> IngressMessage]
        /\ \A m \in Outbound : message'[m].known /\ message'[m].state # ""
        /\ EventsAreSemantic' /\ \A r \in Responses : RowIsProjected(r)'
    BY <1>1, StoreKept
  <2>2. admitted \subseteq Responses /\ \A r \in admitted : row[r].ack /\ ~row[r].conflicted
    BY DEF Admitted, PendingACK
  <2>3. /\ b = [ids |-> b.ids, admitted |-> b.admitted, sent |-> b.sent]
        /\ b.admitted = admitted /\ b.sent = FALSE
    OBVIOUS
  <2> HIDE DEF b, admitted
  <2>4. \A p \in Owners : batch'[p] = IF p = o THEN b ELSE batch[p]
    BY <1>3 DEF IngressInv, IngressTypeOK
  <2>5. batch' = [p \in Owners |-> [ids |-> batch'[p].ids, admitted |-> batch'[p].admitted,
                                    sent |-> batch'[p].sent]]
    BY <1>3, <2>3, <2>4 DEF IngressInv, IngressTypeOK
  <2>6. \A p \in Owners : batch'[p].admitted \subseteq Responses /\ batch'[p].sent \in BOOLEAN
    BY <2>2, <2>3, <2>4 DEF IngressInv, IngressTypeOK
  <2>7. IngressTypeOK'
    BY <1>1, <2>1, <2>5, <2>6 DEF IngressInv, IngressTypeOK
  <2>8. BatchIsPending'
    BY <1>1, <2>2, <2>3, <2>4 DEF IngressInv, BatchIsPending, Unlocked, storeVars
  <2>9. WiredIsStored'
    BY <1>1 DEF IngressInv, WiredIsStored, storeVars
  <2> QED
    BY <2>1, <2>7, <2>8, <2>9 DEF IngressInv
<1> QED
  BY <1>2, <1>3 DEF AdmitACKs

(* A request on the wire names what was admitted. *)
LEMMA SendKeeps ==
    ASSUME IngressInv, NEW o \in Owners, SendACKBatch(o)
    PROVE  IngressInv'
<1>1. /\ UNCHANGED storeVars /\ wired' = wired \cup batch[o].admitted
      /\ batch' = [batch EXCEPT ![o].sent = TRUE]
  BY DEF SendACKBatch
<1>2. /\ row' \in [Responses -> IngressRow] /\ message' \in [Messages -> IngressMessage]
      /\ \A m \in Outbound : message'[m].known /\ message'[m].state # ""
      /\ EventsAreSemantic' /\ \A r \in Responses : RowIsProjected(r)'
  BY <1>1, StoreKept
<1>3. /\ \A p \in Owners : batch'[p].admitted = batch[p].admitted /\ batch'[p].sent \in BOOLEAN
      /\ batch' = [p \in Owners |-> [ids |-> batch'[p].ids, admitted |-> batch'[p].admitted,
                                     sent |-> batch'[p].sent]]
  <2> DEFINE b == [batch[o] EXCEPT !.sent = TRUE]
  <2>1. batch[o] = [ids |-> batch[o].ids, admitted |-> batch[o].admitted, sent |-> batch[o].sent]
    BY DEF IngressInv, IngressTypeOK
  <2> DEFINE Form == [ids : {batch[o].ids}, admitted : {batch[o].admitted}, sent : BOOLEAN]
  <2>5. batch[o] \in Form
    BY <2>1 DEF IngressInv, IngressTypeOK
  <2>6. b \in Form /\ b.sent = TRUE
    BY <2>5
  <2> HIDE DEF b
  <2>2. /\ b = [ids |-> b.ids, admitted |-> b.admitted, sent |-> b.sent]
        /\ b.admitted = batch[o].admitted /\ b.sent = TRUE
    BY <2>6
  <2>3. batch' = [batch EXCEPT ![o] = b]
    BY <1>1 DEF b
  <2>4. \A p \in Owners : batch'[p] = IF p = o THEN b ELSE batch[p]
    BY <2>3 DEF IngressInv, IngressTypeOK
  <2> QED
    BY <2>2, <2>3, <2>4 DEF IngressInv, IngressTypeOK
<1>4. IngressTypeOK'
  BY <1>1, <1>2, <1>3 DEF IngressInv, IngressTypeOK
<1>5. BatchIsPending'
  BY <1>1, <1>3 DEF IngressInv, BatchIsPending, storeVars
<1>6. WiredIsStored'
  <2>1. \A r \in batch[o].admitted : row[r].ack /\ r \in Responses
    BY DEF IngressInv, BatchIsPending, IngressTypeOK
  <2>2. \A r \in batch[o].admitted : row[r].disp # "none"
    BY <2>1 DEF IngressInv, RowIsProjected
  <2> QED
    BY <1>1, <2>2 DEF IngressInv, WiredIsStored, storeVars
<1> QED
  BY <1>2, <1>4, <1>5, <1>6 DEF IngressInv

(* A settled batch closes, and the rows it names owe no acknowledgement. *)
LEMMA AckCompleteKeeps ==
    ASSUME IngressInv, NEW o \in Owners, CompleteACKs(o)
    PROVE  IngressInv'
<1> DEFINE done == batch[o].admitted
<1>1. /\ row' = [r \in Responses |-> [row[r] EXCEPT !.ack = row[r].ack /\ r \notin done]]
      /\ batch' = [batch EXCEPT ![o] = Idle]
      /\ UNCHANGED <<message, events, wired>>
  BY DEF CompleteACKs
<1> HIDE DEF done
<1>2. ASSUME NEW r \in Responses
      PROVE  /\ row'[r] \in IngressRow
             /\ row'[r].disp = row[r].disp /\ row'[r].env = row[r].env
             /\ row'[r].conflicted = row[r].conflicted /\ row'[r].poisoned = row[r].poisoned
             /\ row'[r].reason = row[r].reason
             /\ row'[r].ack <=> (row[r].ack /\ r \notin done)
  <2>1. row[r] \in IngressRow
    BY DEF IngressInv, IngressTypeOK
  <2> DEFINE a == row[r].ack /\ r \notin done
  <2>2. a \in BOOLEAN
    BY SMT
  <2>3. row'[r] = [row[r] EXCEPT !.ack = a]
    BY <1>1
  <2>4. a <=> (row[r].ack /\ r \notin done)
    OBVIOUS
  <2> HIDE DEF a
  <2>5. [row[r] EXCEPT !.ack = a] \in IngressRow
    BY <2>1, <2>2 DEF IngressRow
  <2>6. [row[r] EXCEPT !.ack = a].ack = a
    BY <2>1 DEF IngressRow
  <2> QED
    BY <2>1, <2>3, <2>4, <2>5, <2>6 DEF IngressRow
<1>3. row' \in [Responses -> IngressRow]
  BY <1>1, <1>2
<1>4. \A p \in Owners : batch'[p] = IF p = o THEN Idle ELSE batch[p]
  BY <1>1 DEF IngressInv, IngressTypeOK
<1>5. Idle = [ids |-> Idle.ids, admitted |-> Idle.admitted, sent |-> Idle.sent]
      /\ Idle.admitted = {} /\ Idle.sent = FALSE
  BY DEF Idle
<1>6. batch' = [p \in Owners |-> [ids |-> batch'[p].ids, admitted |-> batch'[p].admitted,
                                  sent |-> batch'[p].sent]]
  BY <1>1, <1>4, <1>5 DEF IngressInv, IngressTypeOK
<1>7. \A p \in Owners : batch'[p].admitted \subseteq Responses /\ batch'[p].sent \in BOOLEAN
  BY <1>4, <1>5 DEF IngressInv, IngressTypeOK
<1>8. IngressTypeOK'
  BY <1>1, <1>3, <1>6, <1>7 DEF IngressInv, IngressTypeOK
<1>9. BatchIsPending'
  <2>1. \A p \in Owners : p # o => (batch[p].admitted # {} => done = {})
    BY DEF IngressInv, BatchIsPending, done
  <2>2. \A p \in Owners : batch'[p].admitted # {} => p # o /\ batch'[p].admitted = batch[p].admitted
    BY <1>4, <1>5
  <2>3. ASSUME NEW p \in Owners, NEW r \in batch'[p].admitted
        PROVE  row'[r].ack /\ ~row'[r].conflicted
    <3>1. p # o /\ r \in batch[p].admitted /\ done = {} /\ r \in Responses
      BY <1>7, <2>1, <2>2, <2>3
    <3>2. row[r].ack /\ ~row[r].conflicted
      BY <3>1 DEF IngressInv, BatchIsPending
    <3> QED
      BY <1>2, <3>1, <3>2
  <2> QED
    BY <2>2, <2>3 DEF IngressInv, BatchIsPending
<1>10. WiredIsStored'
  BY <1>1, <1>2 DEF IngressInv, IngressTypeOK, WiredIsStored
<1>11. \A r \in Responses : RowIsProjected(r)'
  <2> SUFFICES ASSUME NEW r \in Responses
               PROVE  RowIsProjected(r)'
    OBVIOUS
  <2>1. RowIsProjected(r)
    BY DEF IngressInv
  <2> QED
    BY <1>1, <1>2, <2>1 DEF RowIsProjected
<1>12. EventsAreSemantic'
  BY <1>1 DEF IngressInv, EventsAreSemantic
<1> QED
  BY <1>8, <1>9, <1>10, <1>11, <1>12 DEF IngressInv

(* A transaction that writes the row of one response while no batch is open,
   and forgets no message and no event. *)
LEMMA RowWritten ==
    ASSUME IngressInv, Unlocked, batch' = batch, wired' = wired,
           NEW r \in Responses, NEW new \in IngressRow,
           row' = [row EXCEPT ![r] = new],
           message' \in [Messages -> IngressMessage],
           \A m \in Outbound : message'[m].known /\ message'[m].state # "",
           \A m \in Messages : message[m].known => message'[m].known,
           events \subseteq events', EventsAreSemantic',
           new.disp # "none", new.env \in Envelopes,
           ~new.poisoned => /\ message'[new.env.msg].known
                            /\ \E ev \in events' : ev.of = new.env.msg,
           new.reason = "invalid_settings_snapshot" =>
              new.env.kind = "settings" /\ new.disp = "inbox" /\ new.poisoned /\ ~new.ack
    PROVE  IngressInv'
<1>1. row' \in [Responses -> IngressRow]
      /\ \A s \in Responses : row'[s] = IF s = r THEN new ELSE row[s]
  BY DEF IngressInv, IngressTypeOK
<1>2. IngressTypeOK'
  BY <1>1 DEF IngressInv, IngressTypeOK
<1>3. BatchIsPending'
  BY DEF BatchIsPending, Unlocked
<1>4. WiredIsStored'
  BY <1>1 DEF IngressInv, IngressTypeOK, WiredIsStored
<1>5. ASSUME NEW s \in Responses PROVE RowIsProjected(s)'
  <2>1. CASE s = r
    BY <1>1, <2>1 DEF RowIsProjected
  <2>2. CASE s # r
    <3>1. row'[s] = row[s] /\ RowIsProjected(s)
      BY <1>1, <2>2 DEF IngressInv
    <3>2. row[s].disp # "none" => row[s].env.msg \in Messages
      BY <3>1, IngressAssumption DEF RowIsProjected
    <3> QED
      BY <3>1, <3>2 DEF RowIsProjected
  <2> QED
    BY <2>1, <2>2
<1> QED
  BY <1>2, <1>3, <1>4, <1>5 DEF IngressInv

(* The row of an envelope that is projected. *)
LEMMA NewRowType ==
    ASSUME NEW e \in Envelopes
    PROVE  /\ NewRow(e, FALSE, "") \in IngressRow
           /\ NewRow(e, FALSE, "").disp = "inbox" /\ NewRow(e, FALSE, "").env = e
           /\ NewRow(e, FALSE, "").reason = ""
<1> DEFINE a == e.kind # "settings"
<1>1. a \in BOOLEAN
  BY DifferenceIsBoolean
<1> HIDE DEF a
<1>2. NewRow(e, FALSE, "") \in IngressRow
  BY <1>1 DEF NewRow, IngressRow, a
<1> QED
  BY <1>2 DEF NewRow

(* The row of an envelope that is not. *)
LEMMA NewPoisonType ==
    ASSUME NEW e \in Envelopes, NEW reason \in PoisonReasons
    PROVE  /\ NewRow(e, TRUE, reason) \in IngressRow
           /\ NewRow(e, TRUE, reason).disp = "inbox" /\ NewRow(e, TRUE, reason).env = e
           /\ NewRow(e, TRUE, reason).poisoned /\ NewRow(e, TRUE, reason).reason = reason
           /\ NewRow(e, TRUE, reason).ack <=> e.kind # "settings"
<1> DEFINE a == e.kind # "settings"
<1>1. a \in BOOLEAN
  BY DifferenceIsBoolean
<1>2. a <=> e.kind # "settings"
  OBVIOUS
<1> HIDE DEF a
<1>3. NewRow(e, TRUE, reason) \in IngressRow
  BY <1>1 DEF NewRow, IngressRow, PoisonReasons, a
<1>4. /\ NewRow(e, TRUE, reason).disp = "inbox" /\ NewRow(e, TRUE, reason).env = e
      /\ NewRow(e, TRUE, reason).poisoned /\ NewRow(e, TRUE, reason).reason = reason
  BY DEF NewRow
<1>5. NewRow(e, TRUE, reason).ack = a
  BY DEF NewRow, a
<1>6. NewRow(e, TRUE, reason).ack <=> e.kind # "settings"
  BY <1>2, <1>5
<1> QED
  BY <1>3, <1>4, <1>6

(* What becomes of a row that is found poisoned. *)
LEMMA PoisonedRowType ==
    ASSUME NEW entry \in IngressRow,
           NEW reason \in {"response_id_digest_conflict", "media_identity_conflict"}
    PROVE  LET new == FinalizeProviderPoison(entry, reason) IN
           /\ new \in IngressRow /\ new.env = entry.env /\ new.poisoned /\ new.reason = reason
           /\ entry.disp # "none" => new.disp # "none"
<1> DEFINE a == ~entry.conflicted
           kept == [entry EXCEPT !.poisoned = TRUE, !.reason = reason]
           compact == [entry EXCEPT !.poisoned = TRUE, !.reason = reason,
                                    !.disp = "rejected", !.ack = a]
<1>1. a \in BOOLEAN
  BY DEF IngressRow
<1>2. FinalizeProviderPoison(entry, reason) \in {kept, compact}
  BY DEF FinalizeProviderPoison
<1> HIDE DEF a
<1>3. kept \in IngressRow /\ kept.env = entry.env /\ kept.poisoned /\ kept.reason = reason
      /\ kept.disp = entry.disp
  BY DEF IngressRow
<1>4. compact \in IngressRow /\ compact.env = entry.env /\ compact.poisoned
      /\ compact.reason = reason /\ compact.disp = "rejected"
  BY <1>1 DEF IngressRow
<1> QED
  BY <1>2, <1>3, <1>4

(* Every envelope that is stored leaves the clients' batches and the wire alone. *)
LEMMA ClientSide ==
    ASSUME NEW o \in Owners, NEW r,
           Persisted(o, r) \/ PersistedPoison(o, r) \/ NotAcknowledged(o)
    PROVE  batch' = batch /\ wired' = wired
  BY DEF Persisted, PersistedPoison, NotAcknowledged

(* A redelivery of the same bytes. *)
LEMMA DuplicateKeeps ==
    ASSUME IngressInv, Unlocked, NEW o \in Owners, NEW e \in Envelopes, CommitDuplicate(o, e)
    PROVE  IngressInv'
<1> DEFINE r == e.rid
<1>1. r \in Responses /\ row[r].disp # "none" /\ ~row[r].conflicted /\ row[r].env = e
  BY IngressAssumption DEF CommitDuplicate, Found
<1>2. message' = message /\ events' = events
  BY DEF CommitDuplicate
<1>3. CASE row' = row /\ NotAcknowledged(o)
  <2>1. batch' = batch /\ wired' = wired
    BY <1>3, ClientSide
  <2> QED
    BY <1>2, <1>3, <2>1, ClientStepKeeps DEF storeVars
<1>4. CASE e.kind # "settings" /\ row' = [row EXCEPT ![r].ack = TRUE] /\ Persisted(o, r)
  <2>1. batch' = batch /\ wired' = wired
    BY <1>4, ClientSide
  <2> DEFINE new == [row[r] EXCEPT !.ack = TRUE]
  <2>2. row[r] \in IngressRow /\ RowIsProjected(r)
    BY <1>1 DEF IngressInv, IngressTypeOK
  <2>3. /\ new \in IngressRow /\ new.disp = row[r].disp /\ new.env = row[r].env
        /\ new.poisoned = row[r].poisoned /\ new.reason = row[r].reason
    BY <2>2 DEF IngressRow
  <2>4. row' = [row EXCEPT ![r] = new]
    BY <1>4
  <2> HIDE DEF new
  <2>5. /\ ~new.poisoned => message'[new.env.msg].known /\ \E ev \in events' : ev.of = new.env.msg
        /\ new.reason # "invalid_settings_snapshot"
    BY <1>1, <1>2, <1>4, <2>2, <2>3 DEF RowIsProjected
  <2>6. EventsAreSemantic'
    BY <1>2 DEF IngressInv, EventsAreSemantic
  <2>7. /\ message' \in [Messages -> IngressMessage]
        /\ \A m \in Outbound : message'[m].known /\ message'[m].state # ""
    BY <1>2 DEF IngressInv, IngressTypeOK
  <2> QED
    BY <1>1, <1>2, <2>1, <2>3, <2>4, <2>5, <2>6, <2>7, RowWritten
<1> QED
  BY <1>3, <1>4 DEF CommitDuplicate

(* Other bytes under a known response ID. *)
LEMMA ConflictKeeps ==
    ASSUME IngressInv, Unlocked, NEW o \in Owners, NEW e \in Envelopes, CommitConflict(o, e)
    PROVE  IngressInv'
<1> DEFINE r == e.rid
           fenced == [row[r] EXCEPT !.conflicted = TRUE, !.ack = FALSE]
           poison == FinalizeProviderPoison(fenced, "response_id_digest_conflict")
<1>1. /\ r \in Responses /\ row[r].disp # "none" /\ NotAcknowledged(o)
      /\ message' = message /\ events' = events
  BY IngressAssumption DEF CommitConflict, Found
<1>2. batch' = batch /\ wired' = wired
  BY <1>1, ClientSide
<1>3. row[r] \in IngressRow /\ RowIsProjected(r)
  BY <1>1 DEF IngressInv, IngressTypeOK
<1>4. /\ fenced \in IngressRow /\ fenced.disp = row[r].disp /\ fenced.env = row[r].env
      /\ fenced.poisoned = row[r].poisoned /\ fenced.reason = row[r].reason /\ ~fenced.ack
  BY <1>3 DEF IngressRow
<1>5. row' = [row EXCEPT ![r] = poison] \/ row' = [row EXCEPT ![r] = fenced]
  BY DEF CommitConflict
<1> HIDE DEF fenced
<1>6. /\ poison \in IngressRow /\ poison.env = fenced.env /\ poison.poisoned
      /\ poison.reason = "response_id_digest_conflict" /\ poison.disp # "none"
  BY <1>1, <1>4, PoisonedRowType
<1> HIDE DEF poison
<1>7. EventsAreSemantic'
  BY <1>1 DEF IngressInv, EventsAreSemantic
<1>8. /\ message' \in [Messages -> IngressMessage]
      /\ \A m \in Outbound : message'[m].known /\ message'[m].state # ""
  BY <1>1 DEF IngressInv, IngressTypeOK
<1>9. row[r].env \in Envelopes
  BY <1>1, <1>3 DEF RowIsProjected
<1>10. CASE row' = [row EXCEPT ![r] = poison]
  BY <1>1, <1>2, <1>4, <1>6, <1>7, <1>8, <1>9, <1>10, RowWritten
<1>11. CASE row' = [row EXCEPT ![r] = fenced]
  <2>1. /\ ~fenced.poisoned => /\ message'[fenced.env.msg].known
                               /\ \E ev \in events' : ev.of = fenced.env.msg
        /\ fenced.reason = "invalid_settings_snapshot" =>
              fenced.env.kind = "settings" /\ fenced.disp = "inbox" /\ fenced.poisoned /\ ~fenced.ack
    BY <1>1, <1>3, <1>4 DEF RowIsProjected
  <2> QED
    BY <1>1, <1>2, <1>4, <1>7, <1>8, <1>9, <1>11, <2>1, RowWritten
<1> QED
  BY <1>5, <1>10, <1>11

(* A poison event says nothing of a message. *)
LEMMA PoisonEvent ==
    ASSUME IngressInv, NEW r, events' = events \cup {InboxPoisoned(r)}, message' = message
    PROVE  /\ events \subseteq events' /\ EventsAreSemantic'
           /\ message' \in [Messages -> IngressMessage]
           /\ \A m \in Outbound : message'[m].known /\ message'[m].state # ""
           /\ \A m \in Messages : message[m].known => message'[m].known
<1>1. InboxPoisoned(r).type = "inbox.poisoned"
  BY DEF InboxPoisoned
<1>2. EventsAreSemantic'
  BY <1>1 DEF IngressInv, EventsAreSemantic
<1> QED
  BY <1>2 DEF IngressInv, IngressTypeOK

(* An envelope that is not decoded or not valid. *)
LEMMA PoisonKeeps ==
    ASSUME IngressInv, Unlocked, NEW o \in Owners, NEW e \in Envelopes, CommitPoison(o, e)
    PROVE  IngressInv'
<1> DEFINE r == e.rid
           p == PoisonReason(e)
           new == NewRow(e, TRUE, p)
<1>1. /\ r \in Responses /\ row' = [row EXCEPT ![r] = new] /\ message' = message
      /\ events' = events \cup {InboxPoisoned(r)}
      /\ NotAcknowledged(o) \/ PersistedPoison(o, r)
  BY IngressAssumption DEF CommitPoison
<1>2. batch' = batch /\ wired' = wired
  BY <1>1, ClientSide
<1>3. /\ p \in PoisonReasons
      /\ p = "invalid_settings_snapshot" => e.kind = "settings"
  BY DEF PoisonReason, PoisonReasons, CommitPoison
<1> HIDE DEF p
<1>4. /\ new \in IngressRow /\ new.disp = "inbox" /\ new.env = e /\ new.poisoned
      /\ new.reason = p /\ (new.ack <=> e.kind # "settings")
  BY <1>3, NewPoisonType
<1> HIDE DEF new
<1> QED
  BY <1>1, <1>2, <1>3, <1>4, PoisonEvent, RowWritten

(* An attachment that contradicts the one the message has. *)
LEMMA AttachmentConflictKeeps ==
    ASSUME IngressInv, Unlocked, NEW o \in Owners, NEW e \in Envelopes,
           CommitAttachmentConflict(o, e)
    PROVE  IngressInv'
<1> DEFINE r == e.rid
           entry == NewRow(e, FALSE, "")
           new == FinalizeProviderPoison(entry, "media_identity_conflict")
<1>1. /\ r \in Responses /\ row' = [row EXCEPT ![r] = new] /\ message' = message
      /\ events' = events \cup {InboxPoisoned(r)} /\ PersistedPoison(o, r)
  BY IngressAssumption DEF CommitAttachmentConflict
<1>2. batch' = batch /\ wired' = wired
  BY <1>1, ClientSide
<1>3. entry \in IngressRow /\ entry.disp = "inbox" /\ entry.env = e
  BY NewRowType
<1> HIDE DEF entry
<1>4. /\ new \in IngressRow /\ new.env = e /\ new.poisoned
      /\ new.reason = "media_identity_conflict" /\ new.disp # "none"
  BY <1>3, PoisonedRowType
<1> HIDE DEF new
<1> QED
  BY <1>1, <1>2, <1>4, PoisonEvent, RowWritten

(* The state an envelope gives its message: of an outbound message it is kept or
   raised. *)
LEMMA ProjectedStateRises ==
    ASSUME IngressInv, NEW e \in Envelopes
    PROVE  /\ ProjectedState(e) \in ProjectedStates
           /\ e.msg \in Outbound =>
                /\ ProjectedState(e) # ""
                /\ \/ ProjectedState(e) = message[e.msg].state
                   \/ /\ ProjectedState(e) \in CarrierStates \cup {"failed"}
                      /\ MessageStateRank[message[e.msg].state] < MessageStateRank[ProjectedState(e)]
<1> DEFINE cur == message[e.msg].state
<1>1. /\ message[e.msg] \in IngressMessage /\ cur \in ProjectedStates
      /\ e.state \in CarrierStates \cup {"", "failed"}
      /\ e.msg \in Outbound => message[e.msg].known /\ cur # ""
  BY IngressAssumption DEF IngressInv, IngressTypeOK, IngressMessage
<1>2. CASE ~message[e.msg].known
  BY <1>1, <1>2 DEF ProjectedState, ProjectedStates
<1>3. CASE message[e.msg].known /\ e.state = ""
  BY <1>1, <1>3 DEF ProjectedState
<1>4. CASE message[e.msg].known /\ e.state # ""
  <2>1. ProjectedState(e) = Observe(cur, e.state) /\ e.state \in CarrierStates \cup {"failed"}
    BY <1>1, <1>4 DEF ProjectedState
  <2>2. Observe(cur, e.state) = cur \/ Observe(cur, e.state) = e.state
    BY DEF Observe
  <2>3. ProjectedState(e) \in ProjectedStates
    BY <1>1, <2>1, <2>2 DEF ProjectedStates
  <2>4. ASSUME e.msg \in Outbound
        PROVE  \/ Observe(cur, e.state) = cur
               \/ /\ Observe(cur, e.state) = e.state
                  /\ MessageStateRank[cur] < MessageStateRank[e.state]
    <3>1. cur \in CarrierStates \cup {"failed", "uncertain", "provider_accepted"}
      BY <1>1, <2>4 DEF ProjectedStates
    <3> QED
      BY <2>1, <3>1, ReceiptRaises
  <2>5. e.state # ""
    BY <1>4
  <2> QED
    BY <1>1, <2>1, <2>3, <2>4, <2>5
<1> QED
  BY <1>2, <1>3, <1>4

(* What a projection announces. *)
LEMMA ProjectionAnnounces ==
    ASSUME IngressInv, NEW o \in Owners, NEW e \in Envelopes, NEW replayed \in BOOLEAN,
           CommitProjection(o, e, replayed)
    PROVE  /\ events \subseteq events' /\ EventsAreSemantic'
           /\ \E ev \in events' : ev.of = e.msg
<1> DEFINE type == ProjectionEvent(e, replayed)
           st == ProjectedState(e)
           announced == SemanticMessageEventID(e, type, st)
           transition == TransitionEvent(e)
<1>1. /\ message' = [message EXCEPT ![e.msg] =
                       [known |-> TRUE, state |-> st,
                        media |-> IF e.media = None THEN message[e.msg].media ELSE e.media]]
      /\ events' = events \cup {announced} \cup (IF Transitions(e) THEN {transition} ELSE {})
      /\ e.msg \in Messages
  BY IngressAssumption DEF CommitProjection
<1>2. type \in {"message.received", "message.imported", "message.updated"}
  BY DEF ProjectionEvent
<1>3. announced.type = type /\ announced.of = e.msg
  BY DEF SemanticMessageEventID
<1>4. type = "message.received" =>
        announced = [type |-> "message.received", of |-> announced.of, content |-> None]
  BY DEF SemanticMessageEventID
<1>5. transition.type = "message.<state>" /\ transition.of = e.msg /\ transition.state = st
  BY DEF TransitionEvent
<1>6. Transitions(e) => e.msg \in Outbound /\ st # message[e.msg].state
  BY DEF Transitions
<1>7. message'[e.msg].state = st
      /\ \A m \in Messages : m # e.msg => message'[m] = message[m]
  BY <1>1 DEF IngressInv, IngressTypeOK
<1>8. e.msg \in Outbound =>
        \/ st = message[e.msg].state
        \/ /\ st \in CarrierStates \cup {"failed"}
           /\ MessageStateRank[message[e.msg].state] < MessageStateRank[st]
  BY ProjectedStateRises
<1> HIDE DEF type, st, announced, transition
<1>9. ASSUME NEW m \in Outbound, NEW s \in CarrierStates \cup {"failed"},
             MessageStateRank[s] <= MessageStateRank[message[m].state]
      PROVE  MessageStateRank[s] <= MessageStateRank[message'[m].state]
  <2>1. CASE m # e.msg
    BY <1>7, <1>9, <2>1, IngressAssumption
  <2>2. CASE m = e.msg /\ st = message[e.msg].state
    BY <1>7, <1>9, <2>2
  <2>3. CASE /\ m = e.msg /\ st \in CarrierStates \cup {"failed"}
             /\ MessageStateRank[message[e.msg].state] < MessageStateRank[st]
    <3>1. /\ message[m].state \in MessageStates \cup {""} /\ s \in MessageStates \cup {""}
          /\ st \in MessageStates \cup {""}
      BY <2>3, IngressAssumption
      DEF IngressInv, IngressTypeOK, IngressMessage, ProjectedStates, CarrierStates, MessageStates
    <3>2. \A x \in MessageStates \cup {""} : MessageStateRank[x] \in Nat
      BY DEF MessageStateRank, MessageStates
    <3> DEFINE x == MessageStateRank[s]
               y == MessageStateRank[message[m].state]
               z == MessageStateRank[st]
    <3>3. x \in Nat /\ y \in Nat /\ z \in Nat /\ x <= y /\ y < z
      BY <1>9, <2>3, <3>1, <3>2
    <3>4. message'[m].state = st
      BY <1>7, <2>3
    <3> HIDE DEF x, y, z
    <3>5. x <= z
      BY <3>3
    <3> QED
      BY <3>4, <3>5 DEF x, z
  <2> QED
    BY <1>8, <2>1, <2>2, <2>3
<1>10. ASSUME NEW ev \in events'
       PROVE  /\ ev.type = "message.received" =>
                    ev = [type |-> "message.received", of |-> ev.of, content |-> None]
              /\ ev.type = "message.<state>" =>
                    /\ ev.of \in Outbound /\ ev.state \in CarrierStates \cup {"failed"}
                    /\ MessageStateRank[ev.state] <= MessageStateRank[message'[ev.of].state]
  <2>1. CASE ev \in events
    BY <1>9, <2>1 DEF IngressInv, EventsAreSemantic
  <2>2. CASE ev = announced
    BY <1>2, <1>3, <1>4, <2>2
  <2>3. CASE ev = transition /\ Transitions(e)
    <3>1. st \in CarrierStates \cup {"failed"} /\ e.msg \in Outbound
      BY <1>6, <1>8, <2>3
    <3>2. MessageStateRank[st] \in Nat
      BY <3>1 DEF MessageStateRank, MessageStates, CarrierStates
    <3> QED
      BY <1>5, <1>7, <2>3, <3>1, <3>2
  <2> QED
    BY <1>1, <1>10, <2>1, <2>2, <2>3
<1> QED
  BY <1>1, <1>3, <1>10 DEF EventsAreSemantic

(* A valid envelope. *)
LEMMA ProjectionKeeps ==
    ASSUME IngressInv, Unlocked, NEW o \in Owners, NEW e \in Envelopes, NEW replayed \in BOOLEAN,
           CommitProjection(o, e, replayed)
    PROVE  IngressInv'
<1> DEFINE r == e.rid
           new == NewRow(e, FALSE, "")
           st == ProjectedState(e)
           md == IF e.media = None THEN message[e.msg].media ELSE e.media
           entry == [known |-> TRUE, state |-> st, media |-> md]
<1>1. /\ r \in Responses /\ row' = [row EXCEPT ![r] = new] /\ e.msg \in Messages
      /\ message' = [message EXCEPT ![e.msg] = entry] /\ Persisted(o, r)
  BY IngressAssumption DEF CommitProjection
<1>2. batch' = batch /\ wired' = wired
  BY <1>1, ClientSide
<1>3. new \in IngressRow /\ new.disp = "inbox" /\ new.env = e /\ new.reason = ""
  BY NewRowType
<1>4. st \in ProjectedStates /\ (e.msg \in Outbound => st # "")
  <2>1. message[e.msg].state # "" \/ e.msg \notin Outbound
    BY DEF IngressInv, IngressTypeOK
  <2> QED
    BY <2>1, ProjectedStateRises
<1>5. md \in {x.media : x \in Envelopes} \cup {None}
  BY <1>1 DEF IngressInv, IngressTypeOK, IngressMessage
<1> HIDE DEF new, st, md
<1>6. entry \in IngressMessage /\ entry.known /\ entry.state = st
  BY <1>4, <1>5 DEF IngressMessage
<1> HIDE DEF entry
<1>7. /\ message' \in [Messages -> IngressMessage] /\ message'[e.msg] = entry
      /\ \A m \in Messages : m # e.msg => message'[m] = message[m]
  BY <1>1, <1>6 DEF IngressInv, IngressTypeOK
<1>8. /\ \A m \in Outbound : message'[m].known /\ message'[m].state # ""
      /\ \A m \in Messages : message[m].known => message'[m].known
  BY <1>4, <1>6, <1>7, IngressAssumption DEF IngressInv, IngressTypeOK
<1>9. /\ events \subseteq events' /\ EventsAreSemantic' /\ \E ev \in events' : ev.of = e.msg
  BY ProjectionAnnounces
<1>10. message'[new.env.msg].known /\ \E ev \in events' : ev.of = new.env.msg
  BY <1>3, <1>6, <1>7, <1>9
<1> QED
  BY <1>1, <1>2, <1>3, <1>7, <1>8, <1>9, <1>10, RowWritten

(* A dispatch that stays without an answer makes an accepted message uncertain,
   which ranks the same. *)
LEMMA DispatchObservesKeeps ==
    ASSUME IngressInv, NEW m \in Messages, DispatchObserves(m)
    PROVE  IngressInv'
<1> DEFINE new == [message[m] EXCEPT !.state = "uncertain"]
<1>1. /\ m \in Outbound /\ message[m].state = "provider_accepted"
      /\ UNCHANGED <<row, events, batch, wired>>
  BY DEF DispatchObserves, clientVars
<1>2. Observe("provider_accepted", "uncertain") = "uncertain"
  BY DEF Observe, MessageStateRank, MessageStates
<1>3. message' = [message EXCEPT ![m] = new]
  BY <1>1, <1>2 DEF DispatchObserves
<1>4. message[m] \in IngressMessage
  BY DEF IngressInv, IngressTypeOK
<1>5. new \in IngressMessage /\ new.known = message[m].known /\ new.state = "uncertain"
  BY <1>4 DEF IngressMessage, ProjectedStates
<1> HIDE DEF new
<1>6. /\ message' \in [Messages -> IngressMessage] /\ message'[m] = new
      /\ \A n \in Messages : n # m => message'[n] = message[n]
  BY <1>3, <1>5 DEF IngressInv, IngressTypeOK
<1>7. /\ \A n \in Messages : message'[n].known = message[n].known
      /\ \A n \in Outbound : message'[n].known /\ message'[n].state # ""
  BY <1>5, <1>6, IngressAssumption DEF IngressInv, IngressTypeOK
<1>8. IngressTypeOK' /\ BatchIsPending' /\ WiredIsStored'
  BY <1>1, <1>6, <1>7 DEF IngressInv, IngressTypeOK, BatchIsPending, WiredIsStored
<1>9. MessageStateRank["uncertain"] = MessageStateRank["provider_accepted"]
  BY DEF MessageStateRank, MessageStates
<1>10. \A n \in Outbound :
          MessageStateRank[message'[n].state] = MessageStateRank[message[n].state]
  BY <1>1, <1>5, <1>6, <1>9, IngressAssumption
<1>11. EventsAreSemantic'
  BY <1>1, <1>10 DEF IngressInv, EventsAreSemantic
<1>12. ASSUME NEW r \in Responses PROVE RowIsProjected(r)'
  <2>1. RowIsProjected(r) /\ (row[r].disp # "none" => row[r].env.msg \in Messages)
    BY IngressAssumption DEF IngressInv, RowIsProjected
  <2> QED
    BY <1>1, <1>7, <2>1 DEF RowIsProjected
<1> QED
  BY <1>8, <1>11, <1>12 DEF IngressInv

(* Every step keeps the invariant. *)
LEMMA IngressStep == IngressInv /\ [IngressNext]_ingressVars => IngressInv'
<1> SUFFICES ASSUME IngressInv, [IngressNext]_ingressVars
             PROVE  IngressInv'
  OBVIOUS
<1>1. ASSUME NEW o \in Owners, StartGeneration(o) \/ StopGeneration(o) \/ CrashGeneration(o)
      PROVE  IngressInv'
  <2>1. NewClient(o)
    BY <1>1 DEF StartGeneration, StopGeneration, CrashGeneration
  <2> QED
    BY <2>1, ClientStepKeeps DEF NewClient
<1>2. ASSUME NEW o \in Owners, OnReady(o)
      PROVE  IngressInv'
  BY <1>2, ClientStepKeeps DEF OnReady
<1>3. ASSUME NEW o \in Owners, ProviderACKFails(o) \/ CommitACKsFails(o)
      PROVE  IngressInv'
  <2>1. RollBack(o)
    BY <1>3 DEF ProviderACKFails, CommitACKsFails
  <2> QED
    BY <2>1, ClientStepKeeps DEF RollBack
<1>4. ASSUME NEW o \in Owners, NEW e \in Envelopes, NEW replayed \in BOOLEAN,
             HandleEnvelope(o, e, replayed)
      PROVE  IngressInv'
  BY <1>4, DuplicateKeeps, ConflictKeeps, PoisonKeeps, AttachmentConflictKeeps, ProjectionKeeps
  DEF HandleEnvelope
<1>5. ASSUME LeaseChanges
      PROVE  IngressInv'
  <2>1. UNCHANGED storeVars /\ wired' = wired /\ batch' = batch
    BY <1>5 DEF LeaseChanges, clientVars
  <2> QED
    BY <2>1, UnchangedKeeps
<1>6. ASSUME UNCHANGED ingressVars
      PROVE  IngressInv'
  <2>1. UNCHANGED storeVars /\ wired' = wired /\ batch' = batch
    BY <1>6 DEF ingressVars, storeVars
  <2> QED
    BY <2>1, UnchangedKeeps
<1> QED
  BY <1>1, <1>2, <1>3, <1>4, <1>5, <1>6, AdmitKeeps, SendKeeps, AckCompleteKeeps,
     DispatchObservesKeeps
  DEF IngressNext

(* The invariant of the ingress. *)
THEOREM IngressInvariantHolds == IngressSpec => []IngressInv
<1>1. IngressInit => IngressInv
  BY IngressInitially
<1>2. IngressInv /\ [IngressNext]_ingressVars => IngressInv'
  BY IngressStep
<1> QED
  BY <1>1, <1>2, PTL DEF IngressSpec

(* Whatever an acknowledgement ever named is stored, with its message and an event
   when it was valid, and a request under way names no conflicted or withheld
   response: for every number of responses, owners and envelopes. *)
THEOREM IngressDurableBeforeACK == IngressSpec => []DurableBeforeACK
<1>1. IngressInv => DurableBeforeACK
  <2> SUFFICES ASSUME IngressInv
               PROVE  DurableBeforeACK
    OBVIOUS
  <2>1. ASSUME NEW r \in wired
        PROVE  /\ row[r].disp # "none"
               /\ ~row[r].poisoned => /\ message[row[r].env.msg].known
                                      /\ \E ev \in events : ev.of = row[r].env.msg
    BY DEF IngressInv, IngressTypeOK, WiredIsStored, RowIsProjected
  <2>2. ASSUME NEW o \in Owners, NEW r \in batch[o].admitted
        PROVE  ~row[r].conflicted /\ row[r].reason # "invalid_settings_snapshot"
    <3>1. r \in Responses /\ row[r].ack /\ ~row[r].conflicted
      BY DEF IngressInv, IngressTypeOK, BatchIsPending
    <3> QED
      BY <3>1 DEF IngressInv, RowIsProjected
  <2> QED
    BY <2>1, <2>2 DEF DurableBeforeACK
<1> QED
  BY <1>1, IngressInvariantHolds, PTL

(* A message is received at most once and no receipt is wedged by the ID of its own
   transition event: the state such an event announced lies behind the message's. *)
THEOREM IngressAnnouncedOnce == IngressSpec => []AnnouncedOnce
<1>1. IngressInv => AnnouncedOnce
  <2> SUFFICES ASSUME IngressInv
               PROVE  AnnouncedOnce
    OBVIOUS
  <2>1. ASSUME NEW m \in Messages
        PROVE  Cardinality({ev \in events : ev.type = "message.received" /\ ev.of = m}) <= 1
    <3> DEFINE the == [type |-> "message.received", of |-> m, content |-> None]
               S == {ev \in events : ev.type = "message.received" /\ ev.of = m}
    <3>1. S \subseteq {the}
      BY DEF IngressInv, EventsAreSemantic
    <3> HIDE DEF the, S
    <3>2. IsFiniteSet({the}) /\ Cardinality({the}) = 1
      BY FS_Singleton
    <3>3. Cardinality(S) <= Cardinality({the})
      BY <3>1, <3>2, FS_Subset
    <3> QED
      BY <3>2, <3>3 DEF S
  <2>2. ASSUME NEW e \in Envelopes, Transitions(e), TransitionEvent(e) \in events
        PROVE  FALSE
    <3> DEFINE st == ProjectedState(e)
               ev == TransitionEvent(e)
    <3>1. e.msg \in Outbound /\ st # message[e.msg].state
      BY <2>2 DEF Transitions
    <3>2. ev.type = "message.<state>" /\ ev.of = e.msg /\ ev.state = st
      BY DEF TransitionEvent
    <3> HIDE DEF st, ev
    <3>3. MessageStateRank[st] <= MessageStateRank[message[e.msg].state]
      <4>1. ev \in events
        BY <2>2 DEF ev
      <4> QED
        BY <3>2, <4>1 DEF IngressInv, EventsAreSemantic
    <3>4. /\ st \in CarrierStates \cup {"failed"}
          /\ MessageStateRank[message[e.msg].state] < MessageStateRank[st]
      BY <3>1, ProjectedStateRises DEF st
    <3>5. /\ message[e.msg].state \in MessageStates \cup {""} /\ st \in MessageStates \cup {""}
      BY <3>4, IngressAssumption
      DEF IngressInv, IngressTypeOK, IngressMessage, ProjectedStates, CarrierStates, MessageStates
    <3>6. \A x \in MessageStates \cup {""} : MessageStateRank[x] \in Nat
      BY DEF MessageStateRank, MessageStates
    <3> DEFINE x == MessageStateRank[st]
               y == MessageStateRank[message[e.msg].state]
    <3>7. x \in Nat /\ y \in Nat /\ x <= y /\ y < x
      BY <3>3, <3>4, <3>5, <3>6
    <3> HIDE DEF x, y
    <3> QED
      BY <3>7
  <2> QED
    BY <2>1, <2>2 DEF AnnouncedOnce
<1> QED
  BY <1>1, IngressInvariantHolds, PTL
=============================================================================
