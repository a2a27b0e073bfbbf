----------------------------- MODULE BridgeRoom -----------------------------
(***************************************************************************)
(* Messages of the Matrix bridge (pkg/connector: handlematrix.go,          *)
(* handlegmessages.go, chatsync.go, backfill.go): Matrix messages that     *)
(* wait for their echo, the rows of bridged messages with what was         *)
(* reported about them, the updates of the phone in any order, and the     *)
(* resyncs that delay backfills.                                           *)
(*                                                                         *)
(* A room handles one event at a time.  A message is known by its id; the  *)
(* provider's statuses are kept up to what the handlers tell apart, texts  *)
(* and attachments up to "changed" and "still missing".  The status text   *)
(* of a group message is kept up to the members it names as readers.       *)
(***************************************************************************)
EXTENDS Naturals, FiniteSets

CONSTANTS
    Messages,
    Participants,    \* members of a group conversation
    MaxUpdates,      \* bound: updates of the phone
    MaxSyncs         \* bound: calls of syncConversation and of SyncConversations

ASSUME BridgeRoomAssumption == MaxUpdates \in Nat /\ MaxSyncs \in Nat

VARIABLES
    pending,         \* Matrix messages whose echo is awaited
    sending,         \* Matrix messages whose SendMessage has not returned
    echoed,          \* Matrix messages whose echo made a row
    answer,          \* the failure HandleMatrixMessage returned, "none" while it is pending
    row,             \* the bridged message in the database
    reported,        \* what Matrix was told about the present row, in order of need
    resync,          \* SyncConversations that run
    syncing,         \* syncingConversations
    mobileSync,      \* syncingMobileDatabase
    backfill,        \* calls of syncConversation that delay a backfill
    handle,          \* cancelPendingBackfill: the call it cancels, 0 for none
    updates, syncs

matrixVars == <<pending, sending, echoed, answer>>
resyncVars == <<resync, syncing, mobileSync, backfill, handle>>
roomVars == <<matrixVars, row, reported, resyncVars, updates, syncs>>

Rooms == {"dm", "group"}

\* Statuses of the provider, by what the bridge does with them.
Sent       == {"complete", "delivered", "displayed"}
Failures   == {"failed"}
Downloads  == {"auto", "manual"}
Statuses   == {"sending"} \cup Sent \cup Failures \cup Downloads \cup {"received"}

IsSuccessfullySent(s) == s \in Sent
DownloadRank(s) == CASE s = "auto" -> 0 [] s = "manual" -> 1
                     [] s \notin Downloads -> 100
\* The notice that stands for an attachment while it is downloaded.
DownloadPending(s) == s \in Downloads

\* Success, failure, delivery and the read of a direct chat are counted, of a
\* group the members whose read was reported are kept.
NothingReported == [success |-> 0, failure |-> 0, delivery |-> 0, read |-> 0, last |-> "none",
                    readers |-> {}]

\* "Read by ..." of a displayed group message: the members it names, whether the
\* conversation is in chatInfoCache, and the members found there by their names.
ReadByTexts ==
    {seen \in [names: SUBSET Participants, cached: BOOLEAN, known: SUBSET Participants] :
        seen.known \subseteq seen.names}

\* Any other status text.
NoReadBy == [names |-> {}, cached |-> TRUE, known |-> {}]

StatusTexts(room, s) ==
    IF room = "group" /\ s = "displayed" THEN ReadByTexts \cup {NoReadBy} ELSE {NoReadBy}

NoRow == [room |-> "none"]

\* The metadata of a message that was just bridged; the text of an update is the
\* first one, 0, or an edited one.
Converted(room, s, text, missing) ==
    [room |-> room, status |-> s, outgoing |-> FALSE, text |-> text, missing |-> missing,
     success |-> FALSE, failure |-> FALSE, delivery |-> FALSE, read |-> FALSE,
     statusText |-> {}, readBy |-> {}]

RoomInit ==
    /\ pending = {} /\ sending = {} /\ echoed = {}
    /\ answer = [m \in Messages |-> "none"]
    /\ row = [m \in Messages |-> NoRow]
    /\ reported = [m \in Messages |-> NothingReported]
    /\ resync = 0 /\ syncing = FALSE /\ mobileSync = FALSE
    /\ backfill = [i \in 1..MaxSyncs |-> [at |-> "unborn", previous |-> 0, cancelled |-> FALSE]]
    /\ handle = 0 /\ updates = 0 /\ syncs = 0

Bridged(m) == row[m] # NoRow

-----------------------------------------------------------------------------
(* A message from Matrix. *)

\* Without a client, or when the message cannot be converted, it is refused with an
\* error; otherwise the entry waits for the echo before the message is sent.
HandleMatrixMessage(m, accepted) ==
    /\ ~Bridged(m) /\ m \notin pending \cup sending
    /\ IF accepted
       THEN pending' = pending \cup {m} /\ sending' = sending \cup {m}
       ELSE UNCHANGED <<pending, sending>>
    /\ echoed' = echoed \ {m}
    /\ answer' = [answer EXCEPT ![m] = IF accepted THEN "none" ELSE "failed"]
    /\ UNCHANGED <<row, reported, resyncVars, updates, syncs>>

\* A phone that does not respond may still send the message: the event is answered
\* with a failure but the entry is kept. Any other error or a refusal drops it too.
SendMessageReturns(m, outcome) ==
    /\ m \in sending
    /\ sending' = sending \ {m}
    /\ pending' = IF outcome = "failed" THEN pending \ {m} ELSE pending
    /\ answer' = [answer EXCEPT ![m] = outcome]
    /\ UNCHANGED <<echoed, row, reported, resyncVars, updates, syncs>>

-----------------------------------------------------------------------------
(* A message from the phone. *)

Update == updates < MaxUpdates /\ updates' = updates + 1

\* handleRemoteEcho: the row of the pending message; its status is reported later.
RemoteEcho(m, room, s) ==
    /\ Update
    /\ ~Bridged(m) /\ m \in pending
    /\ pending' = pending \ {m} /\ echoed' = echoed \cup {m}
    /\ row' = [row EXCEPT ![m] = [Converted(room, s, 0, FALSE) EXCEPT !.outgoing = TRUE]]
    /\ UNCHANGED <<sending, answer, reported, resyncVars, syncs>>

\* ConvertMessage: a message nobody waits for; automatic downloads are ignored.
ConvertMessage(m, room, s, missing) ==
    /\ Update
    /\ ~Bridged(m) /\ m \notin pending
    /\ s # "auto"
    /\ row' = [row EXCEPT ![m] = Converted(room, s, 0, missing)]
    /\ UNCHANGED <<matrixVars, reported, resyncVars, syncs>>

\* An update with a very different timestamp: the message starts over.
DeleteAndResend(m, room, s, missing) ==
    /\ Update
    /\ Bridged(m) /\ DownloadRank(s) >= DownloadRank(row[m].status)
    /\ row' = [row EXCEPT ![m] =
          IF s = "auto" THEN NoRow ELSE Converted(room, s, 0, missing)]
    /\ reported' = [reported EXCEPT ![m] = NothingReported]
    /\ UNCHANGED <<matrixVars, resyncVars, syncs>>

\* What is left to report about a row when its status becomes s (HandleExisting).
NeedsSuccess(r, s) == r.outgoing /\ ~r.success /\ IsSuccessfullySent(s)
NeedsFailure(r, s) == ~r.failure /\ ~r.success /\ s \in Failures
NeedsDelivery(r, room, s) == ~r.delivery /\ room = "dm" /\ s \in {"delivered", "displayed"}
NeedsRead(r, room, s) == ~r.read /\ room = "dm" /\ s = "displayed"

NeedsGroupRead(r, room, s, seen) ==
    room # "dm" /\ s = "displayed" /\ seen.names # {} /\ seen.names # r.statusText

NeedsSomething(r, room, s) ==
    \/ NeedsSuccess(r, s) \/ NeedsFailure(r, s)
    \/ NeedsDelivery(r, room, s) \/ NeedsRead(r, room, s)

NeedsResync(r, room, s, text, missing) ==
    \/ r.room # room \/ r.text # text
    \/ DownloadPending(r.status) # DownloadPending(s)
    \/ r.missing /\ ~missing

\* The members who read the message that the row does not remember.
AddedReads(r, room, s, seen) ==
    IF NeedsGroupRead(r, room, s, seen) /\ seen.cached THEN seen.known \ r.readBy ELSE {}

\* The flags of the row after the report; a failure is not reported beside a
\* success. The members it remembers are the ones of the last status text.
Flagged(r, room, s, seen) ==
    [r EXCEPT !.success = @ \/ NeedsSuccess(r, s),
              !.failure = @ \/ (NeedsFailure(r, s) /\ ~NeedsSuccess(r, s)),
              !.delivery = @ \/ NeedsDelivery(r, room, s),
              !.read = @ \/ NeedsRead(r, room, s),
              !.statusText = IF NeedsGroupRead(r, room, s, seen) /\ seen.cached
                             THEN seen.names ELSE @,
              !.readBy = IF NeedsGroupRead(r, room, s, seen) /\ seen.cached
                         THEN seen.known ELSE @]

\* Mutant: an edit stores the converted message without what was reported before.
EditForgetsFlags(r, room, s, text, missing) ==
    [Converted(room, s, text, missing) EXCEPT !.outgoing = r.outgoing]

\* ConvertEdit: the new metadata takes over what was reported, but not the
\* members of a group who read the message, nor the text that named them.
ConvertEdit(r, room, s, text, missing) ==
    [Converted(room, s, text, missing) EXCEPT
        !.outgoing = r.outgoing, !.success = r.success, !.failure = r.failure,
        !.delivery = r.delivery, !.read = r.read]

Report(m, r, room, s, seen) ==
    [reported EXCEPT ![m] =
        [success  |-> @.success + (IF NeedsSuccess(r, s) THEN 1 ELSE 0),
         failure  |-> @.failure + (IF NeedsFailure(r, s) /\ ~NeedsSuccess(r, s) THEN 1 ELSE 0),
         delivery |-> @.delivery + (IF NeedsDelivery(r, room, s) THEN 1 ELSE 0),
         read     |-> @.read + (IF NeedsRead(r, room, s) THEN 1 ELSE 0),
         last     |-> IF NeedsSuccess(r, s) THEN "success"
                      ELSE IF NeedsFailure(r, s) THEN "failure" ELSE @.last,
         readers  |-> @.readers \cup AddedReads(r, room, s, seen)]]

\* A status the row has already, with nothing to change and nothing to report, ends
\* the handling early: new readers of a group are not looked at.
HandleExisting(m, room, s, text, missing, seen) ==
    /\ Update
    /\ Bridged(m)
    /\ LET r       == row[m]
           flagged == Flagged(r, room, s, seen)
           resent  == NeedsResync(r, room, s, text, missing)
           ignored == \/ DownloadRank(s) < DownloadRank(r.status)
                      \/ r.status = s /\ ~resent /\ ~NeedsSomething(r, room, s)
                      \/ r.room # room /\ DownloadPending(s) /\ room # "dm"
       IN  IF ignored
           THEN UNCHANGED <<row, reported>>
           ELSE /\ reported' = Report(m, r, room, s, seen)
                /\ row' = [row EXCEPT ![m] =
                      IF resent
                      THEN ConvertEdit(flagged, room, s, text, missing)
                      ELSE flagged]
    /\ UNCHANGED <<matrixVars, resyncVars, syncs>>

\* MESSAGE_DELETED removes the message, except during a resync.
MessageDeleted(m) ==
    /\ Update
    /\ Bridged(m)
    /\ IF syncing \/ mobileSync
       THEN UNCHANGED <<row, reported>>
       ELSE /\ row' = [row EXCEPT ![m] = NoRow]
            /\ reported' = [reported EXCEPT ![m] = NothingReported]
    /\ UNCHANGED <<matrixVars, resyncVars, syncs>>

-----------------------------------------------------------------------------
(* Resyncs. *)

SyncStarts ==
    /\ syncs < MaxSyncs /\ syncs' = syncs + 1
    /\ resync' = resync + 1 /\ syncing' = TRUE

\* BROWSER_ACTIVE of a new or inactive session.
SyncConversations ==
    /\ SyncStarts
    /\ UNCHANGED <<matrixVars, row, reported, mobileSync, backfill, handle, updates>>

MobileSyncStarted ==
    /\ ~mobileSync /\ mobileSync' = TRUE
    /\ UNCHANGED <<matrixVars, row, reported, resync, syncing, backfill, handle, updates, syncs>>

MobileSyncComplete ==
    /\ mobileSync /\ mobileSync' = FALSE
    /\ SyncStarts
    /\ UNCHANGED <<matrixVars, row, reported, backfill, handle, updates>>

\* The first one to finish clears the flag of all.
SyncFinishes ==
    /\ resync > 0
    /\ resync' = resync - 1 /\ syncing' = FALSE
    /\ UNCHANGED <<matrixVars, row, reported, mobileSync, backfill, handle, updates, syncs>>

\* syncConversation of a conversation with a recent message: the call puts its
\* own cancel function in the handle and takes the previous one out...
DelayBackfill ==
    /\ syncs < MaxSyncs /\ syncs' = syncs + 1
    /\ handle' = syncs'
    /\ backfill' = [backfill EXCEPT ![syncs'] = [@ EXCEPT !.at = "swapped", !.previous = handle]]
    /\ UNCHANGED <<matrixVars, row, reported, resync, syncing, mobileSync, updates>>

\* ...cancels that and starts to wait.
CancelPrevious(i) ==
    [k \in 1..MaxSyncs |->
        CASE k = i -> [backfill[k] EXCEPT !.at = "waiting"]
          [] k # i /\ k = backfill[i].previous -> [backfill[k] EXCEPT !.cancelled = TRUE]
          [] k # i /\ k # backfill[i].previous -> backfill[k]]

BackfillWaits(i) ==
    /\ backfill[i].at = "swapped"
    /\ backfill' = CancelPrevious(i)
    /\ UNCHANGED <<matrixVars, row, reported, resync, syncing, mobileSync, handle, updates, syncs>>

\* The delay passes and the backfill is queued, or a newer call cancels it.
BackfillEnds(i) ==
    /\ backfill[i].at = "waiting"
    /\ \E end \in {"queued"} \cup (IF backfill[i].cancelled THEN {"dropped"} ELSE {}) :
          backfill' = [backfill EXCEPT ![i].at = end]
    /\ UNCHANGED <<matrixVars, row, reported, resync, syncing, mobileSync, handle, updates, syncs>>

\* A queued backfill fetches a message that is not bridged yet, or is awaited.
FetchMessages(i, m, s) ==
    /\ backfill[i].at = "queued"
    /\ backfill' = [backfill EXCEPT ![i].at = "done"]
    /\ IF Bridged(m)
       THEN UNCHANGED <<row, pending, echoed>>
       ELSE /\ row' = [row EXCEPT ![m] =
                  [Converted("dm", s, 0, FALSE) EXCEPT !.outgoing = m \in pending]]
            /\ pending' = pending \ {m} /\ echoed' = echoed \cup (pending \cap {m})
    /\ UNCHANGED <<sending, answer, reported, resync, syncing, mobileSync, handle, updates, syncs>>

-----------------------------------------------------------------------------
MatrixStep ==
    \E m \in Messages :
       \/ \E accepted \in BOOLEAN : HandleMatrixMessage(m, accepted)
       \/ \E outcome \in {"none", "phoneNotResponding", "failed"} : SendMessageReturns(m, outcome)

PhoneStep ==
    \E m \in Messages :
       \/ MessageDeleted(m)
       \/ \E room \in Rooms, s \in Statuses :
             \/ RemoteEcho(m, room, s)
             \/ \E missing \in IF s \in {"received", "manual"} THEN BOOLEAN ELSE {FALSE} :
                   \/ ConvertMessage(m, room, s, missing)
                   \/ DeleteAndResend(m, room, s, missing)
                   \/ \E text \in 0..1, seen \in StatusTexts(room, s) :
                         HandleExisting(m, room, s, text, missing, seen)

ResyncStep ==
    \/ SyncConversations \/ MobileSyncStarted \/ MobileSyncComplete \/ SyncFinishes
    \/ DelayBackfill
    \/ \E i \in 1..MaxSyncs :
          \/ BackfillWaits(i) \/ BackfillEnds(i)
          \/ \E m \in Messages, s \in {"received"} \cup Sent : FetchMessages(i, m, s)

RoomNext == MatrixStep \/ PhoneStep \/ ResyncStep

RoomSpec == RoomInit /\ [][RoomNext]_roomVars

-----------------------------------------------------------------------------
(* Properties. *)

\* Whatever order the phone's updates come in, and however often a message is
\* edited or moves to another room, the updates tell Matrix at most once that it
\* was sent, that it failed, that it was delivered and that the other side of a
\* direct chat read it, and never of a failure after they told that it was sent.
\* The members of a group a row remembers as readers were all reported. (The code
\* reports them again once an edit, or a status text without them, made the row
\* forget them.) A message whose send was answered "the phone does not respond"
\* still waits for the echo that corrects the failure, unless the echo came.
ReportedOnce ==
    \A m \in Messages :
       LET r == reported[m]
       IN  /\ r.success <= 1 /\ r.failure <= 1 /\ r.delivery <= 1 /\ r.read <= 1
           /\ r.success = 1 => r.last = "success"
           /\ Bridged(m) => row[m].readBy \subseteq r.readers
           /\ answer[m] = "phoneNotResponding" => m \in pending \cup echoed
=============================================================================
