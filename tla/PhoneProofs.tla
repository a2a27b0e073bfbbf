----------------------------- MODULE PhoneProofs -----------------------------
(***************************************************************************)
(* The Google Messages client, its logins and the rooms of the bridge.     *)
(***************************************************************************)
EXTENDS PhoneLink, BridgeRoom, LoginFlow, ClientLifecycle, SequenceTheorems, TLAPS

-----------------------------------------------------------------------------
(***************************************************************************)
(* Proof that no answer is sent on a closed channel and that no finished   *)
(* call leaves its waiter behind.  The inductive invariant says where the  *)
(* open channels are: in the map, or with the reader that took one out of  *)
(* it, and never in both places.                                           *)
(***************************************************************************)

LinkTypeOK ==
    /\ waiters \subseteq Ids
    /\ channel \in [Ids -> {"none", "open", "full", "closed"}]
    /\ call \in [Requests -> {"idle", "posting", "waiting", "slow"}]
    /\ claimed \in Ids \cup {NoId}

\* What is in the map can be closed or filled.
MapIsOpen == \A i \in waiters : channel[i] = "open"

\* What the reader holds is out of the map, so nobody else closes it.
ClaimIsExclusive == claimed # NoId => claimed \notin waiters /\ channel[claimed] = "open"

\* A call that has returned left nothing in the map.
CallersWait == \A r \in Requests \cap waiters : call[r] # "idle"

LinkInv == LinkTypeOK /\ MapIsOpen /\ ClaimIsExclusive /\ CallersWait

\* At the start the waiter map is open and nobody waits.
LEMMA LinkInitially == LinkInit => LinkInv
  BY PhoneLinkAssumption
     DEF LinkInit, LinkInv, LinkTypeOK, MapIsOpen, ClaimIsExclusive, CallersWait, Ids

\* A step that touches no waiter, no channel and no call.
LEMMA WaitersUnchanged ==
    ASSUME LinkInv, UNCHANGED <<waiters, channel, call, claimed>>
    PROVE  LinkInv'
  BY DEF LinkInv, LinkTypeOK, MapIsOpen, ClaimIsExclusive, CallersWait

\* A new waiter, of a call that is under way or of a ping.
LEMMA RegisterKeeps ==
    ASSUME LinkInv, NEW i \in Ids, Register(i), claimed # i, UNCHANGED claimed,
           call' \in [Requests -> {"idle", "posting", "waiting", "slow"}],
           \A r \in Requests : r = i \/ call[r] # "idle" => call'[r] # "idle"
    PROVE  LinkInv'
  BY DEF Register, LinkInv, LinkTypeOK, MapIsOpen, ClaimIsExclusive, CallersWait

\* A call that ends takes its waiter along, and closes only what was in the map.
LEMMA CancelKeeps ==
    ASSUME LinkInv, NEW r \in Requests, CancelResponse(r), UNCHANGED claimed,
           call' = [call EXCEPT ![r] = "idle"]
    PROVE  LinkInv'
  <1>1. r \in Ids
    BY DEF Ids
  <1>2. LinkTypeOK'
    BY <1>1 DEF CancelResponse, LinkInv, LinkTypeOK
  <1>3. MapIsOpen' /\ ClaimIsExclusive' /\ CallersWait'
    BY <1>1 DEF CancelResponse, LinkInv, LinkTypeOK, MapIsOpen, ClaimIsExclusive, CallersWait
  <1> QED BY <1>2, <1>3 DEF LinkInv

\* A waiter reads an answer or a close: its channel is neither in the map nor
\* with the reader.
LEMMA ReadKeeps ==
    ASSUME LinkInv, NEW i \in Ids, channel[i] \in {"full", "closed"},
           channel' = [channel EXCEPT ![i] = "none"], UNCHANGED <<waiters, claimed>>,
           call' \in [Requests -> {"idle", "posting", "waiting", "slow"}],
           \A r \in Requests : r # i => call'[r] = call[r]
    PROVE  LinkInv'
  <1>1. i \notin waiters /\ i # claimed
    BY PhoneLinkAssumption DEF LinkInv, MapIsOpen, ClaimIsExclusive, Ids
  <1> QED BY <1>1 DEF LinkInv, LinkTypeOK, MapIsOpen, ClaimIsExclusive, CallersWait

\* A request registers, waits and gives up with its own channel only.
LEMMA RequestStep ==
    ASSUME LinkInv, Request
    PROVE  LinkInv'
  <1>1. PICK r \in Requests :
           \/ SendRequest(r)
           \/ \E failed \in BOOLEAN : PostReturns(r, failed)
           \/ ReadResponse(r) \/ GiveUp(r) \/ ShortCircuitLost(r)
           \/ \E p \in Pings : ShortCircuitPing(r, p) \/ ShortCircuitAlert(r, p)
    BY DEF Request
  <1>2. r \in Ids /\ call \in [Requests -> {"idle", "posting", "waiting", "slow"}]
    BY DEF Ids, LinkInv, LinkTypeOK
  <1>3. CASE SendRequest(r)
    BY <1>2, <1>3, RegisterKeeps DEF SendRequest
  <1>4. ASSUME NEW failed \in BOOLEAN, PostReturns(r, failed) PROVE LinkInv'
    <2>1. CASE failed
      BY <1>4, <2>1, CancelKeeps DEF PostReturns
    <2>2. CASE ~failed
      BY <1>2, <1>4, <2>2
         DEF PostReturns, LinkInv, LinkTypeOK, MapIsOpen, ClaimIsExclusive, CallersWait
    <2> QED BY <2>1, <2>2
  <1>5. CASE ReadResponse(r)
    BY <1>2, <1>5, ReadKeeps DEF ReadResponse
  <1>6. CASE GiveUp(r)
    BY <1>6, CancelKeeps DEF GiveUp
  <1>7. CASE ShortCircuitLost(r)
    BY <1>2, <1>7 DEF ShortCircuitLost, LinkInv, LinkTypeOK, MapIsOpen, ClaimIsExclusive,
                      CallersWait
  <1>8. ASSUME NEW p \in Pings, ShortCircuitPing(r, p) PROVE LinkInv'
    BY <1>2, <1>8, PhoneLinkAssumption, RegisterKeeps
       DEF ShortCircuitPing, PingSent, Fresh, Ids
  <1>9. ASSUME NEW p \in Pings, ShortCircuitAlert(r, p) PROVE LinkInv'
    BY <1>2, <1>9 DEF ShortCircuitAlert, LinkInv, LinkTypeOK, MapIsOpen, ClaimIsExclusive,
                      CallersWait
  <1> QED BY <1>1, <1>3, <1>4, <1>5, <1>6, <1>7, <1>8, <1>9

\* The reader hands an answer to the waiter it took out of the map.
LEMMA ReaderStep ==
    ASSUME LinkInv, Reader
    PROVE  LinkInv'
  <1>1. ASSUME NEW i \in Ids, Answer(i) PROVE LinkInv'
    BY <1>1 DEF Answer, LinkInv, LinkTypeOK, MapIsOpen, ClaimIsExclusive, CallersWait
  <1>2. CASE Deliver
    BY <1>2 DEF Deliver, LinkInv, LinkTypeOK, MapIsOpen, ClaimIsExclusive, CallersWait
  <1> QED BY <1>1, <1>2 DEF Reader

\* A ping registers under an id no request uses.
LEMMA PingerStep ==
    ASSUME LinkInv, Pinger
    PROVE  LinkInv'
  <1>1. \A p \in Pings : p \in Ids /\ p \notin Requests
    BY PhoneLinkAssumption DEF Ids
  <1>2. call \in [Requests -> {"idle", "posting", "waiting", "slow"}]
    BY DEF LinkInv, LinkTypeOK
  <1>3. ASSUME NEW p \in Pings, LoopPing(p) \/ Reping(p) PROVE LinkInv'
    BY <1>1, <1>2, <1>3, RegisterKeeps DEF LoopPing, Reping, PingSent, Fresh
  <1>4. ASSUME NEW p \in Pings, PingAnswered(p) PROVE LinkInv'
    BY <1>1, <1>2, <1>4, ReadKeeps DEF PingAnswered
  <1>5. ASSUME NEW p \in Pings, PingTimesOut(p) \/ PingAbandoned(p) PROVE LinkInv'
    BY <1>5, WaitersUnchanged DEF PingTimesOut, PingAbandoned
  <1>6. CASE PingFails
    BY <1>6, WaitersUnchanged DEF PingFails
  <1> QED BY <1>3, <1>4, <1>5, <1>6 DEF Pinger

\* Every step of the requests, the reader, the pinger and the cancellation keeps it.
LEMMA LinkStep == LinkInv /\ [LinkNext]_linkVars => LinkInv'
  <1> SUFFICES ASSUME LinkInv, [LinkNext]_linkVars PROVE LinkInv'
    OBVIOUS
  <1>1. CASE CancelAllResponseWaiters
    BY <1>1 DEF CancelAllResponseWaiters, LinkInv, LinkTypeOK, MapIsOpen, ClaimIsExclusive,
                CallersWait
  <1>2. CASE \/ LinkConnect \/ PollFails \/ LinkDisconnect \/ CancelPoll \/ PollJoined
             \/ LinkPollEnds \/ PhoneOutage \/ PhoneReturns
    BY <1>2, WaitersUnchanged DEF LinkConnect, PollFails, LinkDisconnect, CancelPoll, PollJoined,
                                  LinkPollEnds, PhoneOutage, PhoneReturns
  <1>3. CASE UNCHANGED linkVars
    BY <1>3, WaitersUnchanged DEF linkVars
  <1> QED
    BY <1>1, <1>2, <1>3, RequestStep, ReaderStep, PingerStep DEF LinkNext, Bridge

\* No answer is sent on a channel that a timeout, a cancelled caller or
\* Disconnect has closed, and no call returns without its waiter, for any number
\* of requests and pings in flight (receiveResponse, cancelResponse,
\* cancelAllResponseWaiters).
THEOREM WaitersAreOwned == LinkSpec => []WaiterOwnsChannel
  <1>1. LinkSpec => []LinkInv
    BY LinkInitially, LinkStep, PTL DEF LinkSpec
  <1>2. LinkInv => WaiterOwnsChannel
    BY DEF LinkInv, ClaimIsExclusive, MapIsOpen, CallersWait, WaiterOwnsChannel
  <1> QED BY <1>1, <1>2, PTL

-----------------------------------------------------------------------------
(***************************************************************************)
(* Proof that Matrix is told of a message once. The inductive invariant    *)
(* says that the flags of a row count what was told, that the readers a    *)
(* row remembers were reported, and that the entry of a send that was      *)
(* answered "the phone does not respond" is left only by its echo.         *)
(***************************************************************************)

\* The row of a bridged message.
BridgedRow ==
    [room: Rooms, status: Statuses, outgoing: BOOLEAN, text: 0..1, missing: BOOLEAN,
     success: BOOLEAN, failure: BOOLEAN, delivery: BOOLEAN, read: BOOLEAN,
     statusText: SUBSET Participants, readBy: SUBSET Participants]

Told == [success: 0..1, failure: 0..1, delivery: 0..1, read: 0..1,
         last: {"none", "success", "failure"}, readers: SUBSET Participants]

\* The flag of the row counts what was told.
Counts(flag, told) == (flag => told = 1) /\ (~flag => told = 0)

\* Matrix was told of a row exactly what its flags say, and of a success last.
FlagsTell(r, d) ==
    /\ Counts(r.success, d.success) /\ Counts(r.failure, d.failure)
    /\ Counts(r.delivery, d.delivery) /\ Counts(r.read, d.read)
    /\ r.success => d.last = "success"
    /\ r.readBy \subseteq d.readers

RowHolds(r, d) ==
    /\ r \in BridgedRow \cup {NoRow} /\ d \in Told
    /\ r = NoRow => d = NothingReported
    /\ r # NoRow => FlagsTell(r, d)

RoomInv ==
    /\ DOMAIN row = Messages /\ row = [m \in Messages |-> row[m]]
    /\ reported = [m \in Messages |-> reported[m]]
    /\ \A m \in Messages : RowHolds(row[m], reported[m])

\* A message that is being sent has no certain answer yet, and one the phone may
\* still send is awaited or was echoed.
EchoInv ==
    /\ answer = [m \in Messages |-> answer[m]]
    /\ \A m \in sending : m \in Messages => answer[m] = "none" /\ m \in pending \cup echoed
    /\ \A m \in Messages : answer[m] = "phoneNotResponding" => m \in pending \cup echoed

\* A row just converted, of which nothing was told, agrees with its flags.
LEMMA ConvertedHolds ==
    ASSUME NEW room \in Rooms, NEW s \in Statuses, NEW text \in 0..1, NEW missing \in BOOLEAN,
           NEW out \in BOOLEAN
    PROVE  /\ RowHolds(Converted(room, s, text, missing), NothingReported)
           /\ RowHolds([Converted(room, s, text, missing) EXCEPT !.outgoing = out],
                       NothingReported)
           /\ RowHolds(NoRow, NothingReported)
<1>1. NothingReported \in Told
  BY DEF NothingReported, Told
<1>2. Converted(room, s, text, missing) \in BridgedRow
  BY DEF Converted, BridgedRow
<1>3. [Converted(room, s, text, missing) EXCEPT !.outgoing = out] \in BridgedRow
  BY <1>2 DEF Converted, BridgedRow
<1>4. FlagsTell(Converted(room, s, text, missing), NothingReported)
  BY DEF FlagsTell, Counts, Converted, NothingReported
<1>5. FlagsTell([Converted(room, s, text, missing) EXCEPT !.outgoing = out], NothingReported)
  BY DEF FlagsTell, Counts, Converted, NothingReported
<1>6. \A r \in BridgedRow : r # NoRow
  BY DEF BridgedRow, NoRow, Rooms
<1> QED BY <1>1, <1>2, <1>3, <1>4, <1>5, <1>6 DEF RowHolds

\* What Matrix has been told once HandleExisting reported what was left to report.
ToldOf(d, r, room, s, seen) ==
    [success  |-> d.success + (IF NeedsSuccess(r, s) THEN 1 ELSE 0),
     failure  |-> d.failure + (IF NeedsFailure(r, s) /\ ~NeedsSuccess(r, s) THEN 1 ELSE 0),
     delivery |-> d.delivery + (IF NeedsDelivery(r, room, s) THEN 1 ELSE 0),
     read     |-> d.read + (IF NeedsRead(r, room, s) THEN 1 ELSE 0),
     last     |-> IF NeedsSuccess(r, s) THEN "success"
                  ELSE IF NeedsFailure(r, s) THEN "failure" ELSE d.last,
     readers  |-> d.readers \cup AddedReads(r, room, s, seen)]

\* One flag: a report is made only where the flag is not set, and sets it.
LEMMA CountsOnce ==
    ASSUME NEW flag, NEW told \in 0..1, NEW needs, flag \in BOOLEAN, needs \in BOOLEAN,
           Counts(flag, told), needs => ~flag
    PROVE  /\ Counts(flag \/ needs, told + (IF needs THEN 1 ELSE 0))
           /\ told + (IF needs THEN 1 ELSE 0) \in 0..1
           /\ (flag \/ needs) \in BOOLEAN
<1>1. CASE needs
  <2>1. ~flag /\ told = 0
    BY <1>1 DEF Counts
  <2> QED BY <1>1, <2>1 DEF Counts
<1>2. CASE ~needs
  BY <1>2 DEF Counts
<1> QED BY <1>1, <1>2

\* HandleExisting sets each flag with its report, whether or not the row is also edited.
LEMMA FlaggedHolds ==
    ASSUME NEW r \in BridgedRow, NEW d, RowHolds(r, d),
           NEW room \in Rooms, NEW s \in Statuses, NEW text \in 0..1, NEW missing \in BOOLEAN,
           NEW seen \in ReadByTexts
    PROVE  /\ RowHolds(Flagged(r, room, s, seen), ToldOf(d, r, room, s, seen))
           /\ RowHolds(ConvertEdit(Flagged(r, room, s, seen), room, s, text, missing),
                       ToldOf(d, r, room, s, seen))
<1> DEFINE ns == NeedsSuccess(r, s)
           nf == NeedsFailure(r, s) /\ ~NeedsSuccess(r, s)
           nd == NeedsDelivery(r, room, s)
           nr == NeedsRead(r, room, s)
           f  == Flagged(r, room, s, seen)
           e  == ConvertEdit(f, room, s, text, missing)
           t  == ToldOf(d, r, room, s, seen)
<1>0. \A b \in BridgedRow : b # NoRow
  BY DEF BridgedRow, NoRow, Rooms
<1>1. FlagsTell(r, d) /\ d \in Told
  BY <1>0 DEF RowHolds
<1>2. /\ r.success \in BOOLEAN /\ r.failure \in BOOLEAN /\ r.delivery \in BOOLEAN
      /\ r.read \in BOOLEAN /\ r.outgoing \in BOOLEAN
      /\ d.success \in 0..1 /\ d.failure \in 0..1 /\ d.delivery \in 0..1 /\ d.read \in 0..1
      /\ d.last \in {"none", "success", "failure"}
      /\ d.readers \subseteq Participants /\ r.readBy \subseteq Participants
      /\ r.statusText \subseteq Participants
      /\ seen.known \subseteq Participants /\ seen.names \subseteq Participants
  BY <1>1 DEF BridgedRow, Told, ReadByTexts
<1>3. ns \in BOOLEAN /\ nf \in BOOLEAN /\ nd \in BOOLEAN /\ nr \in BOOLEAN
  BY DEF NeedsSuccess, NeedsFailure, NeedsDelivery, NeedsRead
<1>4. (ns => ~r.success) /\ (nf => ~r.failure) /\ (nd => ~r.delivery) /\ (nr => ~r.read)
  BY DEF NeedsSuccess, NeedsFailure, NeedsDelivery, NeedsRead
<1>5. /\ f.success = (r.success \/ ns) /\ f.failure = (r.failure \/ nf)
      /\ f.delivery = (r.delivery \/ nd) /\ f.read = (r.read \/ nr)
      /\ f.outgoing = r.outgoing
      /\ f.statusText \in {r.statusText, seen.names}
      /\ f.readBy \subseteq r.readBy \cup AddedReads(r, room, s, seen)
  BY DEF Flagged, BridgedRow, AddedReads
<1>6. /\ e.success = f.success /\ e.failure = f.failure
      /\ e.delivery = f.delivery /\ e.read = f.read
      /\ e.readBy = {} /\ e.statusText = {}
  BY DEF ConvertEdit, Converted
<1>7. /\ t.success = d.success + (IF ns THEN 1 ELSE 0)
      /\ t.failure = d.failure + (IF nf THEN 1 ELSE 0)
      /\ t.delivery = d.delivery + (IF nd THEN 1 ELSE 0)
      /\ t.read = d.read + (IF nr THEN 1 ELSE 0)
      /\ t.last = IF ns THEN "success" ELSE IF NeedsFailure(r, s) THEN "failure" ELSE d.last
      /\ t.readers = d.readers \cup AddedReads(r, room, s, seen)
  BY DEF ToldOf
<1>8. t.last \in {"none", "success", "failure"}
  BY <1>2, <1>7
<1>9. (r.success \/ ns) => t.last = "success"
  BY <1>1, <1>7 DEF FlagsTell, NeedsFailure
<1>10. Counts(r.success \/ ns, t.success) /\ t.success \in 0..1 /\ (r.success \/ ns) \in BOOLEAN
  BY <1>1, <1>2, <1>3, <1>4, <1>7, CountsOnce DEF FlagsTell
<1>11. Counts(r.failure \/ nf, t.failure) /\ t.failure \in 0..1 /\ (r.failure \/ nf) \in BOOLEAN
  <2> HIDE DEF nf, t
  <2>1. Counts(r.failure, d.failure)
    BY <1>1 DEF FlagsTell
  <2> QED BY <1>2, <1>3, <1>4, <1>7, <2>1, CountsOnce
<1>12. Counts(r.delivery \/ nd, t.delivery) /\ t.delivery \in 0..1 /\ (r.delivery \/ nd) \in BOOLEAN
  BY <1>1, <1>2, <1>3, <1>4, <1>7, CountsOnce DEF FlagsTell
<1>13. Counts(r.read \/ nr, t.read) /\ t.read \in 0..1 /\ (r.read \/ nr) \in BOOLEAN
  BY <1>1, <1>2, <1>3, <1>4, <1>7, CountsOnce DEF FlagsTell
<1>14. t \in Told
  <2>1. t = [success |-> t.success, failure |-> t.failure, delivery |-> t.delivery,
             read |-> t.read, last |-> t.last, readers |-> t.readers]
    BY DEF ToldOf
  <2>2. t.readers \subseteq Participants
    BY <1>2, <1>7 DEF AddedReads
  <2> HIDE DEF t
  <2> QED BY <2>1, <2>2, <1>8, <1>10, <1>11, <1>12, <1>13 DEF Told
<1>15. f \in BridgedRow
  <2>1. f = [room |-> r.room, status |-> r.status, outgoing |-> r.outgoing, text |-> r.text,
             missing |-> r.missing, success |-> f.success, failure |-> f.failure,
             delivery |-> f.delivery, read |-> f.read, statusText |-> f.statusText,
             readBy |-> f.readBy]
    <3> DEFINE a == r.success \/ ns
               b == r.failure \/ nf
               c == r.delivery \/ nd
               g == r.read \/ nr
               h == IF NeedsGroupRead(r, room, s, seen) /\ seen.cached
                    THEN seen.names ELSE r.statusText
               k == IF NeedsGroupRead(r, room, s, seen) /\ seen.cached
                    THEN seen.known ELSE r.readBy
    <3>1. f = [r EXCEPT !.success = a, !.failure = b, !.delivery = c, !.read = g,
                        !.statusText = h, !.readBy = k]
      BY DEF Flagged
    <3> HIDE DEF f, a, b, c, g, h, k
    <3> QED BY <3>1 DEF BridgedRow
  <2>2. /\ r.room \in Rooms /\ r.status \in Statuses /\ r.text \in 0..1
        /\ r.missing \in BOOLEAN
    BY DEF BridgedRow
  <2>3. f.statusText \subseteq Participants /\ f.readBy \subseteq Participants
    <3>1. AddedReads(r, room, s, seen) \subseteq Participants
      BY <1>2 DEF AddedReads
    <3> HIDE DEF f
    <3> QED BY <1>2, <1>5, <3>1
  <2>4. f.success \in BOOLEAN /\ f.failure \in BOOLEAN /\ f.delivery \in BOOLEAN
        /\ f.read \in BOOLEAN
    BY <1>5, <1>10, <1>11, <1>12, <1>13
  <2> HIDE DEF f
  <2> QED BY <1>2, <2>1, <2>2, <2>3, <2>4 DEF BridgedRow
<1>16. e \in BridgedRow
  <2>1. f.success \in BOOLEAN /\ f.failure \in BOOLEAN /\ f.delivery \in BOOLEAN
        /\ f.read \in BOOLEAN /\ f.outgoing \in BOOLEAN
    BY <1>15 DEF BridgedRow
  <2> HIDE DEF f
  <2> QED BY <2>1 DEF ConvertEdit, Converted, BridgedRow
<1>17. FlagsTell(f, t)
  <2>1. f.readBy \subseteq t.readers
    <3>1. r.readBy \subseteq d.readers
      BY <1>1 DEF FlagsTell
    <3> HIDE DEF f, t
    <3> QED BY <3>1, <1>5, <1>7
  <2> HIDE DEF f, t, ns, nf, nd, nr
  <2> QED BY <2>1, <1>5, <1>9, <1>10, <1>11, <1>12, <1>13 DEF FlagsTell
<1>18. FlagsTell(e, t)
  <2> HIDE DEF f, e, t
  <2> QED BY <1>6, <1>17 DEF FlagsTell
<1> HIDE DEF f, e, t
<1>19. RowHolds(f, t) /\ RowHolds(e, t)
  BY <1>0, <1>14, <1>15, <1>16, <1>17, <1>18 DEF RowHolds
<1> QED BY <1>19 DEF f, e, t

\* A step that leaves one message's row and report in agreement keeps the invariant.
LEMMA RowWritten ==
    ASSUME RoomInv, NEW m \in Messages, NEW new, NEW told, RowHolds(new, told),
           row' = [row EXCEPT ![m] = new], reported' = [reported EXCEPT ![m] = told]
    PROVE  RoomInv'
BY DEF RoomInv

\* The same for a step that reports nothing.
LEMMA RowWrittenAlone ==
    ASSUME RoomInv, NEW m \in Messages, NEW new, RowHolds(new, reported[m]),
           row' = [row EXCEPT ![m] = new], UNCHANGED reported
    PROVE  RoomInv'
BY DEF RoomInv

\* Every step of the bridge keeps rows and reports in agreement.
LEMMA RoomNextKeeps ==
    ASSUME RoomInv, [RoomNext]_roomVars
    PROVE  RoomInv'
<1>0. ASSUME UNCHANGED <<row, reported>> PROVE RoomInv'
  BY <1>0 DEF RoomInv
<1>1. CASE MatrixStep
  BY <1>0, <1>1 DEF MatrixStep, HandleMatrixMessage, SendMessageReturns
<1>2. ASSUME NEW m \in Messages, MessageDeleted(m) PROVE RoomInv'
  <2>1. RowHolds(NoRow, NothingReported)
    BY DEF RowHolds, NothingReported, Told
  <2> QED BY <1>0, <1>2, <2>1, RowWritten DEF MessageDeleted
<1>3. ASSUME NEW m \in Messages, NEW room \in Rooms, NEW s \in Statuses,
             RemoteEcho(m, room, s)
      PROVE  RoomInv'
  <2> DEFINE new == [Converted(room, s, 0, FALSE) EXCEPT !.outgoing = TRUE]
  <2>1. reported[m] = NothingReported
    BY <1>3 DEF RemoteEcho, Bridged, RoomInv, RowHolds
  <2>2. RowHolds(new, NothingReported)
    <3>1. 0 \in 0..1 /\ FALSE \in BOOLEAN /\ TRUE \in BOOLEAN
      OBVIOUS
    <3> QED BY <3>1, ConvertedHolds
  <2>3. row' = [row EXCEPT ![m] = new] /\ UNCHANGED reported
    BY <1>3 DEF RemoteEcho
  <2> HIDE DEF new
  <2> QED BY <2>1, <2>2, <2>3, RowWrittenAlone
<1>4. ASSUME NEW m \in Messages, NEW room \in Rooms, NEW s \in Statuses,
             NEW missing \in BOOLEAN, ConvertMessage(m, room, s, missing)
      PROVE  RoomInv'
  <2> DEFINE new == Converted(room, s, 0, missing)
  <2>1. reported[m] = NothingReported
    BY <1>4 DEF ConvertMessage, Bridged, RoomInv, RowHolds
  <2>2. RowHolds(new, NothingReported)
    <3>1. 0 \in 0..1 /\ FALSE \in BOOLEAN /\ TRUE \in BOOLEAN
      OBVIOUS
    <3> QED BY <3>1, ConvertedHolds
  <2>3. row' = [row EXCEPT ![m] = new] /\ UNCHANGED reported
    BY <1>4 DEF ConvertMessage
  <2> HIDE DEF new
  <2> QED BY <2>1, <2>2, <2>3, RowWrittenAlone
<1>5. ASSUME NEW m \in Messages, NEW room \in Rooms, NEW s \in Statuses,
             NEW missing \in BOOLEAN, DeleteAndResend(m, room, s, missing)
      PROVE  RoomInv'
  <2> DEFINE new == IF s = "auto" THEN NoRow ELSE Converted(room, s, 0, missing)
  <2>1. RowHolds(new, NothingReported)
    <3>1. 0 \in 0..1 /\ FALSE \in BOOLEAN /\ TRUE \in BOOLEAN
      OBVIOUS
    <3> QED BY <3>1, ConvertedHolds
  <2>2. row' = [row EXCEPT ![m] = new] /\ reported' = [reported EXCEPT ![m] = NothingReported]
    BY <1>5 DEF DeleteAndResend
  <2> HIDE DEF new
  <2> QED BY <2>1, <2>2, RowWritten
<1>6. ASSUME NEW m \in Messages, NEW room \in Rooms, NEW s \in Statuses, NEW text \in 0..1,
             NEW missing \in BOOLEAN, NEW seen \in StatusTexts(room, s),
             HandleExisting(m, room, s, text, missing, seen)
      PROVE  RoomInv'
  <2>0. seen \in ReadByTexts
    <3>1. NoReadBy \in ReadByTexts
      BY DEF ReadByTexts, NoReadBy
    <3> QED BY <3>1 DEF StatusTexts
  <2> DEFINE r == row[m]
             f == Flagged(r, room, s, seen)
             e == ConvertEdit(f, room, s, text, missing)
             t == ToldOf(reported[m], r, room, s, seen)
             new == IF NeedsResync(r, room, s, text, missing) THEN e ELSE f
  <2>1. RowHolds(r, reported[m]) /\ r \in BridgedRow
    BY <1>6 DEF HandleExisting, Bridged, RoomInv, RowHolds
  <2>2. RowHolds(f, t) /\ RowHolds(e, t)
    BY <2>0, <2>1, FlaggedHolds
  <2>3. \/ UNCHANGED <<row, reported>>
        \/ reported' = Report(m, r, room, s, seen) /\ row' = [row EXCEPT ![m] = new]
    BY <1>6 DEF HandleExisting
  <2>4. Report(m, r, room, s, seen) = [reported EXCEPT ![m] = t]
    BY DEF Report, ToldOf
  <2>5. RowHolds(new, t)
    BY <2>2
  <2> HIDE DEF t, new
  <2> QED BY <1>0, <2>3, <2>4, <2>5, RowWritten
<1>7. ASSUME NEW i \in 1..MaxSyncs, NEW m \in Messages, NEW s \in {"received"} \cup Sent,
             FetchMessages(i, m, s)
      PROVE  RoomInv'
  <2>1. CASE Bridged(m)
    BY <1>0, <1>7, <2>1 DEF FetchMessages
  <2>2. CASE ~Bridged(m)
    <3>1. PICK out \in BOOLEAN : out = (m \in pending)
      <4>1. CASE m \in pending
        <5>1. TRUE = (m \in pending)
          BY <4>1
        <5> QED BY <5>1
      <4>2. CASE m \notin pending
        <5>1. FALSE = (m \in pending)
          BY <4>2
        <5> QED BY <5>1
      <4> QED BY <4>1, <4>2
    <3> DEFINE new == [Converted("dm", s, 0, FALSE) EXCEPT !.outgoing = out]
    <3>2. reported[m] = NothingReported
      BY <2>2 DEF Bridged, RoomInv, RowHolds
    <3>3. RowHolds(new, NothingReported)
      <4>1. s \in Statuses /\ "dm" \in Rooms /\ 0 \in 0..1 /\ FALSE \in BOOLEAN
        BY DEF Statuses, Sent, Rooms
      <4> QED BY <4>1, ConvertedHolds
    <3>4. row' = [row EXCEPT ![m] = new] /\ UNCHANGED reported
      BY <1>7, <2>2, <3>1 DEF FetchMessages
    <3> HIDE DEF new
    <3> QED BY <3>2, <3>3, <3>4, RowWrittenAlone
  <2> QED BY <2>1, <2>2
<1>8. CASE PhoneStep
  BY <1>2, <1>3, <1>4, <1>5, <1>6, <1>8 DEF PhoneStep
<1>9. CASE ResyncStep
  BY <1>0, <1>7, <1>9 DEF ResyncStep, SyncConversations, MobileSyncStarted,
     MobileSyncComplete, SyncFinishes, DelayBackfill, BackfillWaits, BackfillEnds
<1>10. CASE UNCHANGED roomVars
  BY <1>0, <1>10 DEF roomVars
<1> QED BY <1>1, <1>8, <1>9, <1>10 DEF RoomNext

\* Every step keeps the entry of a message the phone may still send, until its echo.
LEMMA EchoNextKeeps ==
    ASSUME EchoInv, [RoomNext]_roomVars
    PROVE  EchoInv'
<1>0. ASSUME UNCHANGED matrixVars PROVE EchoInv'
  BY <1>0 DEF EchoInv, matrixVars
<1>1. ASSUME NEW m \in Messages, NEW accepted \in BOOLEAN, HandleMatrixMessage(m, accepted)
      PROVE  EchoInv'
  BY <1>1 DEF EchoInv, HandleMatrixMessage
<1>2. ASSUME NEW m \in Messages, NEW outcome \in {"none", "phoneNotResponding", "failed"},
             SendMessageReturns(m, outcome)
      PROVE  EchoInv'
  BY <1>2 DEF EchoInv, SendMessageReturns
<1>3. ASSUME NEW m \in Messages, NEW room \in Rooms, NEW s \in Statuses,
             RemoteEcho(m, room, s)
      PROVE  EchoInv'
  BY <1>3 DEF EchoInv, RemoteEcho
<1>4. ASSUME NEW i \in 1..MaxSyncs, NEW m \in Messages, NEW s \in {"received"} \cup Sent,
             FetchMessages(i, m, s)
      PROVE  EchoInv'
  BY <1>4 DEF EchoInv, FetchMessages
<1>5. CASE PhoneStep
  <2>1. ASSUME NEW m \in Messages, MessageDeleted(m) PROVE EchoInv'
    BY <1>0, <2>1 DEF MessageDeleted
  <2>2. ASSUME NEW m \in Messages, NEW room \in Rooms, NEW s \in Statuses,
               NEW missing \in BOOLEAN,
               ConvertMessage(m, room, s, missing) \/ DeleteAndResend(m, room, s, missing)
        PROVE  EchoInv'
    BY <1>0, <2>2 DEF ConvertMessage, DeleteAndResend
  <2>3. ASSUME NEW m \in Messages, NEW room \in Rooms, NEW s \in Statuses, NEW text \in 0..1,
               NEW missing \in BOOLEAN, NEW seen \in StatusTexts(room, s),
               HandleExisting(m, room, s, text, missing, seen)
        PROVE  EchoInv'
    BY <1>0, <2>3 DEF HandleExisting
  <2> QED BY <1>3, <1>5, <2>1, <2>2, <2>3 DEF PhoneStep
<1>6. CASE ResyncStep
  BY <1>0, <1>4, <1>6 DEF ResyncStep, SyncConversations, MobileSyncStarted,
     MobileSyncComplete, SyncFinishes, DelayBackfill, BackfillWaits, BackfillEnds
<1>7. CASE UNCHANGED roomVars
  BY <1>0, <1>7 DEF roomVars
<1> QED BY <1>1, <1>2, <1>5, <1>6, <1>7 DEF RoomNext, MatrixStep

\* Flags that count the reports make every report the only one of its kind.
LEMMA RoomInvReportsOnce == RoomInv /\ EchoInv => ReportedOnce
<1> SUFFICES ASSUME RoomInv, EchoInv, NEW m \in Messages
             PROVE  LET r == reported[m]
                    IN  /\ r.success <= 1 /\ r.failure <= 1 /\ r.delivery <= 1 /\ r.read <= 1
                        /\ r.success = 1 => r.last = "success"
                        /\ Bridged(m) => row[m].readBy \subseteq r.readers
                        /\ answer[m] = "phoneNotResponding" => m \in pending \cup echoed
  BY DEF ReportedOnce
<1>1. RowHolds(row[m], reported[m])
  BY DEF RoomInv
<1>2. CASE row[m] = NoRow
  BY <1>1, <1>2 DEF RowHolds, NothingReported, Bridged, EchoInv
<1>3. CASE row[m] # NoRow
  BY <1>1, <1>3 DEF RowHolds, FlagsTell, Counts, Told, EchoInv
<1> QED BY <1>2, <1>3

\* The Matrix bridge, for every number of messages, group members, updates and
\* resyncs: whatever the order of the phone's updates, edits, deletions and
\* backfills, the updates tell Matrix at most once of each outcome and never of a
\* failure after a success, the readers a row remembers were reported, and a send
\* answered "the phone does not respond" is awaited until its echo.
THEOREM BridgeReportsOnce == RoomSpec => []ReportedOnce
<1>1. RoomInit => RoomInv
  <2>1. RowHolds(NoRow, NothingReported)
    BY DEF RowHolds, NothingReported, Told
  <2> QED BY <2>1 DEF RoomInit, RoomInv
<1>2. RoomInit => EchoInv
  BY DEF RoomInit, EchoInv
<1>3. RoomInv /\ [RoomNext]_roomVars => RoomInv'
  BY RoomNextKeeps
<1>4. EchoInv /\ [RoomNext]_roomVars => EchoInv'
  BY EchoNextKeeps
<1> QED BY <1>1, <1>2, <1>3, <1>4, RoomInvReportsOnce, PTL DEF RoomSpec

-----------------------------------------------------------------------------
(***************************************************************************)
(* Proof that a login is saved only for a phone that was paired. The       *)
(* inductive invariant follows a login: what was exchanged with the phone  *)
(* before the place it is at, and that nothing is posted or saved before   *)
(* the two agreed.                                                         *)
(***************************************************************************)

\* Where a login of a Google account is before its client init, and what only such
\* a login reaches.
BeforeInit == {"new", "configured", "signed", "found", "opening"}
OnlyGoogle == {"signed", "found", "opening", "init", "approval", "finish", "complete"}

\* From its client finished on a login never goes back.
FromFinish == {"finish", "failing", "complete", "leaving", "saving", "closing", "ended"}

\* Where a login is when it is stored, and after.
Over == {"closing", "ended"}

QROffer == [keys |-> 0, codes |-> 0]
QRCode(l) == [of |-> {l}, table |-> 0]

Exchanges ==
    [state: {"offered", "approved", "refused", "cancelled", "revoked"},
     offer: ServerInits \cup {QROffer}, phones: SUBSET Phones]

Met(l) == exchange[l].state # "none"
Agreed(l) == exchange[l].state \in {"approved", "revoked"}

LoginFunctions ==
    /\ flow = [l \in Logins |-> flow[l]] /\ at = [l \in Logins |-> at[l]]
    /\ dest = [l \in Logins |-> dest[l]] /\ loginPoll = [l \in Logins |-> loginPoll[l]]
    /\ offer = [l \in Logins |-> offer[l]] /\ shown = [l \in Logins |-> shown[l]]
    /\ keys = [l \in Logins |-> keys[l]] /\ exchange = [l \in Logins |-> exchange[l]]
    /\ saved = [p \in Phones |-> saved[p]]

\* The flow a login takes decides where it may be.
FlowHolds(l) ==
    /\ flow[l] \in {"google", "gateway", "qr"}
    /\ at[l] \in OnlyGoogle => flow[l] # "qr"
    /\ at[l] \in {"scan", "refresh"} => flow[l] = "qr"
    /\ dest[l] \subseteq Phones /\ \A p, q \in dest[l] : p = q

\* The phone's side, and what it has to do with the login's own.
ExchangeHolds(l) ==
    /\ Met(l) => exchange[l] \in Exchanges
    /\ Met(l) /\ flow[l] # "qr" => exchange[l].phones = dest[l] /\ at[l] \notin BeforeInit
    /\ Met(l) /\ flow[l] = "qr" =>
          /\ exchange[l].offer = QROffer /\ shown[l] = QRCode(l)
          /\ \A p, q \in exchange[l].phones : p = q
    /\ exchange[l].state = "revoked" => at[l] \in Over

\* A QR login: its code and keys are made together, its device comes with the answer.
QRHolds(l) ==
    /\ flow[l] = "qr" /\ shown[l] # Unset =>
          shown[l] = QRCode(l) /\ keys[l] = QRKeys(l) /\ at[l] \notin {"new", "configured"}
    /\ flow[l] = "qr" /\ dest[l] # {} => Agreed(l) /\ dest[l] = exchange[l].phones
    /\ loginPoll[l] = "held" => flow[l] = "qr" /\ Agreed(l) /\ dest[l] = exchange[l].phones

\* Both sides hold the pairing.
Paired(l) ==
    /\ exchange[l].state = "approved" /\ dest[l] = exchange[l].phones
    /\ shown[l] = PhoneEmoji(l) /\ keys[l] = Derived({l}, exchange[l].offer.keys)

ProgressHolds(l) ==
    /\ at[l] \in {"approval", "finish"} =>
          Met(l) /\ offer[l] = [of |-> {l}, keys |-> exchange[l].offer.keys]
    /\ at[l] \in {"leaving", "saving", "complete"} => Paired(l)

PostsHold(l) ==
    /\ [of |-> l, action |-> "init"] \in posts => flow[l] # "qr" /\ at[l] \notin BeforeInit
    /\ [of |-> l, action |-> "finish"] \in posts => flow[l] # "qr" /\ at[l] \in FromFinish

\* What an answer says of the exchange it belongs to.
ReplyHolds(r) ==
    /\ r.of \in Logins
    /\ r.action = "init" => Met(r.of) /\ flow[r.of] # "qr" /\ r.offer = exchange[r.of].offer
    /\ r.action = "finish" /\ r.approved =>
          /\ Agreed(r.of) /\ flow[r.of] # "qr" /\ shown[r.of] = PhoneEmoji(r.of)
          /\ at[r.of] \in FromFinish
    /\ r.action = "paired" =>
          Agreed(r.of) /\ flow[r.of] = "qr" /\ exchange[r.of].phones = {r.phone}

\* A stored login is over, and is the pairing of its one device.
SavedHolds(p) ==
    saved[p] # Unset =>
       LET l == saved[p].of IN
          /\ l \in Logins /\ at[l] \in Over /\ p \in dest[l] /\ Paired(l)
          /\ saved[p].keys = keys[l]

LoginHolds(l) ==
    FlowHolds(l) /\ ExchangeHolds(l) /\ QRHolds(l) /\ ProgressHolds(l) /\ PostsHold(l)

LoginInv ==
    /\ LoginFunctions
    /\ \A l \in Logins : LoginHolds(l)
    /\ \A r \in replies : ReplyHolds(r)
    /\ \A p \in Phones : SavedHolds(p)

\* What a step leaves alone of a login that does not act in it.
Rests(o) ==
    /\ flow'[o] = flow[o] /\ at'[o] = at[o] /\ dest'[o] = dest[o]
    /\ loginPoll'[o] = loginPoll[o] /\ offer'[o] = offer[o] /\ shown'[o] = shown[o]
    /\ keys'[o] = keys[o] /\ exchange'[o] = exchange[o]
    /\ \A a \in {"init", "finish"} :
          [of |-> o, action |-> a] \in posts' => [of |-> o, action |-> a] \in posts

\* What no step takes back of the login that acts.
Advances(l) ==
    /\ flow'[l] = flow[l]
    /\ Met(l) => /\ exchange'[l].state # "none"
                 /\ exchange'[l].offer = exchange[l].offer
                 /\ exchange'[l].phones = exchange[l].phones
    /\ Agreed(l) => exchange'[l].state \in {"approved", "revoked"}
    /\ at[l] \in FromFinish => at'[l] \in FromFinish /\ shown'[l] = shown[l]
    /\ at[l] \in Over =>
          /\ at'[l] \in Over /\ keys'[l] = keys[l]
          /\ dest[l] # {} => dest'[l] = dest[l]

\* An approval is only taken back by unpairing.
Forward(l) ==
    Advances(l) /\ (exchange[l].state = "approved" => exchange'[l].state = "approved")

\* A login that rests stays as it was.
LEMMA RestingHolds ==
    ASSUME NEW o, LoginHolds(o), Rests(o)
    PROVE  LoginHolds(o)' /\ Forward(o)
<1> USE DEF Rests
<1>1. FlowHolds(o)'
  BY DEF LoginHolds, FlowHolds
<1>2. ExchangeHolds(o)'
  BY DEF LoginHolds, ExchangeHolds, Met
<1>3. QRHolds(o)'
  BY DEF LoginHolds, QRHolds, Agreed, QRKeys, Derived
<1>4. ProgressHolds(o)'
  BY DEF LoginHolds, ProgressHolds, Met, Paired, PhoneEmoji
<1>5. PostsHold(o)'
  BY DEF LoginHolds, PostsHold
<1>6. Forward(o)
  BY DEF Forward, Advances, Met, Agreed
<1> QED BY <1>1, <1>2, <1>3, <1>4, <1>5, <1>6 DEF LoginHolds

\* An answer keeps its meaning while its login goes forward.
LEMMA RepliesHold ==
    ASSUME NEW r, ReplyHolds(r), Advances(r.of)
    PROVE  ReplyHolds(r)'
<1> DEFINE l == r.of
<1>1. r.action = "init" => Met(l)' /\ (flow[l] # "qr")' /\ r.offer = exchange'[l].offer
  BY DEF ReplyHolds, Advances, Met
<1>2. r.action = "finish" /\ r.approved =>
          /\ Agreed(l)' /\ (flow[l] # "qr")' /\ shown'[l] = PhoneEmoji(l)'
          /\ (at[l] \in FromFinish)'
  BY DEF ReplyHolds, Advances, Met, Agreed, PhoneEmoji
<1>3. r.action = "paired" => Agreed(l)' /\ (flow[l] = "qr")' /\ exchange'[l].phones = {r.phone}
  BY DEF ReplyHolds, Advances, Met, Agreed
<1>4. l \in Logins
  BY DEF ReplyHolds
<1> QED BY <1>1, <1>2, <1>3, <1>4 DEF ReplyHolds

\* A stored login stays a pairing of its device while it goes forward.
LEMMA StoredHolds ==
    ASSUME NEW p, SavedHolds(p), saved'[p] = saved[p], saved[p] # Unset => Forward(saved[p].of)
    PROVE  SavedHolds(p)'
<1> SUFFICES ASSUME saved[p] # Unset PROVE SavedHolds(p)'
  BY DEF SavedHolds, Unset
<1>1. PICK l \in Logins : /\ l = saved[p].of /\ at[l] \in Over /\ p \in dest[l] /\ Paired(l)
                         /\ saved[p].keys = keys[l]
  BY DEF SavedHolds
<1>2. Forward(l)
  BY <1>1
<1>3. at'[l] \in Over /\ p \in dest'[l] /\ saved[p].keys = keys'[l]
  BY <1>1, <1>2 DEF Forward, Advances
<1>4. Paired(l)'
  <2>1. exchange[l].state = "approved" /\ Met(l) /\ at[l] \in FromFinish /\ dest[l] # {}
    BY <1>1 DEF Paired, Met, Over, FromFinish
  <2>2. /\ exchange'[l].state = "approved" /\ exchange'[l].offer = exchange[l].offer
        /\ exchange'[l].phones = exchange[l].phones /\ dest'[l] = dest[l]
        /\ shown'[l] = shown[l] /\ keys'[l] = keys[l]
    BY <1>1, <1>2, <2>1 DEF Forward, Advances
  <2> QED BY <1>1, <2>2 DEF Paired, PhoneEmoji, Derived
<1> QED BY <1>1, <1>3, <1>4 DEF SavedHolds

\* A step of one login keeps the invariant when it keeps the login's own part, goes
\* forward, and every answer it adds and every login it stores is what it says.
LEMMA OneLoginSteps ==
    ASSUME LoginInv, NEW l \in Logins, LoginFunctions',
           \A o \in Logins : o # l => Rests(o), LoginHolds(l)', Forward(l),
           \A r \in replies' : r \in replies \/ ReplyHolds(r)',
           \A p \in Phones : saved'[p] = saved[p] \/ SavedHolds(p)'
    PROVE  LoginInv'
<1>1. ASSUME NEW o \in Logins PROVE LoginHolds(o)' /\ Forward(o)
  BY RestingHolds DEF LoginInv
<1>2. ASSUME NEW r \in replies' PROVE ReplyHolds(r)'
  <2>1. CASE r \in replies
    <3>1. ReplyHolds(r)
      BY <2>1 DEF LoginInv
    <3>2. Forward(r.of)
      BY <1>1, <3>1 DEF ReplyHolds
    <3> QED BY <3>1, <3>2, RepliesHold DEF Forward
  <2> QED BY <2>1
<1>3. ASSUME NEW p \in Phones PROVE SavedHolds(p)'
  <2>1. SavedHolds(p)
    BY DEF LoginInv
  <2>2. saved[p] # Unset => Forward(saved[p].of)
    BY <1>1, <2>1 DEF SavedHolds
  <2> QED BY <2>1, <2>2, StoredHolds
<1> QED BY <1>1, <1>2, <1>3 DEF LoginInv

\* Where a login may go that takes nothing but the step.
MoveFine(l, to) ==
    /\ to \in OnlyGoogle => flow[l] # "qr"
    /\ to \in {"scan", "refresh"} => flow[l] = "qr"
    /\ to \in BeforeInit => at[l] \in BeforeInit
    /\ to \in {"new", "configured"} => at[l] \in {"new", "configured"}
    /\ at[l] \in FromFinish => to \in FromFinish
    /\ at[l] \in Over => to \in Over
    /\ to \in {"approval", "finish"} => at[l] = to
    /\ to \in {"leaving", "saving", "complete"} => Paired(l)

\* What the step leaves alone, its poll set aside.
MovesOnly(l) ==
    /\ UNCHANGED <<flow, dest, offer, shown, keys, exchange, replies, saved>>
    /\ at' = [at EXCEPT ![l] = at'[l]] /\ loginPoll' = [loginPoll EXCEPT ![l] = loginPoll'[l]]
    /\ loginPoll'[l] = "held" => loginPoll[l] = "held"
    /\ \A o \in Logins, a \in {"init", "finish"} :
          [of |-> o, action |-> a] \in posts' => [of |-> o, action |-> a] \in posts

\* Such a step keeps the invariant.
LEMMA MoveKeeps ==
    ASSUME LoginInv, NEW l \in Logins, MovesOnly(l), NEW to, at'[l] = to, MoveFine(l, to)
    PROVE  LoginInv'
<1>0. LoginHolds(l) /\ LoginFunctions
  BY DEF LoginInv
<1>1. LoginFunctions' /\ \A o \in Logins : o # l => Rests(o)
  BY <1>0 DEF LoginFunctions, MovesOnly, Rests
<1> USE DEF MovesOnly
<1>2. FlowHolds(l)'
  BY <1>0 DEF LoginHolds, FlowHolds, MoveFine
<1>3. ExchangeHolds(l)'
  BY <1>0 DEF LoginHolds, ExchangeHolds, Met, MoveFine
<1>4. QRHolds(l)'
  BY <1>0 DEF LoginHolds, QRHolds, Agreed, QRKeys, Derived, MoveFine
<1>5. ProgressHolds(l)'
  BY <1>0 DEF LoginHolds, ProgressHolds, Met, Paired, PhoneEmoji, MoveFine
<1>6. PostsHold(l)'
  BY <1>0 DEF LoginHolds, PostsHold, MoveFine
<1>7. Forward(l)
  BY DEF Forward, Advances, Met, Agreed, MoveFine
<1>8. UNCHANGED saved /\ replies' = replies
  OBVIOUS
<1>9. LoginHolds(l)'
  BY <1>2, <1>3, <1>4, <1>5, <1>6 DEF LoginHolds
<1> HIDE DEF MovesOnly
<1> QED BY <1>1, <1>7, <1>8, <1>9, OneLoginSteps

\* Posting an init, finish or cancel request of one login adds none of another.
LEMMA PostsOfOthers ==
    ASSUME NEW l, NEW b, posts' = posts \cup {[of |-> l, action |-> b]}, NEW o, NEW a,
           o # l \/ a # b
    PROVE  [of |-> o, action |-> a] \in posts' => [of |-> o, action |-> a] \in posts
<1>1. [of |-> o, action |-> a] # [of |-> l, action |-> b]
  OBVIOUS
<1> QED BY <1>1

\* The steps that only move a login, end its poll or tell the phone to cancel.
LEMMA MovingSteps ==
    ASSUME LoginInv, NEW l \in Logins, NEW ok \in BOOLEAN, NEW to, NEW p, NEW devices,
           \/ FetchConfig(l, ok) \/ SignIn(l, ok) \/ Discover(l, devices) \/ PollMoves(l, to)
           \/ PollStopsFirst(l) \/ ClientInitFails(l, ok) \/ ClientFinishedFails(l)
           \/ Reauthenticate(l, p) \/ LoginDisconnects(l, ok) \/ CancelLogin(l)
           \/ WaitReceives(l) \/ WaitExpires(l) \/ RefreshPhoneRelay(l, ok)
    PROVE  LoginInv'
<1>0. LoginHolds(l) /\ LoginFunctions
  BY DEF LoginInv
<1>1. ASSUME FetchConfig(l, ok) PROVE MovesOnly(l) /\ MoveFine(l, at'[l])
  BY <1>0, <1>1 DEF FetchConfig, MovesOnly, MoveFine, LoginFunctions, OnlyGoogle, BeforeInit,
     FromFinish, Over
<1>2. ASSUME SignIn(l, ok) PROVE MovesOnly(l) /\ MoveFine(l, at'[l])
  BY <1>0, <1>2 DEF SignIn, Moves, Google, MovesOnly, MoveFine, LoginFunctions, OnlyGoogle,
     BeforeInit, FromFinish, Over
<1>3. ASSUME Discover(l, devices) PROVE MovesOnly(l) /\ MoveFine(l, at'[l])
  BY <1>0, <1>3 DEF Discover, Moves, MovesOnly, MoveFine, LoginFunctions, OnlyGoogle,
     BeforeInit, FromFinish, Over, LoginHolds, FlowHolds
<1>4. ASSUME PollMoves(l, to) PROVE MovesOnly(l) /\ MoveFine(l, at'[l])
  BY <1>0, <1>4 DEF PollMoves, MovesOnly, MoveFine, LoginFunctions, LoginHolds, FlowHolds,
     ProgressHolds
<1>5. ASSUME PollStopsFirst(l) PROVE MovesOnly(l) /\ MoveFine(l, at'[l])
  BY <1>0, <1>5 DEF PollStopsFirst, Moves, MovesOnly, MoveFine, LoginFunctions, OnlyGoogle,
     BeforeInit, FromFinish, Over
<1>6. ASSUME ClientInitFails(l, ok) PROVE MovesOnly(l) /\ MoveFine(l, at'[l])
  <2>1. \A o \in Logins, a \in {"init", "finish"} :
           [of |-> o, action |-> a] \in posts' => [of |-> o, action |-> a] \in posts
    BY <1>6, PostsOfOthers DEF ClientInitFails, PostCancel, Post
  <2> QED BY <1>0, <1>6, <2>1 DEF ClientInitFails, Moves, MovesOnly, MoveFine, LoginFunctions,
     OnlyGoogle, BeforeInit, FromFinish, Over
<1>7. ASSUME ClientFinishedFails(l) PROVE MovesOnly(l) /\ MoveFine(l, at'[l])
  BY <1>0, <1>7 DEF ClientFinishedFails, Moves, MovesOnly, MoveFine, LoginFunctions,
     OnlyGoogle, BeforeInit, FromFinish, Over
<1>8. ASSUME Reauthenticate(l, p) PROVE MovesOnly(l) /\ MoveFine(l, at'[l])
  BY <1>0, <1>8 DEF Reauthenticate, Moves, MovesOnly, MoveFine, LoginFunctions,
     OnlyGoogle, BeforeInit, FromFinish, Over
<1>9. ASSUME LoginDisconnects(l, ok) PROVE MovesOnly(l) /\ MoveFine(l, at'[l])
  <2>1. \A o \in Logins, a \in {"init", "finish"} :
           [of |-> o, action |-> a] \in posts' => [of |-> o, action |-> a] \in posts
    BY <1>9, PostsOfOthers DEF LoginDisconnects, PostCancel, Post
  <2> QED BY <1>0, <1>9, <2>1 DEF LoginDisconnects, MovesOnly, MoveFine, LoginFunctions,
     OnlyGoogle, BeforeInit, FromFinish, Over, LoginHolds, ProgressHolds
<1>10. ASSUME CancelLogin(l) PROVE MovesOnly(l) /\ MoveFine(l, at'[l])
  BY <1>0, <1>10 DEF CancelLogin, Fails, MovesOnly, MoveFine, LoginFunctions,
     OnlyGoogle, BeforeInit, FromFinish, Over
<1>11. ASSUME WaitReceives(l) PROVE MovesOnly(l) /\ MoveFine(l, at'[l])
  <2>1. flow[l] = "qr" /\ Agreed(l) /\ dest[l] = exchange[l].phones /\ Met(l)
    BY <1>0, <1>11 DEF WaitReceives, LoginHolds, QRHolds, Agreed, Met
  <2>2. exchange[l].state = "approved"
    BY <1>0, <1>11, <2>1 DEF WaitReceives, Moves, LoginHolds, ExchangeHolds, Agreed, Over
  <2>3. exchange[l].offer = QROffer /\ shown[l] = QRCode(l)
    BY <1>0, <2>1 DEF LoginHolds, ExchangeHolds
  <2>4. keys[l] = QRKeys(l)
    BY <1>0, <2>1, <2>3 DEF LoginHolds, QRHolds, QRCode, Unset
  <2>5. Paired(l)
    BY <2>1, <2>2, <2>3, <2>4 DEF Paired, PhoneEmoji, QROffer, QRCode, QRKeys, Derived
  <2> QED BY <1>0, <1>11, <2>5 DEF WaitReceives, Moves, MovesOnly, MoveFine, LoginFunctions,
     OnlyGoogle, BeforeInit, FromFinish, Over
<1>12. ASSUME WaitExpires(l) PROVE MovesOnly(l) /\ MoveFine(l, at'[l])
  BY <1>0, <1>12 DEF WaitExpires, Moves, MovesOnly, MoveFine, LoginFunctions,
     OnlyGoogle, BeforeInit, FromFinish, Over, LoginHolds, FlowHolds
<1>13. ASSUME RefreshPhoneRelay(l, ok) PROVE MovesOnly(l) /\ MoveFine(l, at'[l])
  BY <1>0, <1>13 DEF RefreshPhoneRelay, Moves, MovesOnly, MoveFine, LoginFunctions,
     OnlyGoogle, BeforeInit, FromFinish, Over, LoginHolds, FlowHolds
<1>14. MovesOnly(l) /\ MoveFine(l, at'[l])
  BY <1>1, <1>2, <1>3, <1>4, <1>5, <1>6, <1>7, <1>8, <1>9, <1>10, <1>11, <1>12, <1>13
<1>15. PICK t : t = at'[l]
  OBVIOUS
<1>16. MoveFine(l, t)
  BY <1>14, <1>15
<1> QED BY <1>14, <1>15, <1>16, MoveKeeps

\* The device is chosen before anything is posted.
LEMMA StartKeeps ==
    ASSUME LoginInv, NEW l \in Logins, NEW p \in Phones, StartAttempt(l, p)
    PROVE  LoginInv'
<1>0. LoginHolds(l) /\ LoginFunctions /\ at[l] = "found" /\ at'[l] = "opening"
  BY DEF LoginInv, StartAttempt, Moves, LoginFunctions
<1>1. LoginFunctions' /\ UNCHANGED saved /\ \A o \in Logins : o # l => Rests(o)
  BY <1>0 DEF StartAttempt, Moves, LoginFunctions, Rests
<1>2. ~Met(l)
  BY <1>0 DEF LoginHolds, FlowHolds, ExchangeHolds, BeforeInit, OnlyGoogle
<1>3. FlowHolds(l)' /\ ExchangeHolds(l)' /\ QRHolds(l)' /\ ProgressHolds(l)' /\ PostsHold(l)'
  BY <1>0, <1>2 DEF StartAttempt, LoginFunctions, LoginHolds, FlowHolds, ExchangeHolds, QRHolds,
     ProgressHolds, PostsHold, Met, OnlyGoogle, BeforeInit, FromFinish, Over
<1>4. Forward(l)
  BY <1>0, <1>2 DEF StartAttempt, LoginFunctions, Forward, Advances, Met, Agreed, FromFinish, Over
<1>5. replies' = replies
  BY DEF StartAttempt
<1>6. LoginHolds(l)'
  BY <1>3 DEF LoginHolds
<1> QED BY <1>1, <1>4, <1>5, <1>6, OneLoginSteps

\* The two requests of the exchange are posted on the way to their states.
LEMMA PostingKeeps ==
    ASSUME LoginInv, NEW l \in Logins, SendClientInit(l) \/ SendClientFinished(l)
    PROVE  LoginInv'
<1>0. LoginHolds(l) /\ LoginFunctions
  BY DEF LoginInv
<1>1. /\ UNCHANGED <<flow, dest, loginPoll, offer, shown, keys, exchange, replies, saved>>
      /\ at' = [at EXCEPT ![l] = at'[l]]
      /\ \/ /\ at[l] = "opening" /\ at'[l] = "init"
            /\ posts' = posts \cup {[of |-> l, action |-> "init"]}
         \/ /\ at[l] = "approval" /\ at'[l] = "finish"
            /\ posts' = posts \cup {[of |-> l, action |-> "finish"]}
  BY <1>0 DEF SendClientInit, SendClientFinished, Moves, Post, LoginFunctions
<1>2. \A o \in Logins : o # l => Rests(o)
  <2> SUFFICES ASSUME NEW o \in Logins, o # l PROVE Rests(o)
    OBVIOUS
  <2>1. \A a \in {"init", "finish"} :
           [of |-> o, action |-> a] \in posts' => [of |-> o, action |-> a] \in posts
    BY <1>1, PostsOfOthers
  <2>2. at'[o] = at[o]
    BY <1>0, <1>1 DEF LoginFunctions
  <2> QED BY <1>1, <2>1, <2>2 DEF Rests
<1>3. LoginFunctions'
  BY <1>0, <1>1 DEF LoginFunctions
<1>4. flow[l] # "qr"
  BY <1>0, <1>1 DEF LoginHolds, FlowHolds, OnlyGoogle
<1>5. FlowHolds(l)'
  BY <1>0, <1>1, <1>4 DEF LoginHolds, FlowHolds
<1>6. ExchangeHolds(l)'
  BY <1>0, <1>1, <1>4 DEF LoginHolds, ExchangeHolds, Met, BeforeInit, Over
<1>7. QRHolds(l)'
  BY <1>0, <1>1, <1>4 DEF LoginHolds, QRHolds, Agreed
<1>8. ProgressHolds(l)'
  BY <1>0, <1>1 DEF LoginHolds, ProgressHolds, Met
<1>9. PostsHold(l)'
  <2>1. CASE at'[l] = "init"
    BY <1>0, <1>1, <1>4, <2>1, PostsOfOthers DEF LoginHolds, PostsHold, BeforeInit, FromFinish
  <2>2. CASE at'[l] = "finish"
    BY <1>0, <1>1, <1>4, <2>2, PostsOfOthers DEF LoginHolds, PostsHold, BeforeInit, FromFinish
  <2> QED BY <1>1, <2>1, <2>2
<1>10. Forward(l)
  BY <1>1 DEF Forward, Advances, Met, Agreed, FromFinish, Over
<1>11. LoginHolds(l)'
  BY <1>5, <1>6, <1>7, <1>8, <1>9 DEF LoginHolds
<1> QED BY <1>1, <1>2, <1>3, <1>10, <1>11, OneLoginSteps

\* The offer a login keeps is the one its own exchange made.
LEMMA ServerInitKeeps ==
    ASSUME LoginInv, NEW l \in Logins, NEW r \in replies, ServerInitArrives(l, r)
    PROVE  LoginInv'
<1>0. LoginHolds(l) /\ LoginFunctions /\ ReplyHolds(r)
  BY DEF LoginInv
<1>1. r.of = l /\ r.action = "init" /\ at[l] = "init"
  BY DEF ServerInitArrives, Matches
<1>2. Met(l) /\ flow[l] # "qr" /\ r.offer = exchange[l].offer
  BY <1>0, <1>1 DEF ReplyHolds
<1>3. /\ UNCHANGED <<flow, dest, loginPoll, keys, exchange, replies, saved>>
      /\ offer' = [offer EXCEPT ![l] = [of |-> {l}, keys |-> exchange[l].offer.keys]]
      /\ at' = [at EXCEPT ![l] = at'[l]] /\ shown' = [shown EXCEPT ![l] = shown'[l]]
      /\ at'[l] \in {"approval", "failing"}
      /\ posts' = posts \/ posts' = posts \cup {[of |-> l, action |-> "cancel"]}
  BY <1>0, <1>1, <1>2 DEF ServerInitArrives, Secret, Fails, PostCancel, Post, LoginFunctions
<1>4. LoginFunctions'
  BY <1>0, <1>3 DEF LoginFunctions
<1>5. \A o \in Logins, a \in {"init", "finish"} :
         [of |-> o, action |-> a] \in posts' => [of |-> o, action |-> a] \in posts
  BY <1>3, PostsOfOthers
<1>6. \A o \in Logins : o # l => Rests(o)
  BY <1>0, <1>3, <1>5 DEF Rests, LoginFunctions
<1>7. FlowHolds(l)'
  BY <1>0, <1>2, <1>3 DEF LoginHolds, FlowHolds
<1>8. ExchangeHolds(l)'
  BY <1>0, <1>1, <1>2, <1>3 DEF LoginHolds, ExchangeHolds, Met, BeforeInit, Over
<1>9. QRHolds(l)'
  BY <1>0, <1>2, <1>3 DEF LoginHolds, QRHolds, Agreed
<1>10. ProgressHolds(l)'
  BY <1>0, <1>2, <1>3 DEF LoginFunctions, ProgressHolds, Met
<1>11. PostsHold(l)'
  BY <1>0, <1>1, <1>2, <1>3, <1>5 DEF LoginHolds, PostsHold, BeforeInit, FromFinish
<1>12. Forward(l)
  BY <1>1, <1>3 DEF Forward, Advances, Met, Agreed, FromFinish, Over
<1>13. LoginHolds(l)'
  BY <1>7, <1>8, <1>9, <1>10, <1>11 DEF LoginHolds
<1> QED BY <1>3, <1>4, <1>6, <1>12, <1>13, OneLoginSteps

\* The keys a login derives are those of the exchange the user approved.
LEMMA FinishKeeps ==
    ASSUME LoginInv, NEW l \in Logins, NEW r \in replies, FinishArrives(l, r)
    PROVE  LoginInv'
<1>0. LoginHolds(l) /\ LoginFunctions /\ ReplyHolds(r)
  BY DEF LoginInv
<1>1. r.of = l /\ r.action = "finish" /\ at[l] = "finish"
  BY DEF FinishArrives, Matches
<1>2. Met(l) /\ offer[l] = [of |-> {l}, keys |-> exchange[l].offer.keys]
  BY <1>0, <1>1 DEF LoginHolds, ProgressHolds
<1>3. flow[l] # "qr" /\ exchange[l].state # "revoked" /\ exchange[l].phones = dest[l]
  BY <1>0, <1>1, <1>2 DEF LoginHolds, FlowHolds, ExchangeHolds, OnlyGoogle, Over
<1>4. /\ UNCHANGED <<flow, dest, loginPoll, offer, shown, exchange, posts, replies, saved>>
      /\ at' = [at EXCEPT ![l] = at'[l]] /\ keys' = [keys EXCEPT ![l] = keys'[l]]
      /\ \/ at'[l] = "failing"
         \/ /\ r.approved /\ at'[l] \in {"complete", "leaving"}
            /\ keys'[l] = Derived({l}, exchange[l].offer.keys)
  <2>1. UNCHANGED <<flow, dest, loginPoll, offer, shown, exchange, posts, replies, saved>>
    BY DEF FinishArrives
  <2>2. CASE r.approved /\ offer[l].keys \in SupportedVersions
    BY <1>0, <1>2, <2>1, <2>2 DEF FinishArrives, LoginFunctions, Derived
  <2>3. CASE ~(r.approved /\ offer[l].keys \in SupportedVersions)
    BY <1>0, <2>1, <2>3 DEF FinishArrives, Fails, LoginFunctions
  <2> QED BY <2>2, <2>3
<1>5. LoginFunctions' /\ \A o \in Logins : o # l => Rests(o)
  BY <1>0, <1>4 DEF LoginFunctions, Rests
<1>6. ProgressHolds(l)'
  <2>1. CASE at'[l] = "failing"
    BY <2>1 DEF ProgressHolds
  <2>2. CASE at'[l] # "failing"
    <3>1. r.approved /\ keys'[l] = Derived({l}, exchange[l].offer.keys)
      BY <1>4, <2>2
    <3>2. exchange[l].state = "approved" /\ shown[l] = PhoneEmoji(l)
      BY <1>0, <1>1, <1>3, <3>1 DEF ReplyHolds, Agreed
    <3>3. Paired(l)'
      BY <1>3, <1>4, <3>1, <3>2 DEF Paired, PhoneEmoji, Derived
    <3> QED BY <1>4, <2>2, <3>3 DEF ProgressHolds
  <2> QED BY <2>1, <2>2
<1>7. FlowHolds(l)' /\ ExchangeHolds(l)' /\ QRHolds(l)' /\ PostsHold(l)'
  BY <1>0, <1>1, <1>3, <1>4 DEF LoginHolds, FlowHolds, ExchangeHolds, QRHolds, PostsHold, Met,
     Agreed, BeforeInit, FromFinish, Over
<1>8. Forward(l)
  BY <1>1, <1>4 DEF Forward, Advances, Met, Agreed, FromFinish, Over
<1>9. LoginHolds(l)'
  BY <1>6, <1>7 DEF LoginHolds
<1> QED BY <1>4, <1>5, <1>8, <1>9, OneLoginSteps

\* A login is stored when both sides hold its pairing.
LEMMA StoringKeeps ==
    ASSUME LoginInv, NEW l \in Logins, NEW ok \in BOOLEAN,
           FinishLogin(l, ok) \/ CompleteSession(l, ok)
    PROVE  LoginInv'
<1>0. LoginHolds(l) /\ LoginFunctions
  BY DEF LoginInv
<1>1. /\ UNCHANGED <<flow, dest, loginPoll, offer, shown, keys, exchange, posts, replies>>
      /\ at' = [at EXCEPT ![l] = at'[l]] /\ at[l] \in {"saving", "complete"}
      /\ \/ saved' = saved /\ at'[l] \in {"ended", "failing"}
         \/ saved' = Stored(l) /\ at'[l] \in Over
  BY <1>0 DEF FinishLogin, CompleteSession, Moves, LoginFunctions, Over
<1>2. Paired(l)
  BY <1>0, <1>1 DEF LoginHolds, ProgressHolds
<1>3. LoginFunctions' /\ \A o \in Logins : o # l => Rests(o)
  BY <1>0, <1>1 DEF LoginFunctions, Rests, Stored
<1>4. FlowHolds(l)' /\ ExchangeHolds(l)' /\ QRHolds(l)' /\ ProgressHolds(l)' /\ PostsHold(l)'
  BY <1>0, <1>1 DEF LoginHolds, FlowHolds, ExchangeHolds, QRHolds, ProgressHolds, PostsHold,
     Met, Agreed, QRKeys, Derived, OnlyGoogle, BeforeInit, FromFinish, Over
<1>5. Forward(l)
  BY <1>1 DEF Forward, Advances, Met, Agreed, FromFinish, Over
<1>6. ASSUME NEW p \in Phones PROVE saved'[p] = saved[p] \/ SavedHolds(p)'
  <2>1. CASE saved' = saved
    BY <2>1
  <2>2. CASE saved' = Stored(l) /\ at'[l] \in Over
    <3>1. CASE p \in dest[l]
      <4>1. saved'[p].of = l /\ saved'[p].keys = keys[l]
        BY <2>2, <3>1 DEF Stored
      <4>2. Paired(l)'
        BY <1>1, <1>2 DEF Paired, PhoneEmoji
      <4> QED BY <1>1, <2>2, <3>1, <4>1, <4>2 DEF SavedHolds
    <3>2. CASE p \notin dest[l]
      BY <2>2, <3>2 DEF Stored
    <3> QED BY <3>1, <3>2
  <2> QED BY <1>1, <2>1, <2>2
<1>7. LoginHolds(l)'
  BY <1>4 DEF LoginHolds
<1> QED BY <1>1, <1>3, <1>5, <1>6, <1>7, OneLoginSteps

\* Unpairing forgets the one login stored for its exchange.
LEMMA UnpairKeeps ==
    ASSUME LoginInv, NEW p \in Phones, NEW heard \in BOOLEAN, Unpair(p, heard)
    PROVE  LoginInv'
<1>1. PICK l \in Logins : /\ l = saved[p].of /\ at[l] \in Over /\ p \in dest[l] /\ Paired(l)
                          /\ saved[p].keys = keys[l]
  BY DEF LoginInv, SavedHolds, Unpair
<1>2. LoginHolds(l) /\ LoginFunctions
  BY DEF LoginInv
<1>3. PICK st \in {"approved", "revoked"} : exchange' = [exchange EXCEPT ![l].state = st]
  BY <1>1 DEF Unpair, Paired
<1>4. /\ UNCHANGED <<flow, at, dest, loginPoll, offer, shown, keys, posts, replies>>
      /\ saved' = [saved EXCEPT ![p] = Unset]
  BY DEF Unpair
<1>5. LoginFunctions' /\ \A o \in Logins : o # l => Rests(o)
  BY <1>2, <1>3, <1>4 DEF LoginFunctions, Rests
<1>6. exchange[l] \in Exchanges /\ Met(l) /\ Agreed(l) /\ exchange[l].state = "approved"
  BY <1>1, <1>2 DEF LoginHolds, ExchangeHolds, Paired, Met, Agreed
<1>7. /\ exchange'[l] \in Exchanges /\ exchange'[l].state = st
      /\ exchange'[l].offer = exchange[l].offer /\ exchange'[l].phones = exchange[l].phones
  BY <1>2, <1>3, <1>6 DEF LoginFunctions, Exchanges
<1>8. FlowHolds(l)' /\ PostsHold(l)'
  BY <1>2, <1>4 DEF LoginHolds, FlowHolds, PostsHold
<1>9. ExchangeHolds(l)'
  BY <1>1, <1>2, <1>4, <1>6, <1>7 DEF LoginHolds, ExchangeHolds, Met
<1>10. QRHolds(l)'
  BY <1>2, <1>4, <1>6, <1>7 DEF LoginHolds, QRHolds, Agreed, QRKeys, Derived
<1>11. ProgressHolds(l)'
  BY <1>1, <1>4 DEF ProgressHolds, Over
<1>12. Advances(l)
  BY <1>4, <1>6, <1>7 DEF Advances, Met, Agreed
<1>13. ASSUME NEW o \in Logins PROVE LoginHolds(o)' /\ Advances(o)
  <2>1. CASE o = l
    BY <2>1, <1>8, <1>9, <1>10, <1>11, <1>12 DEF LoginHolds
  <2>2. CASE o # l
    BY <2>2, <1>5, RestingHolds DEF LoginInv, Forward
  <2> QED BY <2>1, <2>2
<1>14. ASSUME NEW r \in replies' PROVE ReplyHolds(r)'
  <2>1. ReplyHolds(r)
    BY <1>4 DEF LoginInv
  <2>2. Advances(r.of)
    BY <1>13, <2>1 DEF ReplyHolds
  <2> QED BY <2>1, <2>2, RepliesHold
<1>15. ASSUME NEW q \in Phones PROVE SavedHolds(q)'
  <2>1. CASE q = p
    <3>1. saved'[q] = Unset
      BY <1>2, <1>4, <2>1 DEF LoginFunctions
    <3> QED BY <3>1 DEF SavedHolds, Unset
  <2>2. CASE q # p
    <3>1. SavedHolds(q) /\ saved'[q] = saved[q]
      BY <1>2, <1>4, <2>2 DEF LoginInv, LoginFunctions
    <3>2. saved[q] # Unset => saved[q].of # l /\ saved[q].of \in Logins
      BY <1>1, <1>2, <2>2, <3>1 DEF SavedHolds, LoginHolds, FlowHolds
    <3>3. saved[q] # Unset => Forward(saved[q].of)
      BY <1>5, <3>2, RestingHolds DEF LoginInv
    <3> QED BY <3>1, <3>3, StoredHolds
  <2> QED BY <2>1, <2>2
<1> QED BY <1>5, <1>13, <1>14, <1>15 DEF LoginInv

\* A QR login makes its keys and its code together, before any phone can answer.
LEMMA RegisterLoginKeeps ==
    ASSUME LoginInv, NEW l \in Logins, NEW ok \in BOOLEAN, RegisterPhoneRelay(l, ok)
    PROVE  LoginInv'
<1>0. LoginHolds(l) /\ LoginFunctions /\ flow[l] = "qr" /\ at[l] = "configured"
  BY DEF LoginInv, RegisterPhoneRelay, Moves
<1>1. shown[l] = Unset
  BY <1>0 DEF LoginHolds, QRHolds
<1>2. ~Met(l) /\ ~Agreed(l)
  <2>1. QRCode(l) # Unset
    BY DEF QRCode, Unset
  <2> QED BY <1>0, <1>1, <2>1 DEF LoginHolds, ExchangeHolds, Met, Agreed
<1>3. /\ UNCHANGED <<flow, dest, offer, posts, replies, exchange, saved>>
      /\ at' = [at EXCEPT ![l] = at'[l]] /\ loginPoll' = [loginPoll EXCEPT ![l] = loginPoll'[l]]
      /\ keys' = [keys EXCEPT ![l] = keys'[l]] /\ shown' = [shown EXCEPT ![l] = shown'[l]]
      /\ \/ /\ at'[l] = "scan" /\ loginPoll'[l] = "opening" /\ keys'[l] = QRKeys(l)
            /\ shown'[l] = QRCode(l)
         \/ /\ at'[l] = "ended" /\ loginPoll'[l] = loginPoll[l] /\ keys'[l] = keys[l]
            /\ shown'[l] = shown[l]
  BY <1>0 DEF RegisterPhoneRelay, Moves, LoginFunctions, QRCode
<1>4. LoginFunctions' /\ \A o \in Logins : o # l => Rests(o)
  BY <1>0, <1>3 DEF LoginFunctions, Rests
<1>5. FlowHolds(l)' /\ ProgressHolds(l)' /\ PostsHold(l)'
  BY <1>0, <1>3 DEF LoginHolds, FlowHolds, ProgressHolds, PostsHold, OnlyGoogle
<1>6. ExchangeHolds(l)'
  BY <1>0, <1>2, <1>3 DEF LoginHolds, ExchangeHolds, Met
<1>7. QRHolds(l)'
  BY <1>0, <1>1, <1>2, <1>3 DEF LoginHolds, QRHolds, Agreed, QRKeys, Derived, Unset
<1>8. Forward(l)
  BY <1>0, <1>2, <1>3 DEF Forward, Advances, Met, Agreed, FromFinish, Over
<1>9. LoginHolds(l)'
  BY <1>5, <1>6, <1>7 DEF LoginHolds
<1> QED BY <1>3, <1>4, <1>8, <1>9, OneLoginSteps

\* The device of a QR login is the phone that scanned its code.
LEMMA PairedKeeps ==
    ASSUME LoginInv, NEW l \in Logins, NEW r \in replies, PairedArrives(l, r)
    PROVE  LoginInv'
<1>0. LoginHolds(l) /\ LoginFunctions /\ ReplyHolds(r)
  BY DEF LoginInv
<1>1. r.of = l /\ r.action = "paired" /\ flow[l] = "qr"
  BY DEF PairedArrives
<1>2. Agreed(l) /\ Met(l) /\ exchange[l].phones = {r.phone}
  BY <1>0, <1>1 DEF ReplyHolds, Agreed, Met
<1>3. exchange[l].phones \subseteq Phones
  BY <1>0, <1>2 DEF LoginHolds, ExchangeHolds, Exchanges
<1>4. /\ UNCHANGED <<flow, at, offer, shown, keys, posts, replies, exchange, saved>>
      /\ dest' = [dest EXCEPT ![l] = exchange[l].phones]
      /\ loginPoll' = [loginPoll EXCEPT ![l] = "held"]
  BY <1>2 DEF PairedArrives
<1>5. LoginFunctions' /\ \A o \in Logins : o # l => Rests(o)
  BY <1>0, <1>4 DEF LoginFunctions, Rests
<1>6. dest'[l] = exchange[l].phones
  BY <1>0, <1>4 DEF LoginFunctions
<1>7. FlowHolds(l)'
  BY <1>0, <1>2, <1>3, <1>4, <1>6 DEF LoginHolds, FlowHolds
<1>8. ExchangeHolds(l)'
  BY <1>0, <1>1, <1>4 DEF LoginHolds, ExchangeHolds, Met
<1>9. QRHolds(l)'
  BY <1>0, <1>1, <1>2, <1>4, <1>6 DEF LoginHolds, QRHolds, Agreed, QRKeys, Derived
<1>10. ProgressHolds(l)'
  BY <1>0, <1>4, <1>6 DEF LoginHolds, ProgressHolds, Met, Paired, PhoneEmoji
<1>11. PostsHold(l)'
  BY <1>0, <1>4 DEF LoginHolds, PostsHold
<1>12. Forward(l)
  BY <1>0, <1>1, <1>4, <1>6 DEF Forward, Advances, Met, Agreed, LoginHolds, QRHolds
<1>13. LoginHolds(l)'
  BY <1>7, <1>8, <1>9, <1>10, <1>11 DEF LoginHolds
<1> QED BY <1>4, <1>5, <1>12, <1>13, OneLoginSteps

\* What the phone does with one exchange: it leaves the login's own state alone.
PhoneMoves(l) ==
    /\ UNCHANGED <<flow, at, dest, loginPoll, offer, shown, keys, posts, saved>>
    /\ exchange' = [exchange EXCEPT ![l] = exchange'[l]]

\* The answer to a client init opens the exchange with the device the login chose.
LEMMA AnswersInitKeeps ==
    ASSUME LoginInv, NEW l \in Logins, NEW s \in ServerInits, PhoneAnswersInit(l, s)
    PROVE  LoginInv'
<1>0. LoginHolds(l) /\ LoginFunctions
  BY DEF LoginInv
<1> DEFINE x == [state |-> "offered", offer |-> s, phones |-> dest[l]]
           a == [of |-> l, action |-> "init", offer |-> s]
<1>1. PhoneMoves(l) /\ exchange'[l] = x /\ replies' = replies \cup {a}
  BY <1>0 DEF PhoneAnswersInit, PhoneMoves, LoginFunctions
<1>2. flow[l] # "qr" /\ at[l] \notin BeforeInit /\ ~Met(l) /\ ~Agreed(l)
  BY <1>0 DEF PhoneAnswersInit, LoginHolds, PostsHold, Met, Agreed
<1>3. x \in Exchanges /\ x.state = "offered" /\ x.offer = s /\ x.phones = dest[l]
  BY <1>0 DEF LoginHolds, FlowHolds, Exchanges
<1>4. a.of = l /\ a.action = "init" /\ a.offer = s
  OBVIOUS
<1> HIDE DEF x, a
<1>5. LoginFunctions' /\ \A o \in Logins : o # l => Rests(o)
  BY <1>0, <1>1 DEF PhoneMoves, LoginFunctions, Rests
<1>6. FlowHolds(l)' /\ PostsHold(l)'
  BY <1>0, <1>1 DEF LoginHolds, FlowHolds, PostsHold, PhoneMoves
<1>7. ExchangeHolds(l)'
  BY <1>1, <1>2, <1>3 DEF PhoneMoves, ExchangeHolds, Met
<1>8. QRHolds(l)'
  BY <1>0, <1>1, <1>2 DEF PhoneMoves, LoginHolds, QRHolds, Agreed
<1>9. ProgressHolds(l)'
  BY <1>0, <1>1, <1>2 DEF PhoneMoves, LoginHolds, ProgressHolds, Paired, Met
<1>10. Forward(l)
  BY <1>1, <1>2 DEF PhoneMoves, Forward, Advances, Met, Agreed
<1>11. ReplyHolds(a)'
  BY <1>1, <1>2, <1>3, <1>4 DEF PhoneMoves, ReplyHolds, Met
<1>12. LoginHolds(l)'
  BY <1>6, <1>7, <1>8, <1>9 DEF LoginHolds
<1>13. \A r \in replies' : r \in replies \/ ReplyHolds(r)'
  BY <1>1, <1>11
<1> QED BY <1>1, <1>5, <1>10, <1>12, <1>13, OneLoginSteps DEF PhoneMoves

\* The user's answer ends the exchange; only the code the login shows is approved.
LEMMA AnswersFinishKeeps ==
    ASSUME LoginInv, NEW l \in Logins, NEW approved \in BOOLEAN, PhoneAnswersFinish(l, approved)
    PROVE  LoginInv'
<1>0. LoginHolds(l) /\ LoginFunctions
  BY DEF LoginInv
<1> DEFINE a == [of |-> l, action |-> "finish", approved |-> approved]
<1>1. Met(l) /\ ~Agreed(l) /\ flow[l] # "qr" /\ at[l] \in FromFinish
  BY <1>0 DEF PhoneAnswersFinish, LoginHolds, PostsHold, Met, Agreed
<1>2. exchange[l] \in Exchanges
  BY <1>0, <1>1 DEF LoginHolds, ExchangeHolds
<1>3. /\ PhoneMoves(l) /\ replies' = replies \cup {a}
      /\ exchange'[l] \in Exchanges
      /\ exchange'[l].offer = exchange[l].offer /\ exchange'[l].phones = exchange[l].phones
      /\ exchange'[l].state \in {"approved", "refused"}
      /\ approved => exchange'[l].state = "approved" /\ shown[l] = PhoneEmoji(l)
  BY <1>0, <1>2 DEF PhoneAnswersFinish, PhoneMoves, LoginFunctions, Exchanges
<1>4. a.of = l /\ a.action = "finish" /\ (a.approved <=> approved)
  OBVIOUS
<1> HIDE DEF a
<1>5. LoginFunctions' /\ \A o \in Logins : o # l => Rests(o)
  BY <1>0, <1>3 DEF PhoneMoves, LoginFunctions, Rests
<1>6. FlowHolds(l)' /\ PostsHold(l)'
  BY <1>0, <1>3 DEF LoginHolds, FlowHolds, PostsHold, PhoneMoves
<1>7. ExchangeHolds(l)'
  BY <1>0, <1>1, <1>3 DEF PhoneMoves, LoginHolds, ExchangeHolds, Met
<1>8. QRHolds(l)'
  BY <1>0, <1>1, <1>3 DEF PhoneMoves, LoginHolds, QRHolds, Agreed
<1>9. ProgressHolds(l)'
  BY <1>0, <1>1, <1>3 DEF PhoneMoves, LoginHolds, ProgressHolds, Paired, Met, Agreed
<1>10. Forward(l)
  BY <1>1, <1>3 DEF PhoneMoves, Forward, Advances, Met, Agreed
<1>11. ReplyHolds(a)'
  BY <1>1, <1>3, <1>4 DEF PhoneMoves, ReplyHolds, Agreed, PhoneEmoji
<1>12. LoginHolds(l)'
  BY <1>6, <1>7, <1>8, <1>9 DEF LoginHolds
<1>13. \A r \in replies' : r \in replies \/ ReplyHolds(r)'
  BY <1>3, <1>11
<1> QED BY <1>3, <1>5, <1>10, <1>12, <1>13, OneLoginSteps DEF PhoneMoves

\* A cancelled exchange was not agreed on.
LEMMA ToldKeeps ==
    ASSUME LoginInv, NEW l \in Logins, PhoneIsTold(l)
    PROVE  LoginInv'
<1>0. LoginHolds(l) /\ LoginFunctions
  BY DEF LoginInv
<1>1. Met(l) /\ ~Agreed(l)
  BY DEF PhoneIsTold, Met, Agreed
<1>2. exchange[l] \in Exchanges
  BY <1>0, <1>1 DEF LoginHolds, ExchangeHolds
<1>3. /\ PhoneMoves(l) /\ replies' = replies
      /\ exchange'[l] \in Exchanges /\ exchange'[l].state = "cancelled"
      /\ exchange'[l].offer = exchange[l].offer /\ exchange'[l].phones = exchange[l].phones
  BY <1>0, <1>2 DEF PhoneIsTold, PhoneMoves, LoginFunctions, Exchanges
<1>4. LoginFunctions' /\ \A o \in Logins : o # l => Rests(o)
  BY <1>0, <1>3 DEF PhoneMoves, LoginFunctions, Rests
<1>5. FlowHolds(l)' /\ PostsHold(l)'
  BY <1>0, <1>3 DEF LoginHolds, FlowHolds, PostsHold, PhoneMoves
<1>6. ExchangeHolds(l)'
  BY <1>0, <1>1, <1>3 DEF PhoneMoves, LoginHolds, ExchangeHolds, Met
<1>7. QRHolds(l)'
  BY <1>0, <1>1, <1>3 DEF PhoneMoves, LoginHolds, QRHolds, Agreed, QRKeys, Derived
<1>8. ProgressHolds(l)'
  BY <1>0, <1>1, <1>3 DEF PhoneMoves, LoginHolds, ProgressHolds, Paired, Met, Agreed
<1>9. Forward(l)
  BY <1>1, <1>3 DEF PhoneMoves, Forward, Advances, Met, Agreed
<1>10. LoginHolds(l)'
  BY <1>5, <1>6, <1>7, <1>8 DEF LoginHolds
<1> QED BY <1>3, <1>4, <1>9, <1>10, OneLoginSteps DEF PhoneMoves

\* The phone that scans a QR code takes its keys as they are.
LEMMA ScanKeeps ==
    ASSUME LoginInv, NEW l \in Logins, NEW p \in Phones, PhoneScans(l, p)
    PROVE  LoginInv'
<1>0. LoginHolds(l) /\ LoginFunctions
  BY DEF LoginInv
<1> DEFINE x == [state |-> "approved", offer |-> QROffer, phones |-> {p}]
           a == [of |-> l, action |-> "paired", phone |-> p]
<1>1. PhoneMoves(l) /\ exchange'[l] = x /\ replies' = replies \cup {a}
  BY <1>0 DEF PhoneScans, PhoneMoves, LoginFunctions, QROffer
<1>2. /\ flow[l] = "qr" /\ ~Met(l) /\ ~Agreed(l) /\ shown[l] # Unset
      /\ at[l] \notin {"leaving", "saving", "complete", "approval", "finish"}
  BY DEF PhoneScans, Met, Agreed
<1>3. /\ x \in Exchanges /\ x.state = "approved" /\ x.offer = QROffer /\ x.phones = {p}
      /\ \A q1, q2 \in x.phones : q1 = q2
  BY DEF Exchanges
<1>4. a.of = l /\ a.action = "paired" /\ a.phone = p
  OBVIOUS
<1> HIDE DEF x, a
<1>5. LoginFunctions' /\ \A o \in Logins : o # l => Rests(o)
  BY <1>0, <1>1 DEF PhoneMoves, LoginFunctions, Rests
<1>6. FlowHolds(l)' /\ PostsHold(l)'
  BY <1>0, <1>1 DEF LoginHolds, FlowHolds, PostsHold, PhoneMoves
<1>7. ExchangeHolds(l)'
  BY <1>0, <1>1, <1>2, <1>3 DEF PhoneMoves, LoginHolds, QRHolds, ExchangeHolds, Met
<1>8. QRHolds(l)'
  BY <1>0, <1>1, <1>2 DEF PhoneMoves, LoginHolds, QRHolds, Agreed, QRKeys, Derived
<1>9. ProgressHolds(l)'
  BY <1>1, <1>2 DEF PhoneMoves, ProgressHolds
<1>10. Forward(l)
  BY <1>1, <1>2, <1>3 DEF PhoneMoves, Forward, Advances, Met, Agreed
<1>11. ReplyHolds(a)'
  BY <1>1, <1>2, <1>3, <1>4 DEF PhoneMoves, ReplyHolds, Agreed
<1>12. LoginHolds(l)'
  BY <1>6, <1>7, <1>8, <1>9 DEF LoginHolds
<1>13. \A r \in replies' : r \in replies \/ ReplyHolds(r)'
  BY <1>1, <1>11
<1> QED BY <1>1, <1>5, <1>10, <1>12, <1>13, OneLoginSteps DEF PhoneMoves

\* Every step of logins, phones and relay keeps the invariant.
LEMMA LoginNextKeeps ==
    ASSUME LoginInv, [LoginNext]_loginVars
    PROVE  LoginInv'
<1>1. ASSUME UNCHANGED loginVars PROVE LoginInv'
  <2>1. LoginFunctions'
    BY <1>1 DEF loginVars, LoginInv, LoginFunctions
  <2>2. ASSUME NEW l \in Logins PROVE LoginHolds(l)' /\ Forward(l)
    <3>1. Rests(l)
      BY <1>1 DEF loginVars, Rests
    <3> QED BY <3>1, RestingHolds DEF LoginInv
  <2>3. ASSUME NEW r \in replies' PROVE ReplyHolds(r)'
    <3>1. ReplyHolds(r)
      BY <1>1 DEF loginVars, LoginInv
    <3> QED BY <2>2, <3>1, RepliesHold DEF ReplyHolds, Forward
  <2>4. ASSUME NEW p \in Phones PROVE SavedHolds(p)'
    <3>1. SavedHolds(p) /\ saved'[p] = saved[p]
      BY <1>1 DEF loginVars, LoginInv
    <3> QED BY <2>2, <3>1, StoredHolds DEF SavedHolds
  <2> QED BY <2>1, <2>2, <2>3, <2>4 DEF LoginInv
<1>2. CASE \E p \in Phones, heard \in BOOLEAN : Unpair(p, heard)
  BY <1>2, UnpairKeeps
<1>3. ASSUME NEW l \in Logins,
             \E devices \in SUBSET Phones : Discover(l, devices)
      PROVE  LoginInv'
  BY <1>3, MovingSteps
<1>4. ASSUME NEW l \in Logins, NEW p \in Phones,
             StartAttempt(l, p) \/ Reauthenticate(l, p) \/ PhoneScans(l, p)
      PROVE  LoginInv'
  BY <1>4, StartKeeps, MovingSteps, ScanKeeps
<1>5. ASSUME NEW l \in Logins, \E to \in {"up", "ended"} : PollMoves(l, to)
      PROVE  LoginInv'
  BY <1>5, MovingSteps
<1>6. ASSUME NEW l \in Logins,
             \/ SendClientInit(l) \/ PollStopsFirst(l) \/ SendClientFinished(l)
             \/ ClientFinishedFails(l) \/ CancelLogin(l) \/ WaitReceives(l) \/ WaitExpires(l)
             \/ PhoneIsTold(l)
      PROVE  LoginInv'
  BY <1>6, PostingKeeps, MovingSteps, ToldKeeps
<1>7. ASSUME NEW l \in Logins, NEW r \in replies,
             ServerInitArrives(l, r) \/ FinishArrives(l, r) \/ PairedArrives(l, r)
      PROVE  LoginInv'
  BY <1>7, ServerInitKeeps, FinishKeeps, PairedKeeps
<1>8. ASSUME NEW l \in Logins, NEW ok \in BOOLEAN,
             \/ FetchConfig(l, ok) \/ SignIn(l, ok) \/ ClientInitFails(l, ok)
             \/ FinishLogin(l, ok) \/ CompleteSession(l, ok) \/ LoginDisconnects(l, ok)
             \/ RegisterPhoneRelay(l, ok) \/ RefreshPhoneRelay(l, ok)
             \/ PhoneAnswersFinish(l, ok)
      PROVE  LoginInv'
  BY <1>8, MovingSteps, StoringKeeps, RegisterLoginKeeps, AnswersFinishKeeps
<1>9. ASSUME NEW l \in Logins, NEW s \in ServerInits, PhoneAnswersInit(l, s)
      PROVE  LoginInv'
  BY <1>9, AnswersInitKeeps
<1> QED BY <1>1, <1>2, <1>3, <1>4, <1>5, <1>6, <1>7, <1>8, <1>9 DEF LoginNext

\* What is stored is what both sides hold.
LEMMA LoginInvIsPaired == LoginInv => SavedLoginIsPaired
BY DEF LoginInv, SavedHolds, Paired, SavedLoginIsPaired

\* Pairing, for every number of logins and phones and whatever the phones offer: a
\* login stored by the bridge or completed by the gateway is one its phone approved
\* by the code this login showed, under the same keys, however late, repeated or
\* misdirected the answers were.
THEOREM LoginsSavedArePaired == LoginSpec => []SavedLoginIsPaired
<1>1. LoginInit => LoginInv
  <2> SUFFICES ASSUME LoginInit PROVE LoginInv
    OBVIOUS
  <2>1. LoginFunctions /\ \A p \in Phones : SavedHolds(p)
    BY DEF LoginInit, LoginFunctions, SavedHolds
  <2>2. ASSUME NEW l \in Logins PROVE LoginHolds(l)
    <3>1. flow[l] \in {"google", "gateway", "qr"}
      BY LoginFlowAssumption DEF LoginInit
    <3> QED BY <3>1 DEF LoginInit, LoginHolds, FlowHolds, ExchangeHolds, QRHolds, ProgressHolds,
          PostsHold, Met, OnlyGoogle, BeforeInit, FromFinish, Over
  <2> QED BY <2>1, <2>2 DEF LoginInv, LoginInit
<1>2. LoginInv /\ [LoginNext]_loginVars => LoginInv'
  BY LoginNextKeeps
<1> QED BY <1>1, <1>2, LoginInvIsPaired, PTL DEF LoginSpec

-----------------------------------------------------------------------------
(***************************************************************************)
(* Proof that the goroutines of the client own a session. The inductive    *)
(* invariant says that a generation is the current one until it is done,   *)
(* that one call at most creates a generation, and that a new token is     *)
(* handed over by a call, by a late reader, or by the signal of a          *)
(* generation that is not done.                                            *)
(***************************************************************************)

Gen ==
    [state: {"starting", "running", "stopping"}, cancelled: BOOLEAN, accept: BOOLEAN,
     signal: BOOLEAN, live: SUBSET Goroutines,
     poll: {"new", "start", "loop", "refresh", "emit", "open"},
     started: BOOLEAN, failed: BOOLEAN, done: BOOLEAN]

\* Where a call of Connect is between creating its generation and announcing it.
Validating == {"validate", "refresh", "emit", "launch", "fail"}
Creating   == Validating \cup {"announce"}
WithToken  == {"refresh", "emit", "launch", "announce"}

Places == Creating \cup {"idle", "stopAux", "joinAux", "choose", "joinStart", "joinDone",
                         "cancel", "close", "joinAll", "clear"}

Call == [at: Places, gen: Nat, aux: BOOLEAN]

Auxiliary == [on: BOOLEAN, phase: {"none", "polling", "delay", "closing", "gone"},
              allow: BOOLEAN, cancelled: BOOLEAN, reconnect: BOOLEAN]

ClientTypeOK ==
    /\ gens \in Seq(Gen) /\ lifecycle \in 0..Len(gens)
    /\ caller \in [Callers -> Call]
    /\ token \in Nat /\ hooked \in Nat /\ secrets \in BOOLEAN
    /\ auxiliary \in Auxiliary
    /\ auxiliary.phase # "gone" => caller[AuxCaller].at = "idle"

\* A generation is the current one until it is done; its goroutines have a session,
\* and the last thing its activity loop does is to hand over what was signalled.
GenHolds(g, v) ==
    /\ v.done => lifecycle # g
    /\ ~v.done => lifecycle = g
    /\ v.live # {} => ~v.done /\ secrets
    /\ ~v.accept => ~v.signal /\ v.cancelled
    /\ v.started /\ "activity" \notin v.live => ~v.accept

\* The one call that creates the current generation owns it until it is announced;
\* a reset of the credentials sees no generation but the one it stops.
CallHolds(p, c) ==
    /\ c.at \in Creating => c.gen = lifecycle /\ lifecycle # 0 /\ ~gens[lifecycle].started
    /\ c.at \in Validating => gens[lifecycle].live = {} /\ gens[lifecycle].accept
    /\ c.at = "announce" /\ "activity" \notin gens[lifecycle].live => ~gens[lifecycle].accept
    /\ c.at \in WithToken => secrets
    /\ c.at \in {"close", "joinAll"} /\ reset = p => lifecycle \in {0, c.gen}
    /\ c.at = "clear" => reset = p /\ lifecycle = 0

OneCreates ==
    \A p, q \in Callers : caller[p].at \in Creating /\ caller[q].at \in Creating => p = q

TokenHolds ==
    token > hooked =>
       Emitting \/ late = token \/ \E g \in Generations : gens[g].signal /\ ~gens[g].done

ClientInv ==
    /\ ClientTypeOK
    /\ \A g \in Generations : GenHolds(g, gens[g])
    /\ \A p \in Callers : CallHolds(p, caller[p])
    /\ OneCreates
    /\ TokenHolds

\* Writing one generation.
LEMMA GenWritten ==
    ASSUME gens \in Seq(Gen), NEW g \in Generations, NEW new \in Gen,
           gens' = [gens EXCEPT ![g] = new]
    PROVE  /\ gens' \in Seq(Gen) /\ Len(gens') = Len(gens) /\ Generations' = Generations
           /\ gens'[g] = new /\ \A h \in Generations : h # g => gens'[h] = gens[h]
<1>1. gens' \in Seq(Gen) /\ Len(gens') = Len(gens)
  BY ExceptSeq DEF Generations
<1> QED BY <1>1 DEF Generations

\* What a call may become that leaves every generation alone.
CallFits(p, c) ==
    /\ c \in Call
    /\ c.at \in Creating => caller[p].at \in Creating
    /\ caller[p].at = "emit" => c.at = "emit"

\* A step of a call that leaves every generation alone.
LEMMA CallerMoves ==
    ASSUME ClientInv, NEW p \in Callers, NEW c, CallFits(p, c), CallHolds(p, c)',
           caller' = [caller EXCEPT ![p] = c],
           UNCHANGED <<lifecycle, gens, secrets, token, hooked, late>>,
           \A q \in Callers : q # p => (reset' = q <=> reset = q),
           auxiliary' \in Auxiliary, auxiliary'.phase # "gone" => caller'[AuxCaller].at = "idle"
    PROVE  ClientInv'
<1>0. /\ ClientTypeOK /\ caller \in [Callers -> Call] /\ c \in Call
      /\ gens' = gens /\ lifecycle' = lifecycle /\ secrets' = secrets
  BY DEF ClientInv, ClientTypeOK, CallFits
<1>1. caller'[p] = c /\ \A q \in Callers : q # p => caller'[q] = caller[q]
  BY <1>0
<1>2. ClientTypeOK'
  BY <1>0 DEF ClientTypeOK
<1>3. ASSUME NEW g \in Generations' PROVE GenHolds(g, gens[g])'
  BY <1>0 DEF ClientInv, GenHolds, Generations
<1>4. ASSUME NEW q \in Callers PROVE CallHolds(q, caller[q])'
  <2>1. CASE q = p
    BY <1>1, <2>1
  <2>2. CASE q # p
    <3>1. CallHolds(q, caller[q]) /\ caller'[q] = caller[q]
      BY <1>1, <2>2 DEF ClientInv
    <3> QED BY <1>0, <2>2, <3>1 DEF CallHolds
  <2> QED BY <2>1, <2>2
<1>5. OneCreates'
  BY <1>1 DEF ClientInv, OneCreates, CallFits
<1>6. TokenHolds'
  <2>1. Emitting => Emitting'
    BY <1>0, <1>1 DEF Emitting, At, CallFits, Runs, Generations
  <2> QED BY <1>0, <2>1 DEF ClientInv, TokenHolds, Generations
<1> QED BY <1>2, <1>3, <1>4, <1>5, <1>6 DEF ClientInv

\* What a generation may become when neither a call nor its end is concerned.
GenFits(g, new) ==
    /\ new \in Gen
    /\ new.done <=> gens[g].done
    /\ new.started <=> gens[g].started
    /\ new.live # {} => gens[g].live # {}
    /\ ~new.accept => ~new.signal /\ new.cancelled
    /\ "activity" \notin new.live /\ new.accept => "activity" \notin gens[g].live /\ gens[g].accept
    /\ gens[g].live = {} /\ gens[g].accept => new.accept

\* A step of a generation that leaves every call alone.
LEMMA GenMoves ==
    ASSUME ClientInv, NEW g \in Generations, NEW new, GenFits(g, new),
           gens' = [gens EXCEPT ![g] = new],
           UNCHANGED <<lifecycle, caller, secrets, reset, auxiliary>>,
           token' \in Nat, hooked' \in Nat, TokenHolds'
    PROVE  ClientInv'
<1>0. /\ ClientTypeOK /\ gens \in Seq(Gen) /\ new \in Gen /\ lifecycle \in 0..Len(gens)
      /\ GenHolds(g, gens[g])
  BY DEF ClientInv, ClientTypeOK, GenFits
<1>1. /\ gens' \in Seq(Gen) /\ Len(gens') = Len(gens) /\ Generations' = Generations
      /\ gens'[g] = new /\ \A h \in Generations : h # g => gens'[h] = gens[h]
  BY <1>0, GenWritten
<1>2. ClientTypeOK'
  BY <1>0, <1>1 DEF ClientTypeOK
<1>3. ASSUME NEW h \in Generations' PROVE GenHolds(h, gens[h])'
  <2>1. CASE h = g
    <3>1. GenHolds(g, new)'
      BY <1>0 DEF GenHolds, GenFits
    <3> QED BY <1>1, <2>1, <3>1
  <2>2. CASE h # g
    <3>1. gens'[h] = gens[h] /\ GenHolds(h, gens[h])
      BY <1>1, <2>2 DEF ClientInv
    <3> QED BY <3>1 DEF GenHolds
  <2> QED BY <2>1, <2>2
<1>4. ASSUME NEW q \in Callers PROVE CallHolds(q, caller[q])'
  <2>1. CallHolds(q, caller[q])
    BY DEF ClientInv
  <2>2. CASE lifecycle = g
    BY <1>0, <1>1, <2>1, <2>2 DEF CallHolds, GenFits, Creating
  <2>3. CASE lifecycle # g
    <3>1. lifecycle = 0 \/ gens'[lifecycle] = gens[lifecycle]
      BY <1>0, <1>1, <2>3 DEF Generations
    <3> QED BY <2>1, <3>1 DEF CallHolds, Creating
  <2> QED BY <2>2, <2>3
<1>5. OneCreates'
  BY DEF ClientInv, OneCreates
<1> QED BY <1>2, <1>3, <1>4, <1>5 DEF ClientInv

\* A call that moves to another place, or returns.
MovedCall(p, where) == IF where = "idle" THEN IdleCall ELSE [caller[p] EXCEPT !.at = where]

\* Where a call may go by itself: not to where it would own a generation it does not,
\* and not away from a token it has yet to announce.
PlaceFits(p, where) ==
    /\ where \in Places
    /\ where \in Creating => caller[p].at \in Creating
    /\ where \in Validating => caller[p].at \in Validating
    /\ where = "announce" => caller[p].at = where
    /\ where \in WithToken => secrets
    /\ caller[p].at # "emit"
    /\ where \in {"close", "joinAll"} => caller[p].at \in {"close", "joinAll"}
    /\ where = "clear" => reset = p /\ lifecycle = 0

\* Such a move of a call keeps the invariant.
LEMMA PlaceKeeps ==
    ASSUME ClientInv, NEW p \in Callers, NEW where, PlaceFits(p, where), MoveTo(p, where),
           UNCHANGED <<lifecycle, gens, secrets, token, hooked, late>>,
           reset' = reset \/ (reset = NoCaller /\ reset' = p /\ where = "cancel"),
           auxiliary' \in Auxiliary, auxiliary'.phase = auxiliary.phase,
           p = AuxCaller => caller[p].at # "idle"
    PROVE  ClientInv'
<1>0. ClientTypeOK /\ caller[p] \in Call /\ CallHolds(p, caller[p])
  BY DEF ClientInv, ClientTypeOK
<1>1. PICK c : c = MovedCall(p, where)
  OBVIOUS
<1>2. c \in Call /\ c.at = where /\ (where # "idle" => c.gen = caller[p].gen)
  <2>1. IdleCall \in Call /\ IdleCall.at = "idle"
    BY DEF IdleCall, Call, Places, Creating, Validating
  <2> QED BY <1>0, <1>1, <2>1 DEF MovedCall, PlaceFits, Call
<1>3. caller' = [caller EXCEPT ![p] = c]
  BY <1>1 DEF MoveTo, MovedCall
<1>4. CallFits(p, c)
  BY <1>2 DEF CallFits, PlaceFits
<1>5. CallHolds(p, c)'
  <2>1. lifecycle' = lifecycle /\ gens' = gens /\ secrets' = secrets
    OBVIOUS
  <2>2. "idle" \notin Creating /\ "announce" \notin Validating /\ Validating \subseteq Creating
    BY DEF Creating, Validating
  <2>3. where \in Creating => c.gen = lifecycle /\ lifecycle # 0 /\ ~gens[lifecycle].started
    BY <1>0, <1>2, <2>2 DEF CallHolds, PlaceFits
  <2>4. where \in Validating => gens[lifecycle].live = {} /\ gens[lifecycle].accept
    BY <1>0 DEF CallHolds, PlaceFits
  <2>5. where = "announce" /\ "activity" \notin gens[lifecycle].live => ~gens[lifecycle].accept
    BY <1>0 DEF CallHolds, PlaceFits
  <2>6. where \in {"close", "joinAll"} /\ reset' = p => lifecycle \in {0, c.gen}
    BY <1>0, <1>2 DEF CallHolds, PlaceFits
  <2>7. where = "clear" => reset' = p /\ lifecycle = 0
    BY DEF PlaceFits
  <2>8. where \in WithToken => secrets
    BY DEF PlaceFits
  <2> QED BY <1>2, <2>1, <2>3, <2>4, <2>5, <2>6, <2>7, <2>8 DEF CallHolds
<1>6. \A q \in Callers : q # p => (reset' = q <=> reset = q)
  BY ClientConstants
<1>7. auxiliary'.phase # "gone" => caller'[AuxCaller].at = "idle"
  <2>1. CASE p = AuxCaller
    BY <1>0, <2>1 DEF ClientTypeOK
  <2>2. CASE p # AuxCaller
    BY <1>0, <1>3, <2>2, ClientConstants DEF ClientTypeOK
  <2> QED BY <2>1, <2>2
<1> QED BY <1>3, <1>4, <1>5, <1>6, <1>7, CallerMoves

\* The generation a call has to join is not the current one once it is done.
LEMMA DoneIsNotCurrent ==
    ASSUME ClientInv, NEW g, gens[g].done
    PROVE  lifecycle # g \/ g = 0
<1> SUFFICES ASSUME lifecycle = g, g # 0 PROVE FALSE
  OBVIOUS
<1>1. g \in Generations
  BY DEF ClientInv, ClientTypeOK, Generations
<1> QED BY <1>1 DEF ClientInv, GenHolds

\* The steps of Connect, Disconnect and ClearSessionSecrets that touch no generation.
LEMMA WaitingSteps ==
    ASSUME ClientInv, NEW p \in Callers,
           \/ Connect(p) \/ Disconnect(p) \/ ClearSessionSecrets(p) \/ StopAuxiliary(p)
           \/ JoinAuxiliary(p) \/ JoinStarted(p) \/ JoinDone(p) \/ Validate(p)
           \/ DisconnectReturns(p) \/ WaitAborted(p)
    PROVE  ClientInv'
<1>0. ClientTypeOK /\ caller[p] \in Call /\ auxiliary \in Auxiliary /\ CallHolds(p, caller[p])
  BY DEF ClientInv, ClientTypeOK
<1> DEFINE Touches == /\ UNCHANGED <<lifecycle, gens, secrets, token, hooked, late>>
                      /\ auxiliary' \in Auxiliary /\ auxiliary'.phase = auxiliary.phase
                      /\ p = AuxCaller => caller[p].at # "idle"
<1>1. CASE Connect(p) \/ Disconnect(p)
  <2>1. PICK w \in {"stopAux", "cancel"} : MoveTo(p, w)
    BY <1>1 DEF Connect, Disconnect
  <2>2. PlaceFits(p, w) /\ Touches /\ reset' = reset
    BY <1>0, <1>1 DEF Connect, Disconnect, Calls, At, PlaceFits, Places, Creating, Validating,
       WithToken
  <2> QED BY <2>1, <2>2, PlaceKeeps
<1>2. CASE ClearSessionSecrets(p)
  <2>1. PlaceFits(p, "cancel") /\ Touches /\ MoveTo(p, "cancel") /\ reset = NoCaller /\ reset' = p
    BY <1>0, <1>2 DEF ClearSessionSecrets, Calls, At, PlaceFits, Places, Creating, Validating,
       WithToken
  <2> QED BY <2>1, PlaceKeeps
<1>3. CASE StopAuxiliary(p)
  <2>1. PICK w \in {"joinAux", "choose"} : MoveTo(p, w)
    BY <1>3 DEF StopAuxiliary
  <2>2. PlaceFits(p, w) /\ Touches /\ reset' = reset
    BY <1>0, <1>3 DEF StopAuxiliary, At, PlaceFits, Places, Creating, Validating,
       WithToken, Auxiliary
  <2> QED BY <2>1, <2>2, PlaceKeeps
<1>4. CASE JoinAuxiliary(p)
  <2>1. PlaceFits(p, "choose") /\ Touches /\ MoveTo(p, "choose") /\ reset' = reset
    BY <1>0, <1>4 DEF JoinAuxiliary, At, PlaceFits, Places, Creating, Validating,
       WithToken
  <2> QED BY <2>1, PlaceKeeps
<1>5. CASE JoinStarted(p)
  <2>1. PICK w \in {"joinDone", "idle"} : MoveTo(p, w)
    BY <1>5 DEF JoinStarted
  <2>2. PlaceFits(p, w) /\ Touches /\ reset' = reset
    BY <1>0, <1>5 DEF JoinStarted, At, PlaceFits, Places, Creating, Validating,
       WithToken
  <2> QED BY <2>1, <2>2, PlaceKeeps
<1>6. CASE JoinDone(p)
  <2>1. lifecycle' = lifecycle
    BY <1>6, DoneIsNotCurrent DEF JoinDone
  <2>2. PlaceFits(p, "choose") /\ Touches /\ MoveTo(p, "choose") /\ reset' = reset
    BY <1>0, <1>6, <2>1 DEF JoinDone, At, PlaceFits, Places, Creating, Validating,
       WithToken
  <2> QED BY <2>2, PlaceKeeps
<1>7. CASE Validate(p)
  <2>1. PICK w \in {"refresh", "fail"} : MoveTo(p, w) /\ (w = "refresh" => secrets)
    BY <1>7 DEF Validate
  <2>2. PlaceFits(p, w) /\ Touches /\ reset' = reset
    BY <1>0, <1>7, <2>1 DEF Validate, At, PlaceFits, Places, Creating, Validating,
       WithToken
  <2> QED BY <2>1, <2>2, PlaceKeeps
<1>8. CASE DisconnectReturns(p)
  <2>1. PICK w \in {"clear", "idle"} : MoveTo(p, w) /\ (w = "clear" => reset = p)
    BY <1>8 DEF DisconnectReturns
  <2>2. w = "clear" => lifecycle = 0
    BY <1>0, <1>8, <2>1, DoneIsNotCurrent DEF DisconnectReturns, Joined, Mine, At, CallHolds
  <2>3. PlaceFits(p, w) /\ Touches /\ reset' = reset
    BY <1>0, <1>8, <2>1, <2>2 DEF DisconnectReturns, At, PlaceFits, Places, Creating, Validating,
       WithToken
  <2> QED BY <2>1, <2>3, PlaceKeeps
<1>9. CASE WaitAborted(p)
  <2>1. PlaceFits(p, "idle") /\ Touches /\ MoveTo(p, "idle") /\ reset' = reset
    BY <1>0, <1>9 DEF WaitAborted, At, PlaceFits, Places, Creating, Validating,
       WithToken
  <2> QED BY <2>1, PlaceKeeps
<1> QED BY <1>1, <1>2, <1>3, <1>4, <1>5, <1>6, <1>7, <1>8, <1>9

\* Connect creates a generation only when there is none and no reset is under way.
LEMMA ChooseKeeps ==
    ASSUME ClientInv, NEW p \in Callers, Choose(p)
    PROVE  ClientInv'
<1>0. /\ ClientTypeOK /\ caller[p] \in Call /\ caller \in [Callers -> Call]
      /\ lifecycle \in 0..Len(gens) /\ gens \in Seq(Gen) /\ caller[p].at = "choose"
      /\ Len(gens) \in Nat /\ lifecycle \in Nat
  BY DEF ClientInv, ClientTypeOK, Choose, At
<1>1. CASE lifecycle # 0
  <2>1. PICK w \in {"joinDone", "joinStart"} : MoveFor(p, w, lifecycle)
    BY <1>1 DEF Choose, MustJoin
  <2>2. PICK c : c = [caller[p] EXCEPT !.at = w, !.gen = lifecycle]
    OBVIOUS
  <2>3. c \in Call /\ c.at = w
    BY <1>0, <2>2 DEF Call, Places
  <2>4. caller' = [caller EXCEPT ![p] = c]
    BY <2>1, <2>2 DEF MoveFor
  <2>5. /\ UNCHANGED <<lifecycle, gens, secrets, token, hooked, late, reset, auxiliary>>
        /\ auxiliary' \in Auxiliary
    BY <1>0, <1>1 DEF Choose, MustJoin, ClientTypeOK
  <2>6. CallFits(p, c) /\ CallHolds(p, c)'
    BY <1>0, <2>3 DEF CallFits, CallHolds, Creating, Validating, WithToken
  <2>7. auxiliary'.phase # "gone" => caller'[AuxCaller].at = "idle"
    BY <1>0, <2>4, <2>5, ClientConstants DEF ClientTypeOK
  <2> QED BY <2>4, <2>5, <2>6, <2>7, CallerMoves
<1>2. CASE lifecycle = 0
  <2> DEFINE n == Len(gens) + 1
  <2>1. /\ gens' = Append(gens, NewGeneration) /\ lifecycle' = n /\ MoveFor(p, "validate", n)
        /\ UNCHANGED <<reset, secrets, token, hooked, late, auxiliary>> /\ reset = NoCaller
    BY <1>2 DEF Choose, MustJoin, MayChoose
  <2>2. n \in Nat /\ n # 0 /\ n = Len(gens) + 1
    BY <1>0
  <2>3. PICK c : c = [caller[p] EXCEPT !.at = "validate", !.gen = n]
    OBVIOUS
  <2>4. c \in Call /\ c.at = "validate" /\ c.gen = n
    BY <1>0, <2>2, <2>3 DEF Call, Places, Creating, Validating
  <2>5. caller' = [caller EXCEPT ![p] = c]
    BY <2>1, <2>3 DEF MoveFor
  <2>6. NewGeneration \in Gen
    BY DEF NewGeneration, Gen
  <2> HIDE DEF n
  <2>7. /\ gens' \in Seq(Gen) /\ Len(gens') = n /\ gens'[n] = NewGeneration
        /\ \A h \in Generations : gens'[h] = gens[h] /\ h # n /\ h # 0
    BY <1>0, <2>1, <2>2, <2>6 DEF Generations
  <2>8. ClientTypeOK'
    BY <1>0, <2>1, <2>2, <2>4, <2>5, <2>7, ClientConstants DEF ClientTypeOK
  <2>9. ASSUME NEW h \in Generations' PROVE GenHolds(h, gens[h])'
    <3>1. CASE h = n
      BY <2>1, <2>7, <3>1 DEF GenHolds, NewGeneration
    <3>2. CASE h # n
      <4>1. h \in Generations
        BY <2>2, <2>7, <3>2 DEF Generations
      <4>2. gens'[h] = gens[h] /\ GenHolds(h, gens[h])
        BY <2>7, <4>1 DEF ClientInv
      <4> QED BY <1>2, <2>1, <2>7, <4>1, <4>2 DEF GenHolds
    <3> QED BY <3>1, <3>2
  <2>10. \A q \in Callers : caller[q].at \notin Creating
    BY <1>2 DEF ClientInv, CallHolds
  <2>11. ASSUME NEW q \in Callers PROVE CallHolds(q, caller[q])'
    <3>1. CASE q = p
      <4>1. CallHolds(p, c)'
        BY <2>1, <2>2, <2>4, <2>7 DEF CallHolds, NewGeneration, Creating, Validating, WithToken
      <4> QED BY <1>0, <2>5, <3>1, <4>1
    <3>2. CASE q # p
      <4>1. caller'[q] = caller[q] /\ CallHolds(q, caller[q]) /\ caller[q].at \notin Creating
        BY <1>0, <2>5, <2>10, <3>2 DEF ClientInv
      <4>2. reset' # q /\ reset # q
        BY <2>1, ClientConstants
      <4> QED BY <4>1, <4>2 DEF CallHolds, Creating, Validating, WithToken
    <3> QED BY <3>1, <3>2
  <2>12. OneCreates'
    BY <1>0, <2>5, <2>10 DEF OneCreates
  <2>13. TokenHolds'
    <3>1. Emitting => Emitting'
      <4>1. ASSUME NEW q \in Callers, At(q, "emit") PROVE FALSE
        BY <2>10, <4>1 DEF At, Creating, Validating
      <4>2. Generations \subseteq Generations'
        BY <1>0, <2>2, <2>7 DEF Generations
      <4> QED BY <2>7, <4>1, <4>2 DEF Emitting, Runs
    <3>2. Generations \subseteq Generations'
      BY <1>0, <2>2, <2>7 DEF Generations
    <3> QED BY <2>1, <2>7, <3>1, <3>2 DEF ClientInv, TokenHolds
  <2> QED BY <2>8, <2>9, <2>11, <2>12, <2>13 DEF ClientInv
<1> QED BY <1>1, <1>2

\* The refresh: skipped, failed, or a new token that is still to be announced.
LEMMA RefreshKeeps ==
    ASSUME ClientInv, NEW p \in Callers, Refresh(p)
    PROVE  ClientInv'
<1>0. /\ ClientTypeOK /\ caller[p] \in Call /\ caller \in [Callers -> Call]
      /\ caller[p].at = "refresh" /\ CallHolds(p, caller[p]) /\ auxiliary \in Auxiliary
      /\ token \in Nat
  BY DEF ClientInv, ClientTypeOK, Refresh, At
<1>1. UNCHANGED <<lifecycle, gens, reset, secrets, hooked, late, listener, auxiliary, calls>>
  BY DEF Refresh
<1>2. secrets /\ p # NoCaller
  BY <1>0, ClientConstants DEF CallHolds, WithToken
<1>3. CASE UNCHANGED token
  <2>1. PICK w \in {"launch", "fail", "emit"} : MoveTo(p, w)
    BY DEF Refresh
  <2>2. PlaceFits(p, w)
    BY <1>0, <1>2 DEF PlaceFits, Places, Creating, Validating, WithToken
  <2> QED BY <1>0, <1>1, <1>3, <2>1, <2>2, PlaceKeeps
<1>4. CASE token' = token + 1 /\ MoveTo(p, "emit")
  <2>1. PICK c : c = [caller[p] EXCEPT !.at = "emit"]
    OBVIOUS
  <2>2. c \in Call /\ c.at = "emit" /\ c.gen = caller[p].gen
    BY <1>0, <2>1 DEF Call, Places, Creating, Validating
  <2>3. caller' = [caller EXCEPT ![p] = c]
    BY <1>4, <2>1 DEF MoveTo
  <2>4. caller'[p] = c /\ \A q \in Callers : q # p => caller'[q] = caller[q]
    BY <1>0, <2>3
  <2>5. ClientTypeOK'
    BY <1>0, <1>1, <1>4, <2>2, <2>3, ClientConstants DEF ClientTypeOK
  <2>6. ASSUME NEW g \in Generations' PROVE GenHolds(g, gens[g])'
    BY <1>1 DEF ClientInv, GenHolds, Generations
  <2>7. ASSUME NEW q \in Callers PROVE CallHolds(q, caller[q])'
    <3>1. CASE q = p
      <4>1. CallHolds(p, c)'
        BY <1>0, <1>1, <1>2, <2>2 DEF CallHolds, Creating, Validating, WithToken
      <4> QED BY <2>4, <3>1, <4>1
    <3>2. CASE q # p
      <4>1. CallHolds(q, caller[q]) /\ caller'[q] = caller[q]
        BY <2>4, <3>2 DEF ClientInv
      <4> QED BY <1>1, <4>1 DEF CallHolds
    <3> QED BY <3>1, <3>2
  <2>8. OneCreates'
    BY <1>0, <2>2, <2>4 DEF ClientInv, OneCreates, Creating, Validating
  <2>9. TokenHolds'
    BY <2>2, <2>4 DEF TokenHolds, Emitting, At
  <2> QED BY <2>5, <2>6, <2>7, <2>8, <2>9 DEF ClientInv
<1> QED BY <1>3, <1>4 DEF Refresh

\* The call that creates a generation, the generation it owns, and nobody else.
LEMMA CreatorOwns ==
    ASSUME ClientInv, NEW p \in Callers, caller[p].at \in Creating
    PROVE  /\ lifecycle \in Generations /\ Mine(p) = lifecycle /\ gens[lifecycle] \in Gen
           /\ CallHolds(p, caller[p]) /\ GenHolds(lifecycle, gens[lifecycle])
           /\ ~gens[lifecycle].done /\ ~gens[lifecycle].started
           /\ \A q \in Callers : q # p => caller[q].at \notin Creating
<1>1. CallHolds(p, caller[p]) /\ gens \in Seq(Gen) /\ lifecycle \in 0..Len(gens)
  BY DEF ClientInv, ClientTypeOK
<1>2. Mine(p) = lifecycle /\ lifecycle # 0 /\ ~gens[lifecycle].started
  BY <1>1 DEF CallHolds, Mine
<1>3. lifecycle \in Generations /\ gens[lifecycle] \in Gen
  BY <1>1, <1>2 DEF Generations
<1>4. GenHolds(lifecycle, gens[lifecycle])
  BY <1>3 DEF ClientInv
<1>5. ~gens[lifecycle].done
  BY <1>4 DEF GenHolds
<1> QED BY <1>1, <1>2, <1>3, <1>4, <1>5 DEF ClientInv, OneCreates

\* A step of that call on its own generation.
LEMMA OwnerSteps ==
    ASSUME ClientInv, NEW p \in Callers, caller[p].at \in Creating,
           NEW g, g = lifecycle, NEW new \in Gen, NEW c \in Call,
           gens' = [gens EXCEPT ![g] = new], caller' = [caller EXCEPT ![p] = c],
           lifecycle' \in {g, 0}, UNCHANGED <<secrets, reset, token, auxiliary>>,
           hooked' \in Nat, GenHolds(g, new)', CallHolds(p, c)', TokenHolds'
    PROVE  ClientInv'
<1>0. /\ ClientTypeOK /\ gens \in Seq(Gen) /\ caller \in [Callers -> Call] /\ g \in Generations
      /\ Len(gens) \in Nat /\ g # 0
      /\ \A q \in Callers : q # p => caller[q].at \notin Creating
  BY CreatorOwns DEF ClientInv, ClientTypeOK, Generations
<1>1. /\ gens' \in Seq(Gen) /\ Len(gens') = Len(gens) /\ Generations' = Generations
      /\ gens'[g] = new /\ \A h \in Generations : h # g => gens'[h] = gens[h]
  BY <1>0, GenWritten
<1>2. caller'[p] = c /\ \A q \in Callers : q # p => caller'[q] = caller[q]
  BY <1>0
<1>3. auxiliary.phase # "gone" => p # AuxCaller
  BY <1>0 DEF ClientTypeOK, Creating, Validating
<1>4. ClientTypeOK'
  <2>1. caller' \in [Callers -> Call] /\ lifecycle' \in 0..Len(gens')
    BY <1>0, <1>1 DEF Generations
  <2>2. auxiliary'.phase # "gone" => caller'[AuxCaller].at = "idle"
    BY <1>0, <1>2, <1>3, ClientConstants DEF ClientTypeOK
  <2> QED BY <1>0, <1>1, <2>1, <2>2 DEF ClientTypeOK
<1>5. ASSUME NEW h \in Generations' PROVE GenHolds(h, gens[h])'
  <2>1. CASE h = g
    BY <1>1, <2>1
  <2>2. CASE h # g
    <3>1. gens'[h] = gens[h] /\ GenHolds(h, gens[h]) /\ h # 0
      BY <1>0, <1>1, <2>2 DEF ClientInv, Generations
    <3> QED BY <2>2, <3>1 DEF GenHolds
  <2> QED BY <2>1, <2>2
<1>6. ASSUME NEW q \in Callers PROVE CallHolds(q, caller[q])'
  <2>1. CASE q = p
    BY <1>2, <2>1
  <2>2. CASE q # p
    <3>1. /\ caller'[q] = caller[q] /\ CallHolds(q, caller[q]) /\ caller[q].at \notin Creating
          /\ caller[q].at \notin Validating /\ caller[q].at \notin WithToken
          /\ caller[q].at # "announce"
      BY <1>0, <1>2, <2>2 DEF ClientInv, Creating, Validating, WithToken
    <3> QED BY <3>1 DEF CallHolds
  <2> QED BY <2>1, <2>2
<1>7. OneCreates'
  BY <1>0, <1>2 DEF OneCreates
<1> QED BY <1>4, <1>5, <1>6, <1>7 DEF ClientInv

\* Nothing but the owner's own announcement is under way before it launches.
LEMMA NobodyEmits ==
    ASSUME ClientInv, NEW p \in Callers, caller[p].at \in Validating, caller[p].at # "emit"
    PROVE  ~Emitting
<1>1. /\ lifecycle \in Generations /\ \A q \in Callers : q # p => caller[q].at \notin Creating
      /\ CallHolds(p, caller[p])
  BY CreatorOwns DEF Creating
<1>2. gens[lifecycle].live = {}
  BY <1>1 DEF CallHolds
<1>3. ASSUME NEW q \in Callers PROVE ~At(q, "emit")
  BY <1>1 DEF At, Creating, Validating
<1>4. ASSUME NEW h \in Generations PROVE ~Runs(h, "poll")
  BY <1>2 DEF ClientInv, GenHolds, Runs
<1> QED BY <1>3, <1>4 DEF Emitting

\* A token the refresh brought is signalled to the generation being started.
LEMMA EmitRefreshedKeeps ==
    ASSUME ClientInv, NEW p \in Callers, EmitRefreshed(p)
    PROVE  ClientInv'
<1>1. caller[p].at = "emit" /\ caller[p].at \in Creating /\ caller[p].at \in Validating
  BY DEF EmitRefreshed, At, Creating, Validating
<1>2. PICK g : g = lifecycle
  OBVIOUS
<1>3. /\ g \in Generations /\ Mine(p) = g /\ gens[g] \in Gen /\ CallHolds(p, caller[p])
      /\ GenHolds(g, gens[g]) /\ ~gens[g].done /\ ~gens[g].started
      /\ caller[p] \in Call /\ gens \in Seq(Gen) /\ hooked \in Nat
  BY <1>1, <1>2, CreatorOwns DEF ClientInv, ClientTypeOK
<1>4. gens[g].live = {} /\ gens[g].accept /\ secrets /\ g # 0
  BY <1>1, <1>2, <1>3 DEF CallHolds, WithToken
<1>5. PICK new : new = [gens[g] EXCEPT !.signal = TRUE, !.poll = "open"]
  OBVIOUS
<1>6. PICK c : c = [caller[p] EXCEPT !.at = "launch"]
  OBVIOUS
<1>7. /\ new \in Gen /\ new.signal /\ ~new.done /\ new.live = {} /\ new.accept /\ ~new.started
  BY <1>3, <1>4, <1>5 DEF Gen
<1>8. c \in Call /\ c.at = "launch" /\ c.gen = g
  BY <1>3, <1>6 DEF Call, Places, Creating, Validating, Mine
<1>9. gens' = [gens EXCEPT ![g] = new]
  BY <1>2, <1>3, <1>4, <1>5 DEF EmitRefreshed, SignalSessionChange, Accepting
<1>10. /\ caller' = [caller EXCEPT ![p] = c]
       /\ UNCHANGED <<lifecycle, reset, secrets, token, hooked, auxiliary>>
  BY <1>6 DEF EmitRefreshed, MoveTo
<1>11. gens'[g] = new /\ Generations' = Generations
  BY <1>3, <1>7, <1>9, GenWritten
<1>12. GenHolds(g, new)' /\ CallHolds(p, c)'
  BY <1>2, <1>4, <1>7, <1>8, <1>10, <1>11 DEF GenHolds, CallHolds, Creating, Validating, WithToken
<1>13. TokenHolds'
  BY <1>3, <1>7, <1>11 DEF TokenHolds
<1>14. lifecycle' \in {g, 0} /\ hooked' \in Nat
  BY <1>2, <1>3, <1>10
<1> QED BY <1>1, <1>2, <1>7, <1>8, <1>9, <1>10, <1>12, <1>13, <1>14, OwnerSteps

\* The goroutines start while the session has its secrets.
LEMMA LaunchKeeps ==
    ASSUME ClientInv, NEW p \in Callers, Launch(p)
    PROVE  ClientInv'
<1>1. caller[p].at = "launch" /\ caller[p].at \in Creating /\ caller[p].at \in Validating
  BY DEF Launch, At, Creating, Validating
<1>2. PICK g : g = lifecycle
  OBVIOUS
<1>3. /\ g \in Generations /\ Mine(p) = g /\ gens[g] \in Gen /\ CallHolds(p, caller[p])
      /\ GenHolds(g, gens[g]) /\ ~gens[g].done /\ ~gens[g].started
      /\ caller[p] \in Call /\ gens \in Seq(Gen) /\ hooked \in Nat /\ auxiliary \in Auxiliary
  BY <1>1, <1>2, CreatorOwns DEF ClientInv, ClientTypeOK
<1>4. gens[g].live = {} /\ gens[g].accept /\ secrets /\ g # 0
  BY <1>1, <1>2, <1>3 DEF CallHolds, WithToken
<1>5. CASE gens' = gens
  <2>1. MoveTo(p, "fail") \/ MoveTo(p, "announce")
    BY DEF Launch
  <2>2. gens' # [gens EXCEPT ![g].live = Goroutines \ {"presence"}, ![g].poll = "start"]
    <3> SUFFICES ASSUME gens' = [gens EXCEPT ![g].live = Goroutines \ {"presence"},
                                             ![g].poll = "start"]
                 PROVE  FALSE
      OBVIOUS
    <3>1. gens'[g].live = Goroutines \ {"presence"}
      BY <1>3 DEF Gen, Generations
    <3>2. "activity" \in Goroutines \ {"presence"}
      BY DEF Goroutines
    <3>3. "activity" \in gens[g].live
      BY <1>5, <3>1, <3>2
    <3> QED BY <1>4, <3>3
  <2>3. MoveTo(p, "fail") /\ UNCHANGED <<lifecycle, reset, secrets, token, hooked, late, auxiliary>>
    BY <1>3, <2>2 DEF Launch
  <2>4. PlaceFits(p, "fail")
    BY <1>1 DEF PlaceFits, Places, Creating, Validating, WithToken
  <2>5. p = AuxCaller => caller[p].at # "idle"
    BY <1>1
  <2> QED BY <1>3, <1>5, <2>3, <2>4, <2>5, PlaceKeeps
<1>6. CASE gens' # gens
  <2>1. PICK new : new = [gens[g] EXCEPT !.live = Goroutines \ {"presence"}, !.poll = "start"]
    OBVIOUS
  <2>2. PICK c : c = [caller[p] EXCEPT !.at = "announce"]
    OBVIOUS
  <2>3. /\ new \in Gen /\ ~new.done /\ new.live = Goroutines \ {"presence"} /\ new.accept
        /\ ~new.started /\ "activity" \in new.live /\ new.poll = "start"
        /\ (new.signal <=> gens[g].signal)
    BY <1>3, <1>4, <2>1 DEF Gen, Goroutines
  <2>4. c \in Call /\ c.at = "announce" /\ c.gen = g
    BY <1>3, <2>2 DEF Call, Places, Creating, Mine
  <2>5. gens' = [gens EXCEPT ![g] = new]
    BY <1>3, <1>6, <2>1 DEF Launch
  <2>6. /\ caller' = [caller EXCEPT ![p] = c]
        /\ UNCHANGED <<lifecycle, reset, secrets, token, hooked, late, auxiliary>>
    BY <1>6, <2>2 DEF Launch, MoveTo
  <2>7. /\ gens'[g] = new /\ Generations' = Generations
        /\ \A h \in Generations : h # g => gens'[h] = gens[h]
    BY <1>3, <2>3, <2>5, GenWritten
  <2>8. GenHolds(g, new)'
    BY <1>2, <1>4, <2>3, <2>6 DEF GenHolds
  <2>9. CallHolds(p, c)'
    BY <1>2, <1>4, <2>3, <2>4, <2>6, <2>7 DEF CallHolds, Creating, Validating, WithToken
  <2>10. ~Emitting
    BY <1>1, NobodyEmits
  <2>11. \A h \in Generations : gens[h].signal /\ ~gens[h].done => gens'[h].signal /\ ~gens'[h].done
    BY <2>3, <2>7
  <2>12. TokenHolds'
    BY <2>6, <2>7, <2>10, <2>11 DEF ClientInv, TokenHolds
  <2>13. lifecycle' \in {g, 0} /\ hooked' \in Nat
    BY <1>2, <1>3, <2>6
  <2> QED BY <1>1, <1>2, <2>3, <2>4, <2>5, <2>6, <2>8, <2>9, <2>12, <2>13, OwnerSteps
<1> QED BY <1>5, <1>6

\* The start is announced; the generation is nobody's from then on.
LEMMA AnnounceKeeps ==
    ASSUME ClientInv, NEW p \in Callers, AnnounceReady(p)
    PROVE  ClientInv'
<1>1. caller[p].at = "announce" /\ caller[p].at \in Creating
  BY DEF AnnounceReady, At, Creating
<1>2. PICK g : g = lifecycle
  OBVIOUS
<1>3. /\ g \in Generations /\ Mine(p) = g /\ gens[g] \in Gen /\ CallHolds(p, caller[p])
      /\ GenHolds(g, gens[g]) /\ ~gens[g].done
      /\ caller[p] \in Call /\ gens \in Seq(Gen) /\ hooked \in Nat /\ caller \in [Callers -> Call]
  BY <1>1, <1>2, CreatorOwns DEF ClientInv, ClientTypeOK
<1>4. PICK st \in {"starting", "running", "stopping"} :
         gens' = [gens EXCEPT ![g] = [gens[g] EXCEPT !.started = TRUE, !.state = st]]
  <2>1. gens[g].state \in {"starting", "running", "stopping"}
    BY <1>3 DEF Gen
  <2> QED BY <1>3, <2>1 DEF AnnounceReady
<1>5. PICK new : new = [gens[g] EXCEPT !.started = TRUE, !.state = st]
  OBVIOUS
<1>6. /\ new \in Gen /\ ~new.done /\ new.live = gens[g].live /\ (new.accept <=> gens[g].accept)
      /\ (new.signal <=> gens[g].signal) /\ (new.cancelled <=> gens[g].cancelled)
      /\ new.poll = gens[g].poll
  BY <1>3, <1>5 DEF Gen
<1>7. gens' = [gens EXCEPT ![g] = new]
  BY <1>4, <1>5
<1>8. IdleCall \in Call /\ IdleCall.at = "idle"
  BY DEF IdleCall, Call, Places, Creating, Validating
<1>9. /\ caller' = [caller EXCEPT ![p] = IdleCall]
      /\ UNCHANGED <<lifecycle, reset, secrets, token, hooked, late, auxiliary>>
  BY DEF AnnounceReady, MoveTo
<1>10. /\ gens'[g] = new /\ Generations' = Generations
       /\ \A h \in Generations : h # g => gens'[h] = gens[h]
  BY <1>3, <1>6, <1>7, GenWritten
<1>11. GenHolds(g, new)'
  <2>1. "activity" \notin gens[g].live => ~gens[g].accept
    BY <1>1, <1>2, <1>3 DEF CallHolds
  <2> QED BY <1>3, <1>6, <1>9, <2>1 DEF GenHolds
<1>12. CallHolds(p, IdleCall)'
  BY <1>8 DEF CallHolds, Creating, Validating, WithToken
<1>13. \A h \in Generations : /\ gens'[h].live = gens[h].live /\ gens'[h].poll = gens[h].poll
                              /\ (gens'[h].signal <=> gens[h].signal)
                              /\ (gens'[h].done <=> gens[h].done)
  BY <1>3, <1>6, <1>10
<1>14. Emitting => Emitting'
  BY <1>1, <1>3, <1>9, <1>10, <1>13 DEF Emitting, At, Runs
<1>15. TokenHolds'
  BY <1>9, <1>10, <1>13, <1>14 DEF ClientInv, TokenHolds
<1>16. lifecycle' \in {g, 0} /\ hooked' \in Nat
  BY <1>2, <1>3, <1>9
<1> QED BY <1>1, <1>2, <1>6, <1>7, <1>8, <1>9, <1>11, <1>12, <1>15, <1>16, OwnerSteps

\* A start that fails hands over what was signalled and is done at once.
LEMMA FailKeeps ==
    ASSUME ClientInv, NEW p \in Callers, FailStart(p)
    PROVE  ClientInv'
<1>1. caller[p].at = "fail" /\ caller[p].at \in Creating /\ caller[p].at \in Validating
  BY DEF FailStart, At, Creating, Validating
<1>2. PICK g : g = lifecycle
  OBVIOUS
<1>3. /\ g \in Generations /\ Mine(p) = g /\ gens[g] \in Gen /\ CallHolds(p, caller[p])
      /\ gens \in Seq(Gen) /\ hooked \in Nat /\ token \in Nat
  BY <1>1, <1>2, CreatorOwns DEF ClientInv, ClientTypeOK
<1>4. gens[g].live = {} /\ g # 0
  BY <1>1, <1>2, <1>3 DEF CallHolds
<1>5. PICK new : new = [FinishSessions(g) EXCEPT !.failed = TRUE, !.cancelled = TRUE,
                                    !.started = TRUE, !.state = "stopping", !.done = TRUE]
  OBVIOUS
<1>6. new \in Gen /\ new.done /\ new.live = {} /\ ~new.accept /\ ~new.signal /\ new.cancelled
  BY <1>3, <1>4, <1>5 DEF Gen, FinishSessions
<1>7. IdleCall \in Call /\ IdleCall.at = "idle"
  BY DEF IdleCall, Call, Places, Creating, Validating
<1>8. /\ gens' = [gens EXCEPT ![g] = new] /\ caller' = [caller EXCEPT ![p] = IdleCall]
      /\ UNCHANGED <<reset, secrets, token, late, auxiliary>> /\ lifecycle' = 0
      /\ hooked' = IF gens[g].signal THEN token ELSE hooked
  BY <1>2, <1>3, <1>5 DEF FailStart, MoveTo, HookAfterFinish
<1>9. /\ gens'[g] = new /\ Generations' = Generations
      /\ \A h \in Generations : h # g => gens'[h] = gens[h]
  BY <1>3, <1>6, <1>8, GenWritten
<1>10. GenHolds(g, new)' /\ CallHolds(p, IdleCall)'
  BY <1>4, <1>6, <1>7, <1>8 DEF GenHolds, CallHolds, Creating, Validating, WithToken
<1>11. ~Emitting
  BY <1>1, NobodyEmits
<1>12. TokenHolds'
  <2>1. CASE gens[g].signal
    BY <1>3, <1>8, <2>1 DEF TokenHolds
  <2>2. CASE ~gens[g].signal
    BY <1>8, <1>9, <1>11, <2>2 DEF ClientInv, TokenHolds
  <2> QED BY <2>1, <2>2
<1>13. lifecycle' \in {g, 0} /\ hooked' \in Nat
  BY <1>3, <1>8
<1> QED BY <1>1, <1>2, <1>6, <1>7, <1>8, <1>10, <1>12, <1>13, OwnerSteps

\* Disconnect cancels the current generation and remembers it.
LEMMA CancelCallKeeps ==
    ASSUME ClientInv, NEW p \in Callers, CancelGeneration(p)
    PROVE  ClientInv'
<1>0. /\ ClientTypeOK /\ gens \in Seq(Gen) /\ caller \in [Callers -> Call] /\ caller[p] \in Call
      /\ caller[p].at = "cancel" /\ lifecycle \in 0..Len(gens) /\ Len(gens) \in Nat
      /\ lifecycle \in Nat
  BY DEF ClientInv, ClientTypeOK, CancelGeneration, At
<1>1. UNCHANGED <<lifecycle, reset, secrets, token, hooked, late, auxiliary>>
  BY DEF CancelGeneration
<1>2. PICK c : c = [caller[p] EXCEPT !.at = "close", !.gen = lifecycle]
  OBVIOUS
<1>3. c \in Call /\ c.at = "close" /\ c.gen = lifecycle
  BY <1>0, <1>2 DEF Call, Places
<1>4. caller' = [caller EXCEPT ![p] = c]
  BY <1>2 DEF CancelGeneration, MoveFor
<1>5. caller'[p] = c /\ \A q \in Callers : q # p => caller'[q] = caller[q]
  BY <1>0, <1>4
<1>6. /\ gens' \in Seq(Gen) /\ Generations' = Generations /\ Len(gens') = Len(gens)
      /\ \A h \in Generations :
            /\ gens'[h].live = gens[h].live /\ gens'[h].poll = gens[h].poll
            /\ (gens'[h].accept <=> gens[h].accept) /\ (gens'[h].signal <=> gens[h].signal)
            /\ (gens'[h].done <=> gens[h].done) /\ (gens'[h].started <=> gens[h].started)
            /\ gens[h].cancelled => gens'[h].cancelled
  <2>1. CASE lifecycle = 0
    BY <1>0, <2>1 DEF CancelGeneration, Generations
  <2>2. CASE lifecycle # 0
    <3>1. PICK g \in Generations : g = lifecycle
      BY <1>0, <2>2 DEF Generations
    <3>2. gens[g] \in Gen
      BY <1>0 DEF Generations
    <3>3. PICK new : new = [gens[g] EXCEPT !.state = "stopping", !.cancelled = TRUE]
      OBVIOUS
    <3>4. /\ new \in Gen /\ new.live = gens[g].live /\ new.poll = gens[g].poll
          /\ (new.accept <=> gens[g].accept) /\ (new.signal <=> gens[g].signal)
          /\ (new.done <=> gens[g].done) /\ (new.started <=> gens[g].started) /\ new.cancelled
      BY <3>2, <3>3 DEF Gen
    <3>5. gens' = [gens EXCEPT ![g] = new]
      BY <2>2, <3>1, <3>3 DEF CancelGeneration
    <3>6. /\ gens' \in Seq(Gen) /\ Len(gens') = Len(gens) /\ Generations' = Generations
          /\ gens'[g] = new /\ \A h \in Generations : h # g => gens'[h] = gens[h]
      BY <1>0, <3>4, <3>5, GenWritten
    <3> QED BY <3>4, <3>6
  <2> QED BY <2>1, <2>2
<1>7. ClientTypeOK'
  BY <1>0, <1>1, <1>3, <1>4, <1>6, ClientConstants DEF ClientTypeOK
<1>8. ASSUME NEW h \in Generations' PROVE GenHolds(h, gens[h])'
  BY <1>1, <1>6 DEF ClientInv, GenHolds
<1>9. lifecycle = 0 \/ lifecycle \in Generations
  BY <1>0 DEF Generations
<1>10. ASSUME NEW q \in Callers PROVE CallHolds(q, caller[q])'
  <2>1. CASE q = p
    BY <1>1, <1>3, <1>5, <2>1 DEF CallHolds, Creating, Validating, WithToken
  <2>2. CASE q # p
    <3>1. CallHolds(q, caller[q]) /\ caller'[q] = caller[q]
      BY <1>5, <2>2 DEF ClientInv
    <3> QED BY <1>1, <1>6, <1>9, <3>1 DEF CallHolds, Creating
  <2> QED BY <2>1, <2>2
<1>11. OneCreates'
  BY <1>3, <1>5 DEF ClientInv, OneCreates, Creating, Validating
<1>12. Emitting => Emitting'
  BY <1>0, <1>5, <1>6 DEF Emitting, At, Runs
<1>13. TokenHolds'
  BY <1>1, <1>6, <1>12 DEF ClientInv, TokenHolds
<1> QED BY <1>7, <1>8, <1>10, <1>11, <1>13 DEF ClientInv

\* Closing the polls touches the calls and the auxiliary poll only.
LEMMA CloseKeeps ==
    ASSUME ClientInv, NEW p \in Callers, ClosePolling(p)
    PROVE  ClientInv'
<1>0. /\ ClientTypeOK /\ caller \in [Callers -> Call] /\ caller[p] \in Call
      /\ caller[p].at = "close" /\ auxiliary \in Auxiliary /\ CallHolds(p, caller[p])
  BY DEF ClientInv, ClientTypeOK, ClosePolling, At
<1>1. /\ UNCHANGED <<lifecycle, gens, reset, secrets, token, hooked, late>>
      /\ auxiliary' \in Auxiliary /\ auxiliary'.phase = auxiliary.phase
  BY <1>0 DEF ClosePolling, Auxiliary
<1>2. PICK c : c = [caller[p] EXCEPT !.at = "joinAll", !.aux = auxiliary.on]
  OBVIOUS
<1>3. c \in Call /\ c.at = "joinAll" /\ c.gen = caller[p].gen
  BY <1>0, <1>2 DEF Call, Places, Auxiliary
<1>4. caller' = [caller EXCEPT ![p] = c]
  BY <1>2 DEF ClosePolling
<1>5. CallFits(p, c) /\ CallHolds(p, c)'
  BY <1>0, <1>1, <1>3 DEF CallFits, CallHolds, Creating, Validating, WithToken
<1>6. auxiliary'.phase # "gone" => caller'[AuxCaller].at = "idle"
  BY <1>0, <1>1, <1>4, ClientConstants DEF ClientTypeOK
<1> QED BY <1>1, <1>4, <1>5, <1>6, CallerMoves

\* The secrets go when no generation is left.
LEMMA ClearedKeeps ==
    ASSUME ClientInv, NEW p \in Callers, SecretsCleared(p)
    PROVE  ClientInv'
<1>0. /\ ClientTypeOK /\ caller \in [Callers -> Call] /\ gens \in Seq(Gen)
      /\ caller[p].at = "clear" /\ CallHolds(p, caller[p])
  BY DEF ClientInv, ClientTypeOK, SecretsCleared, At
<1>1. lifecycle = 0 /\ reset = p
  BY <1>0 DEF CallHolds
<1>2. /\ UNCHANGED <<lifecycle, gens, token, hooked, late, auxiliary>> /\ reset' = NoCaller
      /\ caller' = [caller EXCEPT ![p] = IdleCall] /\ secrets' = FALSE
  BY DEF SecretsCleared, MoveTo
<1>3. IdleCall \in Call /\ IdleCall.at = "idle"
  BY DEF IdleCall, Call, Places, Creating, Validating
<1>4. caller'[p] = IdleCall /\ \A q \in Callers : q # p => caller'[q] = caller[q]
  BY <1>0, <1>2
<1>5. ClientTypeOK'
  BY <1>0, <1>2, <1>3, ClientConstants DEF ClientTypeOK
<1>6. ASSUME NEW g \in Generations' PROVE GenHolds(g, gens[g])'
  <2>1. g \in Generations /\ g # 0 /\ gens'[g] = gens[g] /\ GenHolds(g, gens[g])
    BY <1>0, <1>2 DEF ClientInv, Generations
  <2>2. gens[g].live = {}
    BY <1>1, <2>1 DEF GenHolds
  <2> QED BY <1>2, <2>1, <2>2 DEF GenHolds
<1>7. \A q \in Callers : caller[q].at \notin Creating
  BY <1>1 DEF ClientInv, CallHolds
<1>8. ASSUME NEW q \in Callers PROVE CallHolds(q, caller[q])'
  <2>1. CASE q = p
    BY <1>3, <1>4, <2>1 DEF CallHolds, Creating, Validating, WithToken
  <2>2. CASE q # p
    <3>1. CallHolds(q, caller[q]) /\ caller'[q] = caller[q] /\ reset # q /\ reset' # q
      BY <1>1, <1>2, <1>4, <2>2, ClientConstants DEF ClientInv
    <3> QED BY <1>7, <3>1 DEF CallHolds, Creating, Validating, WithToken
  <2> QED BY <2>1, <2>2
<1>9. OneCreates'
  BY <1>3, <1>4, <1>7 DEF OneCreates, Creating, Validating
<1>10. Emitting => Emitting'
  BY <1>0, <1>2, <1>4 DEF Emitting, At, Runs, Generations
<1>11. TokenHolds'
  BY <1>2, <1>10 DEF ClientInv, TokenHolds, Generations
<1> QED BY <1>5, <1>6, <1>8, <1>9, <1>11 DEF ClientInv

\* The auxiliary poll of a pairing.
LEMMA AuxiliaryKeeps ==
    ASSUME ClientInv, StartAuxiliary \/ PairSucceeds \/ AuxiliaryStep
    PROVE  ClientInv'
<1>0. ClientTypeOK /\ caller \in [Callers -> Call] /\ auxiliary \in Auxiliary
  BY DEF ClientInv, ClientTypeOK
<1>1. CASE AuxiliaryDone
  <2>1. /\ auxiliary.phase = "closing" /\ auxiliary' \in Auxiliary /\ auxiliary'.phase = "gone"
        /\ UNCHANGED <<lifecycle, gens, secrets, token, hooked, late, reset>>
    BY <1>0, <1>1 DEF AuxiliaryDone, Auxiliary
  <2>2. AuxCaller \in Callers /\ caller[AuxCaller] \in Call /\ caller[AuxCaller].at = "idle"
    BY <1>0, <2>1, ClientConstants DEF ClientTypeOK
  <2>3. PICK c : c = IF auxiliary.reconnect /\ auxiliary.allow
                     THEN [caller[AuxCaller] EXCEPT !.at = "stopAux"] ELSE caller[AuxCaller]
    OBVIOUS
  <2>4. c \in Call /\ c.at \in {"idle", "stopAux"}
    BY <2>2, <2>3 DEF Call, Places
  <2>5. caller' = [caller EXCEPT ![AuxCaller] = c]
    BY <1>0, <1>1, <2>2, <2>3 DEF AuxiliaryDone, MoveTo
  <2>6. CallFits(AuxCaller, c) /\ CallHolds(AuxCaller, c)'
    BY <2>2, <2>4 DEF CallFits, CallHolds, Creating, Validating, WithToken
  <2> QED BY <2>1, <2>2, <2>5, <2>6, CallerMoves
<1>2. CASE StartAuxiliary \/ PairSucceeds \/ ReconnectTimer \/ AuxiliaryStops
  <2>1. /\ UNCHANGED <<lifecycle, gens, caller, reset, token, hooked, late>>
        /\ secrets => secrets'
        /\ secrets' \in BOOLEAN
    BY <1>0, <1>2 DEF StartAuxiliary, PairSucceeds, ReconnectTimer, AuxiliaryStops, ClientTypeOK
  <2>2. auxiliary' \in Auxiliary
    <3>1. CASE StartAuxiliary
      BY <3>1 DEF StartAuxiliary, Auxiliary
    <3>2. CASE PairSucceeds
      BY <1>0, <3>2 DEF PairSucceeds, Auxiliary
    <3>3. CASE ReconnectTimer
      BY <1>0, <3>3 DEF ReconnectTimer, Auxiliary
    <3>4. CASE AuxiliaryStops
      BY <1>0, <3>4 DEF AuxiliaryStops, Auxiliary
    <3> QED BY <1>2, <3>1, <3>2, <3>3, <3>4
  <2>3. auxiliary.phase # "gone"
    BY <1>2 DEF StartAuxiliary, PairSucceeds, ReconnectTimer, AuxiliaryStops
  <2>4. ClientTypeOK'
    BY <1>0, <2>1, <2>2, <2>3 DEF ClientTypeOK
  <2>5. ASSUME NEW g \in Generations' PROVE GenHolds(g, gens[g])'
    BY <2>1 DEF ClientInv, GenHolds, Generations
  <2>6. ASSUME NEW q \in Callers PROVE CallHolds(q, caller[q])'
    BY <2>1 DEF ClientInv, CallHolds
  <2>7. OneCreates'
    BY <2>1 DEF ClientInv, OneCreates
  <2>8. TokenHolds'
    BY <2>1 DEF ClientInv, TokenHolds, Emitting, At, Runs, Generations
  <2> QED BY <2>4, <2>5, <2>6, <2>7, <2>8 DEF ClientInv
<1> QED BY <1>1, <1>2 DEF AuxiliaryStep

\* What a generation's step keeps of the tokens that wait for the hook.
LEMMA TokenKept ==
    ASSUME ClientInv, NEW g \in Generations, NEW new \in Gen, gens' = [gens EXCEPT ![g] = new],
           UNCHANGED <<caller, token, hooked, late>>,
           gens[g].signal => new.signal, new.done <=> gens[g].done,
           Runs(g, "poll") /\ gens[g].poll = "emit" => "poll" \in new.live /\ new.poll = "emit"
    PROVE  TokenHolds'
<1>1. gens \in Seq(Gen)
  BY DEF ClientInv, ClientTypeOK
<1>2. /\ Generations' = Generations /\ gens'[g] = new
      /\ \A h \in Generations : h # g => gens'[h] = gens[h]
  BY <1>1, GenWritten
<1>3. Emitting => Emitting'
  <2>1. ASSUME NEW q \in Callers, At(q, "emit") PROVE At(q, "emit")'
    BY <2>1 DEF At
  <2>2. ASSUME NEW h \in Generations, Runs(h, "poll"), gens[h].poll = "emit"
        PROVE  Runs(h, "poll")' /\ gens'[h].poll = "emit"
    BY <1>2, <2>2 DEF Runs
  <2> QED BY <1>2, <2>1, <2>2 DEF Emitting
<1> QED BY <1>2, <1>3 DEF ClientInv, TokenHolds

\* The steps of a generation's goroutines, and of its context, that keep the tokens.
LEMMA WorkerSteps ==
    ASSUME ClientInv, NEW g \in Generations,
           \/ PollStarts(g) \/ PollRefreshes(g) \/ PollOpens(g) \/ PollEnds(g) \/ HelpersEnd(g)
           \/ StartPresence(g) \/ PresenceEnds(g) \/ ContextEnds(g)
           \/ PollRefreshed(g) /\ token' = token
    PROVE  ClientInv'
<1>0. /\ gens[g] \in Gen /\ GenHolds(g, gens[g]) /\ token \in Nat /\ hooked \in Nat
  BY DEF ClientInv, ClientTypeOK, Generations
<1>1. UNCHANGED <<lifecycle, caller, reset, secrets, token, hooked, late, auxiliary>>
  BY DEF PollStarts, PollRefreshes, PollOpens, PollEnds, HelpersEnd, StartPresence,
     PresenceEnds, ContextEnds, PollRefreshed
<1> DEFINE Fine(new) ==
             /\ GenFits(g, new) /\ gens' = [gens EXCEPT ![g] = new] /\ new \in Gen
             /\ gens[g].signal => new.signal
             /\ new.done <=> gens[g].done
             /\ Runs(g, "poll") /\ gens[g].poll = "emit" => "poll" \in new.live /\ new.poll = "emit"
<1>2. ASSUME NEW new, Fine(new) PROVE ClientInv'
  <2>1. TokenHolds'
    BY <1>1, <1>2, TokenKept
  <2> QED BY <1>0, <1>1, <1>2, <2>1, GenMoves
<1>3. ASSUME NEW w \in {"loop", "refresh", "open"}, gens' = [gens EXCEPT ![g].poll = w],
             gens[g].poll # "emit"
      PROVE  ClientInv'
  <2>1. Fine([gens[g] EXCEPT !.poll = w])
    BY <1>0, <1>3 DEF GenFits, GenHolds, Gen
  <2> QED BY <1>2, <2>1
<1>4. CASE PollStarts(g) \/ PollRefreshes(g) \/ PollOpens(g)
  BY <1>3, <1>4 DEF PollStarts, PollRefreshes, PollOpens
<1>5. CASE PollRefreshed(g) /\ token' = token
  <2>1. gens' = [gens EXCEPT ![g].poll = "open"]
    BY <1>0, <1>5 DEF PollRefreshed
  <2> QED BY <1>3, <1>5, <2>1 DEF PollRefreshed
<1>6. CASE PollEnds(g)
  <2>1. PICK st \in {"starting", "running", "stopping"} :
           gens' = [gens EXCEPT ![g] = [gens[g] EXCEPT !.live = @ \ {"poll"}, !.cancelled = TRUE,
                                                       !.state = st]]
    <3>1. gens[g].state \in {"starting", "running", "stopping"}
      BY <1>0 DEF Gen
    <3> QED BY <1>6, <3>1 DEF PollEnds
  <2>2. Fine([gens[g] EXCEPT !.live = @ \ {"poll"}, !.cancelled = TRUE, !.state = st])
    BY <1>0, <1>6, <2>1 DEF PollEnds, GenFits, GenHolds, Gen
  <2> QED BY <1>2, <2>2
<1>7. CASE HelpersEnd(g)
  <2>1. Fine([gens[g] EXCEPT !.live = @ \ {"helpers"}])
    BY <1>0, <1>7 DEF HelpersEnd, Exits, Runs, GenFits, GenHolds, Gen
  <2> QED BY <1>2, <2>1
<1>8. CASE StartPresence(g)
  <2>1. Fine([gens[g] EXCEPT !.live = @ \cup {"presence"}])
    BY <1>0, <1>8 DEF StartPresence, Runs, GenFits, GenHolds, Gen, Goroutines
  <2> QED BY <1>2, <2>1
<1>9. CASE PresenceEnds(g)
  <2>1. Fine([gens[g] EXCEPT !.live = @ \ {"presence"}])
    BY <1>0, <1>9 DEF PresenceEnds, Exits, Runs, GenFits, GenHolds, Gen
  <2> QED BY <1>2, <2>1
<1>10. CASE ContextEnds(g)
  <2>1. Fine([gens[g] EXCEPT !.cancelled = TRUE])
    BY <1>0, <1>10 DEF ContextEnds, Runs, GenFits, GenHolds, Gen
  <2> QED BY <1>2, <2>1
<1> HIDE DEF Fine
<1> QED BY <1>4, <1>5, <1>6, <1>7, <1>8, <1>9, <1>10

\* A token the poll's refresh brings is announced, signalled, and read by the hook;
\* the activity loop reads the last signal when it ends.
LEMMA TokenSteps ==
    ASSUME ClientInv, NEW g \in Generations,
           \/ (PollRefreshed(g) /\ token' # token)
           \/ PollEmits(g) \/ SessionHook(g) \/ ActivityEnds(g)
    PROVE  ClientInv'
<1>0. /\ gens[g] \in Gen /\ GenHolds(g, gens[g]) /\ token \in Nat /\ hooked \in Nat
      /\ gens \in Seq(Gen) /\ g # 0
  BY DEF ClientInv, ClientTypeOK, Generations
<1>1. UNCHANGED <<lifecycle, caller, reset, secrets, auxiliary>>
  BY DEF PollRefreshed, PollEmits, SessionHook, ActivityEnds
<1>2. CASE PollRefreshed(g) /\ token' # token
  <2>1. PICK new : new = [gens[g] EXCEPT !.poll = "emit"]
    OBVIOUS
  <2>2. gens' = [gens EXCEPT ![g] = new] /\ token' = token + 1 /\ hooked' = hooked
    BY <1>2, <2>1 DEF PollRefreshed
  <2>3. GenFits(g, new) /\ new \in Gen /\ new.poll = "emit" /\ "poll" \in new.live
    BY <1>0, <1>2, <2>1 DEF PollRefreshed, Runs, GenFits, GenHolds, Gen
  <2>4. gens'[g] = new /\ Generations' = Generations
    BY <1>0, <2>2, <2>3, GenWritten
  <2>5. TokenHolds'
    BY <2>3, <2>4 DEF TokenHolds, Emitting, Runs
  <2>6. token' \in Nat /\ hooked' \in Nat
    BY <1>0, <2>2
  <2>7. gens' = [gens EXCEPT ![g] = new]
    BY <2>2
  <2> QED BY <1>1, <2>3, <2>5, <2>6, <2>7, GenMoves
<1>3. CASE PollEmits(g)
  <2>1. lifecycle = g /\ ~gens[g].done /\ "poll" \in gens[g].live
    BY <1>0, <1>3 DEF PollEmits, Runs, GenHolds
  <2>2. CASE gens[g].accept
    <3>1. PICK new : new = [gens[g] EXCEPT !.signal = TRUE, !.poll = "open"]
      OBVIOUS
    <3>2. gens' = [gens EXCEPT ![g] = new] /\ token' = token /\ hooked' = hooked
      BY <1>0, <1>3, <2>1, <2>2, <3>1 DEF PollEmits, SignalSessionChange, Accepting
    <3>3. GenFits(g, new) /\ new \in Gen /\ new.signal /\ ~new.done
      BY <1>0, <2>1, <2>2, <3>1 DEF GenFits, GenHolds, Gen
    <3>4. gens'[g] = new /\ Generations' = Generations
      BY <1>0, <3>2, <3>3, GenWritten
    <3>5. TokenHolds'
      BY <3>3, <3>4 DEF TokenHolds
    <3> QED BY <1>0, <1>1, <3>2, <3>3, <3>5, GenMoves
  <2>3. CASE ~gens[g].accept
    <3>1. PICK new : new = [gens[g] EXCEPT !.poll = "open"]
      OBVIOUS
    <3>2. gens[g].cancelled
      BY <1>0, <2>3 DEF GenHolds
    <3>3. /\ gens' = [gens EXCEPT ![g] = new] /\ token' = token /\ hooked' = hooked
          /\ late' = token
      BY <1>3, <2>1, <2>3, <3>1, <3>2 DEF PollEmits, SignalSessionChange, Accepting
    <3>4. GenFits(g, new) /\ new \in Gen
      BY <1>0, <3>1 DEF GenFits, GenHolds, Gen
    <3>5. TokenHolds'
      BY <3>3 DEF TokenHolds
    <3> QED BY <1>0, <1>1, <3>3, <3>4, <3>5, GenMoves
  <2> QED BY <2>2, <2>3
<1>4. CASE SessionHook(g)
  <2>1. PICK new : new = [gens[g] EXCEPT !.signal = FALSE]
    OBVIOUS
  <2>2. gens' = [gens EXCEPT ![g] = new] /\ token' = token /\ hooked' = token
    BY <1>4, <2>1 DEF SessionHook
  <2>3. GenFits(g, new)
    BY <1>0, <2>1 DEF GenFits, GenHolds, Gen
  <2>4. TokenHolds'
    BY <1>0, <2>2 DEF TokenHolds
  <2> QED BY <1>0, <1>1, <2>2, <2>3, <2>4, GenMoves
<1>5. CASE ActivityEnds(g)
  <2>1. PICK new : new = [FinishSessions(g) EXCEPT !.live = @ \ {"activity"}]
    OBVIOUS
  <2>2. /\ gens' = [gens EXCEPT ![g] = new] /\ token' = token /\ late' = late
        /\ hooked' = IF gens[g].signal THEN token ELSE hooked
        /\ gens[g].cancelled /\ "activity" \in gens[g].live
    BY <1>5, <2>1 DEF ActivityEnds, HookAfterFinish, Runs
  <2>3. /\ GenFits(g, new) /\ new \in Gen /\ new.poll = gens[g].poll
        /\ new.live = gens[g].live \ {"activity"} /\ ~new.signal
        /\ (new.done <=> gens[g].done)
    BY <1>0, <2>1, <2>2 DEF FinishSessions, GenFits, GenHolds, Gen
  <2>4. TokenHolds'
    <3>1. CASE gens[g].signal
      BY <1>0, <2>2, <3>1 DEF TokenHolds
    <3>2. CASE ~gens[g].signal
      BY <1>1, <2>2, <2>3, <3>2, TokenKept DEF Runs
    <3> QED BY <3>1, <3>2
  <2>5. hooked' \in Nat
    BY <1>0, <2>2
  <2> QED BY <1>0, <1>1, <2>2, <2>3, <2>4, <2>5, GenMoves
<1> QED BY <1>2, <1>3, <1>4, <1>5

\* A generation is done when its goroutines are gone, the last signal with them.
LEMMA DoneKeeps ==
    ASSUME ClientInv, NEW g \in Generations, GenerationDone(g)
    PROVE  ClientInv'
<1>0. /\ ClientTypeOK /\ gens[g] \in Gen /\ GenHolds(g, gens[g]) /\ gens \in Seq(Gen) /\ g # 0
      /\ Len(gens) \in Nat
  BY DEF ClientInv, ClientTypeOK, Generations
<1>1. /\ lifecycle = g /\ gens[g].started /\ ~gens[g].done /\ gens[g].live = {}
      /\ ~gens[g].signal
  BY <1>0 DEF GenerationDone, GenHolds
<1>2. PICK new : new = [gens[g] EXCEPT !.state = "stopping", !.done = TRUE, !.poll = "new"]
  OBVIOUS
<1>3. /\ gens' = [gens EXCEPT ![g] = new] /\ lifecycle' = 0
      /\ UNCHANGED <<caller, reset, secrets, token, hooked, late, auxiliary>>
  BY <1>1, <1>2 DEF GenerationDone
<1>4. /\ new \in Gen /\ new.done /\ new.live = {} /\ (new.accept <=> gens[g].accept)
      /\ (new.signal <=> gens[g].signal) /\ (new.cancelled <=> gens[g].cancelled)
      /\ (new.started <=> gens[g].started)
  BY <1>0, <1>1, <1>2 DEF Gen
<1>5. /\ gens' \in Seq(Gen) /\ Len(gens') = Len(gens) /\ Generations' = Generations
      /\ gens'[g] = new /\ \A h \in Generations : h # g => gens'[h] = gens[h]
  BY <1>0, <1>3, <1>4, GenWritten
<1>6. ClientTypeOK'
  BY <1>0, <1>3, <1>5 DEF ClientTypeOK
<1>7. ASSUME NEW h \in Generations' PROVE GenHolds(h, gens[h])'
  <2>1. CASE h = g
    <3>1. GenHolds(g, new)'
      BY <1>0, <1>1, <1>3, <1>4 DEF GenHolds
    <3> QED BY <1>5, <2>1, <3>1
  <2>2. CASE h # g
    <3>1. gens'[h] = gens[h] /\ GenHolds(h, gens[h]) /\ h # 0
      BY <1>0, <1>5, <2>2 DEF ClientInv, Generations
    <3> QED BY <1>1, <1>3, <2>2, <3>1 DEF GenHolds
  <2> QED BY <2>1, <2>2
<1>8. ASSUME NEW q \in Callers PROVE CallHolds(q, caller[q])'
  <2>1. CallHolds(q, caller[q]) /\ caller'[q] = caller[q]
    BY <1>3 DEF ClientInv
  <2>2. caller[q].at \notin Creating
    BY <1>1, <2>1 DEF CallHolds
  <2> QED BY <1>3, <2>1, <2>2 DEF CallHolds, Creating, Validating, WithToken
<1>9. OneCreates'
  BY <1>3 DEF ClientInv, OneCreates
<1>10. Emitting => Emitting'
  BY <1>1, <1>3, <1>5 DEF Emitting, At, Runs
<1>11. TokenHolds'
  BY <1>1, <1>3, <1>5, <1>10 DEF ClientInv, TokenHolds
<1> QED BY <1>6, <1>7, <1>8, <1>9, <1>11 DEF ClientInv

\* Every step of the client keeps the invariant.
LEMMA ClientNextKeeps ==
    ASSUME ClientInv, [ClientNext]_lifecycleVars
    PROVE  ClientInv'
<1>1. ASSUME NEW p \in Callers,
             \/ Connect(p) \/ Disconnect(p) \/ ClearSessionSecrets(p)
             \/ ConnectStep(p) \/ DisconnectStep(p) \/ WaitAborted(p)
      PROVE  ClientInv'
  <2>1. CASE ConnectStep(p)
    BY <2>1, WaitingSteps, ChooseKeeps, RefreshKeeps, EmitRefreshedKeeps, LaunchKeeps,
       AnnounceKeeps, FailKeeps DEF ConnectStep
  <2>2. CASE DisconnectStep(p)
    BY <2>2, WaitingSteps, CancelCallKeeps, CloseKeeps, ClearedKeeps DEF DisconnectStep
  <2> QED BY <1>1, <2>1, <2>2, WaitingSteps
<1>2. ASSUME NEW g \in Generations,
             \/ WorkerStep(g) \/ PollRefreshes(g) \/ PollOpens(g)
             \/ StartPresence(g) \/ ContextEnds(g)
      PROVE  ClientInv'
  <2>1. CASE WorkerStep(g)
    BY <2>1, WorkerSteps, TokenSteps, DoneKeeps DEF WorkerStep
  <2> QED BY <1>2, <2>1, WorkerSteps
<1>3. CASE UNCHANGED lifecycleVars
  <2>1. UNCHANGED <<lifecycle, gens, caller, reset, secrets, token, hooked, late, auxiliary>>
    BY <1>3 DEF lifecycleVars
  <2>2. ClientTypeOK'
    BY <2>1 DEF ClientInv, ClientTypeOK
  <2>3. (\A g \in Generations : GenHolds(g, gens[g]))' /\ (\A p \in Callers : CallHolds(p, caller[p]))'
    BY <2>1 DEF ClientInv, GenHolds, CallHolds, Generations
  <2>4. OneCreates' /\ TokenHolds'
    BY <2>1 DEF ClientInv, OneCreates, TokenHolds, Emitting, At, Runs, Generations
  <2> QED BY <2>2, <2>3, <2>4 DEF ClientInv
<1> QED BY <1>1, <1>2, <1>3, AuxiliaryKeeps DEF ClientNext

\* A generation at work is the current one, and has the session's secrets.
LEMMA ClientInvOwns == ClientInv => WorkersOwnSession
<1> SUFFICES ASSUME ClientInv PROVE WorkersOwnSession
  OBVIOUS
<1>1. ASSUME NEW g \in Generations, Working(g) PROVE g = lifecycle /\ secrets
  <2>1. CASE gens[g].live # {}
    BY <2>1 DEF ClientInv, GenHolds
  <2>2. CASE Starting(g)
    <3>1. PICK p \in Callers : Mine(p) = g /\ caller[p].at \in WithToken
      BY <2>2 DEF Starting, WithToken
    <3>2. CallHolds(p, caller[p]) /\ caller[p].at \in Creating
      BY <3>1 DEF ClientInv, WithToken, Creating, Validating
    <3> QED BY <3>1, <3>2 DEF CallHolds, Mine
  <2> QED BY <1>1, <2>1, <2>2 DEF Working
<1>2. TokenHolds
  BY DEF ClientInv
<1> QED BY <1>1, <1>2 DEF WorkersOwnSession, TokenHolds

\* The client's lifecycle, for every number of callers, generations, calls and tokens:
\* however Connect, Disconnect, ClearSessionSecrets and the reconnect of a pairing
\* interleave, one generation works at a time, none without the session's secrets, and
\* no refreshed token is lost on its way to the hook except after a cancel.
THEOREM ClientWorkersOwnSession == ClientSpec => []WorkersOwnSession
<1>1. ClientInit => ClientInv
  <2> SUFFICES ASSUME ClientInit PROVE ClientInv
    OBVIOUS
  <2>1. IdleCall \in Call /\ IdleCall.at = "idle"
    BY DEF IdleCall, Call, Places, Creating, Validating
  <2>2. gens \in Seq(Gen) /\ Len(gens) = 0 /\ Generations = {}
    BY DEF ClientInit, Generations
  <2>3. auxiliary \in Auxiliary
    BY DEF ClientInit, Auxiliary
  <2>4. ClientTypeOK
    BY <2>1, <2>2, <2>3, ClientConstants DEF ClientInit, ClientTypeOK
  <2>5. \A p \in Callers : caller[p].at = "idle"
    BY <2>1 DEF ClientInit
  <2>6. (\A p \in Callers : CallHolds(p, caller[p])) /\ OneCreates
    BY <2>5 DEF CallHolds, OneCreates, Creating, Validating, WithToken
  <2>7. TokenHolds
    BY DEF ClientInit, TokenHolds
  <2> QED BY <2>2, <2>4, <2>6, <2>7 DEF ClientInv
<1>2. ClientInv /\ [ClientNext]_lifecycleVars => ClientInv'
  BY ClientNextKeeps
<1> QED BY <1>1, <1>2, ClientInvOwns, PTL DEF ClientSpec
=============================================================================
