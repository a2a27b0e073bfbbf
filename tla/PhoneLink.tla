----------------------------- MODULE PhoneLink -----------------------------
(***************************************************************************)
(* Requests to the phone and the pinger that watches it (pkg/libgm:        *)
(* session_handler.go, longpoll.go), with the bridge's view of the phone   *)
(* (pkg/connector: client.go, handlegmessages.go).                         *)
(*                                                                         *)
(* A request registers a channel of one place under its id and posts       *)
(* itself; the reader of the long poll takes the channel out of the map    *)
(* under a lock and sends the answer after releasing it; timeouts,         *)
(* cancelled contexts and Disconnect close channels that are still in the  *)
(* map.  A pinger lives as long as one long poll and posts pings the same  *)
(* way.  Timers may fire at any time; a ping that is skipped because the   *)
(* last one is too recent changes nothing.                                 *)
(***************************************************************************)
EXTENDS Naturals, FiniteSets

CONSTANTS
    Requests,            \* requests of the client's callers, one at a time per id
    Pings,               \* ids of pings, used again once nobody knows them
    NoId,
    AlertTimeoutCount,   \* waits of a ping before a slow one raises the alert
    MaxOutages           \* bound: times the phone stops answering

ASSUME PhoneLinkAssumption ==
    /\ Requests \cap Pings = {} /\ NoId \notin Requests \cup Pings
    /\ AlertTimeoutCount \in Nat /\ MaxOutages \in Nat

VARIABLES
    waiters,      \* responseWaiters: ids whose channel is in the map
    channel,      \* "none", "open", "full" or "closed"
    posted,       \* ids the phone may still answer
    call,         \* where a call of sendMessageWithParams is
    claimed,      \* the answer the reader has taken out of the map
    wait,         \* WaitForResponse of a ping
    pinger,       \* the pinger of the current long poll
    poll,         \* the long poll: "down", "up", "closing", "ended" by itself
    disconnect,   \* where the bridge's Disconnect is
    responding,   \* PhoneResponding of the bridge
    phone,        \* the phone answers
    outages

linkVars == <<waiters, channel, posted, call, claimed, wait, pinger, poll,
              disconnect, responding, phone, outages>>

Ids == Requests \cup Pings

NoWait == [at |-> "none", short |-> FALSE, count |-> 0, reset |-> FALSE]

\* A pinger starts without a ping in its loop and with nothing sent.
NewPinger == [on |-> TRUE, main |-> NoId, first |-> FALSE, failing |-> FALSE, alerted |-> FALSE]

LinkInit ==
    /\ waiters = {} /\ posted = {} /\ claimed = NoId
    /\ channel = [i \in Ids |-> "none"]
    /\ call = [r \in Requests |-> "idle"]
    /\ wait = [p \in Pings |-> NoWait]
    /\ pinger = [NewPinger EXCEPT !.on = FALSE]
    /\ poll = "down" /\ disconnect = "no"
    /\ responding = TRUE /\ phone = TRUE /\ outages = 0

-----------------------------------------------------------------------------
(* Requests. *)

\* waitResponse: a fresh id, its channel, and the request on its way.
Register(i) ==
    /\ channel' = [channel EXCEPT ![i] = "open"]
    /\ waiters' = waiters \cup {i}
    /\ posted' = posted \cup {i}

\* Mutant: the channel is closed although the reader has claimed it.
CancelUnchecked(i) ==
    /\ waiters' = waiters \ {i}
    /\ channel' = [channel EXCEPT ![i] = "closed"]

\* Only a channel that is still in the map is closed.
CancelResponse(i) ==
    /\ waiters' = waiters \ {i}
    /\ channel' = [channel EXCEPT ![i] = IF i \in waiters THEN "closed" ELSE @]

SendRequest(r) ==
    /\ call[r] = "idle"
    /\ claimed # r /\ r \notin posted
    /\ Register(r)
    /\ call' = [call EXCEPT ![r] = "posting"]
    /\ UNCHANGED <<claimed, wait, pinger, poll, disconnect, responding, phone, outages>>

\* The POST may fail although the phone has the request.
PostReturns(r, failed) ==
    /\ call[r] = "posting"
    /\ IF failed
       THEN CancelResponse(r) /\ call' = [call EXCEPT ![r] = "idle"]
       ELSE call' = [call EXCEPT ![r] = "waiting"] /\ UNCHANGED <<waiters, channel>>
    /\ UNCHANGED <<posted, claimed, wait, pinger, poll, disconnect, responding, phone, outages>>

\* The channel has an answer, or is closed (ErrConnectionClosed).
ReadResponse(r) ==
    /\ call[r] \in {"waiting", "slow"}
    /\ channel[r] \in {"full", "closed"}
    /\ channel' = [channel EXCEPT ![r] = "none"]
    /\ call' = [call EXCEPT ![r] = "idle"]
    /\ UNCHANGED <<waiters, posted, claimed, wait, pinger, poll, disconnect, responding,
                   phone, outages>>

\* The caller's context ends, or the hard timeout passes (ErrPhoneNotResponding).
GiveUp(r) ==
    /\ call[r] \in {"waiting", "slow"}
    /\ CancelResponse(r)
    /\ call' = [call EXCEPT ![r] = "idle"]
    /\ UNCHANGED <<posted, claimed, wait, pinger, poll, disconnect, responding, phone, outages>>

-----------------------------------------------------------------------------
(* The reader of the long poll. *)

\* The answer is claimed for its waiter, as a response, a durable failure or a
\* quarantined envelope; without a waiter it is handled as an update.
Answer(i) ==
    /\ poll = "up" /\ claimed = NoId
    /\ phone /\ i \in posted
    /\ posted' = posted \ {i}
    /\ claimed' = IF i \in waiters THEN i ELSE NoId
    /\ waiters' = waiters \ {i}
    /\ UNCHANGED <<channel, call, wait, pinger, poll, disconnect, responding, phone, outages>>

Deliver ==
    /\ claimed # NoId
    /\ channel' = [channel EXCEPT ![claimed] = "full"]
    /\ claimed' = NoId
    /\ UNCHANGED <<waiters, posted, call, wait, pinger, poll, disconnect, responding, phone,
                   outages>>

-----------------------------------------------------------------------------
(* The pinger. *)

Waiting == {p \in Pings : wait[p].at # "none"}

Stopping == pinger.on /\ poll # "up"

\* An id nobody knows: a stand-in for a new one.
Fresh(p) == p \notin waiters \cup posted \cup Waiting /\ claimed # p

\* timeoutCount++, which matters up to the count that raises the alert.
Later(n) == IF n < AlertTimeoutCount THEN n + 1 ELSE n

\* NotifyDittoActivity has posted a ping that now waits for its answer; the ping
\* that sent it from its backoff goes round its loop.
PingSent(p, w, main) ==
    /\ Fresh(p) /\ Register(p)
    /\ wait' = [q \in Pings |-> IF q = p THEN w
                                ELSE IF q = main THEN [wait[q] EXCEPT !.count = Later(@)]
                                ELSE wait[q]]
    /\ pinger' = [pinger EXCEPT !.main = main]

\* NotifyDittoActivity fails; its waiter is gone again.
PingFails ==
    /\ pinger.on
    /\ pinger.main \in {NoId} \cup {p \in Pings : wait[p].at = "backoff"}
    /\ pinger' = [pinger EXCEPT !.failing = TRUE]
    /\ wait' = [q \in Pings |-> IF q = pinger.main THEN [wait[q] EXCEPT !.count = Later(@)]
                                ELSE wait[q]]
    /\ UNCHANGED <<waiters, channel, posted, call, claimed, poll, disconnect,
                   responding, phone, outages>>

\* The loop pings after its interval.
LoopPing(p) ==
    /\ pinger.on /\ pinger.main = NoId
    /\ PingSent(p, [NoWait EXCEPT !.at = "first"], p)
    /\ UNCHANGED <<call, claimed, poll, disconnect, responding, phone, outages>>

\* A request is slow: a loop between pings sends one with the short timeout...
ShortCircuitPing(r, p) ==
    /\ call[r] = "waiting" /\ call' = [call EXCEPT ![r] = "slow"]
    /\ pinger.on /\ pinger.main = NoId
    /\ PingSent(p, [NoWait EXCEPT !.at = "first", !.short = TRUE], p)
    /\ UNCHANGED <<claimed, poll, disconnect, responding, phone, outages>>

\* ...a ping in its backoff raises the alert at once...
ShortCircuitAlert(r, p) ==
    /\ call[r] = "waiting" /\ call' = [call EXCEPT ![r] = "slow"]
    /\ wait[p].at = "backoff"
    /\ pinger' = [pinger EXCEPT !.alerted = TRUE]
    /\ responding' = (responding /\ pinger.alerted)
    /\ wait' = [wait EXCEPT ![p].count = Later(@)]
    /\ UNCHANGED <<waiters, channel, posted, claimed, poll, disconnect, phone, outages>>

\* ...and otherwise nobody listens and the poke is lost.
ShortCircuitLost(r) ==
    /\ call[r] = "waiting" /\ call' = [call EXCEPT ![r] = "slow"]
    /\ ~pinger.on \/ (pinger.main # NoId /\ \A p \in Pings : wait[p].at # "backoff")
    /\ UNCHANGED <<waiters, channel, posted, claimed, wait, pinger, poll, disconnect,
                   responding, phone, outages>>

\* OnTimeout of a ping.
Alarming(p) ==
    /\ ~pinger.first \/ wait[p].short \/ wait[p].count >= AlertTimeoutCount
    /\ ~pinger.alerted

PingTimesOut(p) ==
    /\ wait[p].at = "first"
    /\ pinger' = [pinger EXCEPT !.alerted = @ \/ Alarming(p)]
    /\ responding' = (responding /\ ~Alarming(p))
    /\ wait' = [wait EXCEPT ![p].at = "backoff", ![p].count = Later(@)]
    /\ UNCHANGED <<waiters, channel, posted, call, claimed, poll, disconnect, phone, outages>>

\* The ping of the loop sends further ones while it backs off; their waits
\* are workers of the pinger and share its resetter.
Reping(p) ==
    /\ pinger.on /\ pinger.main # NoId
    /\ LET m == pinger.main
       IN  /\ wait[m].at = "backoff"
           /\ PingSent(p, [NoWait EXCEPT !.at = "first", !.count = wait[m].count,
                                         !.reset = wait[m].reset], m)
    /\ UNCHANGED <<call, claimed, poll, disconnect, responding, phone, outages>>

WaitEnds(p) == pinger' = [pinger EXCEPT !.main = IF @ = p THEN NoId ELSE @]

\* OnRespond: an answer, or the channel closed under the ping, which reads the same.
PingAnswered(p) ==
    /\ wait[p].at # "none"
    /\ channel[p] \in {"full", "closed"}
    /\ responding' = (responding \/ pinger.alerted \/ pinger.failing)
    /\ pinger' = [pinger EXCEPT !.alerted = FALSE, !.failing = FALSE, !.first = TRUE,
                                !.main = IF @ = p THEN NoId ELSE @]
    /\ channel' = [channel EXCEPT ![p] = "none"]
    /\ wait' = [q \in Pings |->
          IF q = p \/ wait[q].at = "none" THEN NoWait ELSE [wait[q] EXCEPT !.reset = TRUE]]
    /\ UNCHANGED <<waiters, posted, call, claimed, poll, disconnect, phone, outages>>

\* Another ping was answered, or the long poll ends.  The waiter stays in the map.
PingAbandoned(p) ==
    /\ wait[p].at # "none"
    /\ wait[p].reset \/ Stopping
    /\ wait' = [wait EXCEPT ![p] = NoWait]
    /\ WaitEnds(p)
    /\ UNCHANGED <<waiters, channel, posted, call, claimed, poll, disconnect, responding,
                   phone, outages>>

\* Loop returns after its workers, and the long poll after it.
LinkPollEnds ==
    /\ poll = "closing" /\ Waiting = {} /\ claimed = NoId
    /\ poll' = IF disconnect = "joining" THEN "down" ELSE "ended"
    /\ pinger' = [pinger EXCEPT !.on = FALSE]
    /\ UNCHANGED <<waiters, channel, posted, call, claimed, wait, disconnect, responding,
                   phone, outages>>

-----------------------------------------------------------------------------
(* The bridge connects and disconnects its client. *)

LinkConnect ==
    /\ poll = "down" /\ disconnect \notin {"resetting", "joining"}
    /\ poll' = "up"
    /\ pinger' = NewPinger
    /\ UNCHANGED <<waiters, channel, posted, call, claimed, wait, disconnect, responding,
                   phone, outages>>

\* The long poll gives up by itself; the bridge disconnects before it connects again.
PollFails ==
    /\ poll = "up"
    /\ poll' = "closing"
    /\ UNCHANGED <<waiters, channel, posted, call, claimed, wait, pinger, disconnect,
                   responding, phone, outages>>

\* Disconnect of the bridge: its own fields first...
LinkDisconnect ==
    /\ disconnect = "no"
    /\ disconnect' = "resetting"
    /\ responding' = TRUE
    /\ UNCHANGED <<waiters, channel, posted, call, claimed, wait, pinger, poll, phone, outages>>

\* ...then the client: cancel the long poll, join it, close every waiter.
CancelPoll ==
    /\ disconnect = "resetting"
    /\ disconnect' = "joining"
    /\ poll' = IF poll = "up" THEN "closing" ELSE poll
    /\ UNCHANGED <<waiters, channel, posted, call, claimed, wait, pinger, responding, phone,
                   outages>>

PollJoined ==
    /\ disconnect = "joining" /\ poll \in {"down", "ended"}
    /\ disconnect' = "cancelling"
    /\ poll' = "down"
    /\ UNCHANGED <<waiters, channel, posted, call, claimed, wait, pinger, responding,
                   phone, outages>>

CancelAllResponseWaiters ==
    /\ disconnect = "cancelling"
    /\ disconnect' = "no"
    /\ waiters' = {}
    /\ channel' = [i \in Ids |-> IF i \in waiters THEN "closed" ELSE channel[i]]
    /\ UNCHANGED <<posted, call, claimed, wait, pinger, poll, responding, phone, outages>>

-----------------------------------------------------------------------------
(* The phone stops answering and comes back; it answers late what it was sent. *)

PhoneOutage ==
    /\ phone /\ outages < MaxOutages
    /\ phone' = FALSE /\ outages' = outages + 1
    /\ UNCHANGED <<waiters, channel, posted, call, claimed, wait, pinger, poll, disconnect,
                   responding>>

PhoneReturns ==
    /\ ~phone
    /\ phone' = TRUE
    /\ UNCHANGED <<waiters, channel, posted, call, claimed, wait, pinger, poll, disconnect,
                   responding, outages>>

-----------------------------------------------------------------------------
Request ==
    \E r \in Requests :
       \/ SendRequest(r)
       \/ \E failed \in BOOLEAN : PostReturns(r, failed)
       \/ ReadResponse(r)
       \/ GiveUp(r)
       \/ ShortCircuitLost(r)
       \/ \E p \in Pings : ShortCircuitPing(r, p) \/ ShortCircuitAlert(r, p)

Reader == Deliver \/ \E i \in Ids : Answer(i)

Pinger ==
    \/ PingFails
    \/ \E p \in Pings :
          LoopPing(p) \/ PingTimesOut(p) \/ Reping(p) \/ PingAnswered(p) \/ PingAbandoned(p)

Bridge == LinkConnect \/ PollFails \/ LinkDisconnect \/ CancelPoll \/ PollJoined \/ CancelAllResponseWaiters

LinkNext == Request \/ Reader \/ Pinger \/ LinkPollEnds \/ Bridge \/ PhoneOutage \/ PhoneReturns

LinkSpec == LinkInit /\ [][LinkNext]_linkVars

\* The goroutines run, the bridge reconnects, and a phone that is back answers.
LinkFairness ==
    /\ WF_linkVars(\E i \in Ids : Answer(i))
    /\ WF_linkVars(Deliver)
    /\ WF_linkVars(\E p \in Pings : LoopPing(p) \/ Reping(p))
    /\ \A p \in Pings : WF_linkVars(PingAnswered(p)) /\ WF_linkVars(PingAbandoned(p))
    /\ WF_linkVars(LinkPollEnds)
    /\ WF_linkVars(CancelPoll) /\ WF_linkVars(PollJoined) /\ WF_linkVars(CancelAllResponseWaiters)
    /\ WF_linkVars(LinkConnect)
    /\ WF_linkVars(PhoneReturns)

FairLinkSpec == LinkSpec /\ LinkFairness

-----------------------------------------------------------------------------
(* Properties. *)

\* An answer taken out of the map by the reader is never sent on a channel
\* that a timeout, a cancelled caller or Disconnect has closed (a Go panic),
\* and a waiter left in the map belongs to a call that still waits on it:
\* every way out of sendMessageWithParams takes the waiter along.
WaiterOwnsChannel ==
    /\ claimed # NoId => channel[claimed] # "closed"
    /\ \A r \in Requests \cap waiters : call[r] # "idle" /\ channel[r] = "open"

\* "If a ping responds and PhoneNotResponding was sent, send
\* PhoneRespondingAgain" (longpoll.go): once the long poll stays up and the
\* phone answers, the bridge does not show the phone as not responding forever.
AlertIsWithdrawn == <>[](poll = "up" /\ phone) => []<>responding
=============================================================================
