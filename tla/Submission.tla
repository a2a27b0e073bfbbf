----------------------------- MODULE Submission -----------------------------
(***************************************************************************)
(* Submitting a message over HTTP or as a Kafka command, and reading what  *)
(* was submitted (httpapi/messaging_endpoints.go, messaging/service.go,    *)
(* CreateOutbound, GetMessage and ListMessages of store/postgres).         *)
(*                                                                         *)
(* CreateOutbound is one transaction that starts by taking a lock on the   *)
(* idempotency key.  Its answer may be lost on the way, after a commit as  *)
(* well as before one, and the caller then repeats the request; several    *)
(* callers may use the same key, and Kafka may present a record again.     *)
(***************************************************************************)
EXTENDS Naturals, FiniteSets

CONSTANTS
    Callers,         \* HTTP clients and the readers of Kafka partitions
    IdemKeys,        \* well-formed idempotency keys
    SendInputs,      \* bodies of requests
    Offsets,         \* positions of the command topic
    MessageIds,      \* ids newID may give, in the order of their listing
    MessagesPerPage,
    MaxRetries       \* bound: repeated requests

CONSTANT Unset     \* no row, no offset

ASSUME SubmissionAssumption ==
    /\ MessageIds \subseteq Nat \ {0} /\ MessagesPerPage \in Nat \ {0} /\ MaxRetries \in Nat
    /\ \A i \in SendInputs :
          /\ i.wellformed \in BOOLEAN  \* text, media ids, key and route are acceptable
          /\ i.padded \in BOOLEAN      \* blanks around conversation or recipient
          /\ i.existing \in BOOLEAN    \* to a conversation, not to a recipient
          /\ i.media \in BOOLEAN       \* has an attachment
    /\ Unset \notin IdemKeys /\ Unset \notin SendInputs
    /\ Unset \notin Offsets /\ Unset \notin MessageIds

VARIABLES
    idempotency,   \* message_idempotency: key -> digest and message
    outbound,        \* messages: id -> what was stored
    audits,        \* kafka_commands: offset -> key and message
    routable,      \* the conversation has an outgoing id that fits the line
    attached,      \* the attachment's media object is ready
    client,       \* what a caller is doing
    retries

submissionVars == <<idempotency, outbound, audits, routable, attached, client, retries>>

NoRequest == [pc |-> "idle", key |-> Unset, input |-> Unset, offset |-> Unset,
              answer |-> Unset, after |-> 0, listed |-> {}, owed |-> {}]

SubmissionInit ==
    /\ idempotency = [k \in IdemKeys |-> Unset]
    /\ outbound = [m \in MessageIds |-> Unset]
    /\ audits = [o \in Offsets |-> Unset]
    /\ routable = FALSE /\ attached = FALSE
    /\ client = [c \in Callers |-> NoRequest]
    /\ retries = 0

-----------------------------------------------------------------------------
(* CanonicalRequestDigest: route and recipient are trimmed, the text is not. *)
CanonicalDigest(input) ==
    [text |-> input.text, existing |-> input.existing, media |-> input.media]

(* The absent row is none of the rows the statements store. *)
ASSUME UnsetIsNoRow ==
    /\ \A i \in SendInputs : CanonicalDigest(i) # Unset
    /\ \A i \in SendInputs, m \in MessageIds : [digest |-> CanonicalDigest(i), id |-> m] # Unset
    /\ \A k \in IdemKeys, m \in MessageIds : [key |-> k, id |-> m] # Unset

(* What both entry points refuse before they touch the store. *)
ValidCommand(input) == input.wellformed

SubmitMessage(c, key, input, offset) ==
    /\ client[c].pc = "idle"
    /\ client' = [client EXCEPT ![c] =
         [NoRequest EXCEPT !.pc = IF ValidCommand(input) THEN "submit" ELSE "refused",
                           !.key = key, !.input = input, !.offset = offset]]
    /\ UNCHANGED <<idempotency, outbound, audits, routable, attached, retries>>

(* validate_message_route and insert_outbound_media. *)
Sendable(input) ==
    /\ input.existing => routable
    /\ input.media => attached

(* recordKafkaCommand: an offset keeps the command it was first seen with. *)
AuditFits(c, id) ==
    client[c].offset # Unset =>
        audits[client[c].offset] \in {Unset, [key |-> client[c].key, id |-> id]}

Audited(c, id) ==
    IF client[c].offset = Unset THEN audits
    ELSE [audits EXCEPT ![client[c].offset] = [key |-> client[c].key, id |-> id]]

(* Mutant: a key that is known answers its message whatever the request says. *)
SameRequestUnchecked(row, input) == TRUE

(* The stored digest is compared with the digest of this request. *)
SameRequest(row, input) == row.digest = CanonicalDigest(input)

(* The outcome reaches the caller, or the caller only learns of a failure. *)
Answers(c, outcome, id, lost) ==
    client' = [client EXCEPT ![c].pc = IF lost THEN "lost" ELSE outcome,
                               ![c].answer = IF outcome = "accepted" /\ ~lost THEN id ELSE @]

(* The key is known: its message, or a conflict. *)
AnswerKnownKey(c, lost) ==
    LET row == idempotency[client[c].key]
        known == row # Unset /\ SameRequest(row, client[c].input)
        fits == known /\ AuditFits(c, row.id)
    IN
    /\ client[c].pc = "submit" /\ row # Unset
    /\ audits' = IF fits THEN Audited(c, row.id) ELSE audits
    /\ Answers(c, IF fits THEN "accepted" ELSE "conflict", row.id, lost)
    /\ UNCHANGED <<idempotency, outbound, routable, attached, retries>>

(* CreateOutbound inserts message, lane, media, key, audit, status and event
   together; a route, a medium or an audit that does not fit undoes it all. *)
CreateOutbound(c, id, lost) ==
    LET input == client[c].input
        done == Sendable(input) /\ AuditFits(c, id)
    IN
    /\ client[c].pc = "submit" /\ idempotency[client[c].key] = Unset
    /\ outbound[id] = Unset
    /\ IF done
       THEN /\ outbound' = [outbound EXCEPT ![id] = CanonicalDigest(input)]
            /\ idempotency' = [idempotency EXCEPT ![client[c].key] =
                                 [digest |-> CanonicalDigest(input), id |-> id]]
            /\ audits' = Audited(c, id)
       ELSE UNCHANGED <<idempotency, outbound, audits>>
    /\ Answers(c, IF done THEN "accepted" ELSE IF Sendable(input) THEN "conflict" ELSE "refused",
               id, lost)
    /\ UNCHANGED <<routable, attached, retries>>

(* A caller without an answer repeats its request, an accepted one may, and
   Kafka presents a record again until its offset is committed. *)
RepeatRequest(c) ==
    /\ client[c].pc \in {"lost", "accepted", "refused"} /\ client[c].key # Unset
    /\ ValidCommand(client[c].input)
    /\ retries < MaxRetries
    /\ client' = [client EXCEPT ![c].pc = "submit"]
    /\ retries' = retries + 1
    /\ UNCHANGED <<idempotency, outbound, audits, routable, attached>>

(* The phone's conversation list and the media workers change what fits. *)
RouteChanges ==
    /\ routable' = ~routable
    /\ UNCHANGED <<idempotency, outbound, audits, attached, client, retries>>

MediaBecomesReady ==
    /\ ~attached /\ attached' = TRUE
    /\ UNCHANGED <<idempotency, outbound, audits, routable, client, retries>>

-----------------------------------------------------------------------------
(* Reading. *)

StoredIds == {m \in MessageIds : outbound[m] # Unset}

(* getMessage of an accepted message. *)
GetMessage(c) ==
    /\ client[c].pc = "accepted"
    /\ client' = [client EXCEPT ![c].pc =
         IF outbound[client[c].answer] = Unset THEN "not_found" ELSE "read"]
    /\ UNCHANGED <<idempotency, outbound, audits, routable, attached, retries>>

(* The messages after the cursor, at most a page of them. *)
MessagePage(after) ==
    {m \in StoredIds : /\ m > after
                       /\ Cardinality({n \in StoredIds : after < n /\ n <= m}) <= MessagesPerPage}

(* listMessages: the next cursor is the last message of a page that is full
   and not the last one. *)
ListMessages(c) ==
    LET page == MessagePage(client[c].after)
        more == \E m \in StoredIds : m > client[c].after /\ m \notin page
    IN
    /\ client[c].pc \in {"idle", "read", "more"}
    /\ client' = [client EXCEPT
         ![c].pc = IF more THEN "more" ELSE "listed",
         ![c].owed = IF client[c].pc = "more" THEN @ ELSE StoredIds,
         ![c].listed = @ \cup page,
         ![c].after = IF more THEN CHOOSE m \in page : \A n \in page : n <= m ELSE @]
    /\ UNCHANGED <<idempotency, outbound, audits, routable, attached, retries>>

-----------------------------------------------------------------------------
SubmissionNext ==
    \/ \E c \in Callers :
        \/ \E key \in IdemKeys, input \in SendInputs, offset \in Offsets \cup {Unset} :
              SubmitMessage(c, key, input, offset)
        \/ \E lost \in BOOLEAN : \/ AnswerKnownKey(c, lost)
                                 \/ \E id \in MessageIds : CreateOutbound(c, id, lost)
        \/ RepeatRequest(c)
        \/ GetMessage(c) \/ ListMessages(c)
    \/ RouteChanges \/ MediaBecomesReady

SubmissionSpec == SubmissionInit /\ [][SubmissionNext]_submissionVars

-----------------------------------------------------------------------------
(* However often requests are repeated, answers lost and keys shared, a key   *)
(* submits one message: who is told that a request was accepted has the       *)
(* message of its key, made from that very request, every message belongs to  *)
(* one key (nothing of a refused request stays behind), every audited Kafka   *)
(* offset names the message of its key, and what was accepted can be read     *)
(* back and is in every listing that began after it was stored.               *)
SubmittedOnce ==
    /\ \A c \in Callers :
        /\ client[c].pc \in {"accepted", "read"} =>
              /\ idempotency[client[c].key] =
                    [digest |-> CanonicalDigest(client[c].input), id |-> client[c].answer]
              /\ outbound[client[c].answer] = CanonicalDigest(client[c].input)
        /\ client[c].pc # "not_found"
        /\ client[c].pc = "listed" => client[c].owed \subseteq client[c].listed
    /\ \A m \in StoredIds : \E k \in IdemKeys : idempotency[k] = [digest |-> outbound[m], id |-> m]
    /\ \A j, k \in IdemKeys :
          j # k /\ idempotency[j] # Unset /\ idempotency[k] # Unset
            => idempotency[j].id # idempotency[k].id
    /\ \A o \in Offsets : audits[o] # Unset =>
          /\ idempotency[audits[o].key] # Unset
          /\ idempotency[audits[o].key].id = audits[o].id
=============================================================================
