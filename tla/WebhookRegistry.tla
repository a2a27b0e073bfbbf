--------------------------- MODULE WebhookRegistry ---------------------------
(***************************************************************************)
(* The webhook endpoints of one tenant and their signing secrets: the API  *)
(* calls (httpapi/messaging_endpoints.go), the service that makes a secret *)
(* before it touches the row (webhook/endpoints.go), the row with its      *)
(* current and previous secret (store/postgres/delivery.go), and a worker  *)
(* that signs with the secret its claim read.  What becomes of the         *)
(* deliveries is in WebhookDelivery.                                       *)
(*                                                                         *)
(* secretHistory is a history variable: the secrets a row has had.         *)
(***************************************************************************)
EXTENDS Naturals, Sequences, FiniteSets

CONSTANTS
    RegistryCalls,      \* API calls
    EndpointIds,        \* ids newID may give, in the order of their listing
    MaxSecrets,         \* bound: secrets the random source yields
    EndpointQuota,      \* active endpoints of a tenant
    EndpointsPerPage,
    MaxLostAnswers      \* bound: answers that do not reach the caller

ASSUME RegistryAssumption ==
    /\ EndpointIds \subseteq Nat \ {0} /\ MaxSecrets \in Nat
    /\ {EndpointQuota, EndpointsPerPage} \subseteq Nat \ {0} /\ MaxLostAnswers \in Nat

\* Secrets are drawn once each; the n-th one drawn is called n.
Secrets == 1..MaxSecrets
NoSecret == 0

VARIABLES
    endpointRow, \* webhook_endpoints
    sealedFor,  \* secret -> the endpoint in the scope it is sealed under, 0 if unused
    apiCall,    \* what an API call is doing and knows
    inFlight,   \* the claim of the worker: endpoint, secret, rotations at the claim
    secretHistory,
    lostAnswers

registryVars == <<endpointRow, sealedFor, apiCall, inFlight, secretHistory, lostAnswers>>

NoCall == [pc |-> "idle", op |-> "none", id |-> 0, secret |-> NoSecret,
           after |-> 0, seen |-> {}, due |-> {}]

NoFlight == [pc |-> "idle", id |-> 0, secret |-> NoSecret, seen |-> 0]

NoEndpoint == [state |-> "absent", key |-> NoSecret, previous |-> NoSecret, expired |-> FALSE]

RegistryInit ==
    /\ endpointRow = [e \in EndpointIds |-> NoEndpoint]
    /\ sealedFor = [s \in Secrets |-> 0]
    /\ apiCall = [c \in RegistryCalls |-> NoCall]
    /\ inFlight = NoFlight
    /\ secretHistory = [e \in EndpointIds |-> <<>>]
    /\ lostAnswers = 0

KnownEndpoints == {e \in EndpointIds : endpointRow[e].state # "absent"}
CallMoves(c, pc) == apiCall' = [apiCall EXCEPT ![c].pc = pc]

-----------------------------------------------------------------------------
(* Create and Rotate *)

\* createWebhook: the destination must be a plain https URL, and the guard must
\* find it public.
CreateWebhook(c, acceptable) ==
    /\ apiCall[c].pc = "idle"
    /\ \E e \in EndpointIds \ KnownEndpoints :
          /\ \A d \in RegistryCalls : apiCall[d].op = "create" => apiCall[d].id # e
          /\ apiCall' = [apiCall EXCEPT ![c] = [NoCall EXCEPT
               !.pc = IF acceptable THEN "generate" ELSE "refused", !.op = "create", !.id = e]]
    /\ UNCHANGED <<endpointRow, sealedFor, inFlight, secretHistory, lostAnswers>>

\* rotateWebhook: the row is not looked at before the secret is made.
RotateWebhook(c, e) ==
    /\ apiCall[c].pc = "idle"
    /\ apiCall' = [apiCall EXCEPT ![c] =
         [NoCall EXCEPT !.pc = "generate", !.op = "rotate", !.id = e]]
    /\ UNCHANGED <<endpointRow, sealedFor, inFlight, secretHistory, lostAnswers>>

\* generateSecret: a fresh secret, sealed under the endpoint's scope; the random
\* source or the vault may fail.
GenerateSecret(c) ==
    /\ apiCall[c].pc = "generate"
    /\ \/ \E s \in Secrets :
             /\ sealedFor[s] = 0 /\ \A t \in Secrets : t < s => sealedFor[t] # 0
             /\ sealedFor' = [sealedFor EXCEPT ![s] = apiCall[c].id]
             /\ apiCall' = [apiCall EXCEPT ![c].pc = "store", ![c].secret = s]
       \/ CallMoves(c, "refused") /\ UNCHANGED sealedFor
    /\ UNCHANGED <<endpointRow, inFlight, secretHistory, lostAnswers>>

\* The secret is in the answer, and only there: it is not stored in the clear.
SecretAnswered(c) ==
    \/ CallMoves(c, "told") /\ UNCHANGED lostAnswers
    \/ /\ lostAnswers < MaxLostAnswers /\ lostAnswers' = lostAnswers + 1
       /\ apiCall' = [apiCall EXCEPT ![c].pc = "lost", ![c].secret = NoSecret]

\* CreateEndpoint: quota and insert under the lock of the tenant row.
StoreEndpoint(c) ==
    LET e == apiCall[c].id
        admitted == Cardinality({x \in EndpointIds : endpointRow[x].state = "active"}) < EndpointQuota
    IN
    /\ apiCall[c].pc = "store" /\ apiCall[c].op = "create"
    /\ IF admitted
       THEN /\ endpointRow' = [endpointRow EXCEPT ![e] = [NoEndpoint EXCEPT !.state = "active", !.key = apiCall[c].secret]]
            /\ secretHistory' = [secretHistory EXCEPT ![e] = <<apiCall[c].secret>>]
            /\ SecretAnswered(c)
       ELSE CallMoves(c, "refused") /\ UNCHANGED <<endpointRow, secretHistory, lostAnswers>>
    /\ UNCHANGED <<sealedFor, inFlight>>

\* Mutant: a previous secret that is still valid is not replaced.
RotatedKeepingOldest(r, secret) ==
    [r EXCEPT !.previous = IF @ = NoSecret THEN r.key ELSE @, !.key = secret, !.expired = FALSE]

\* rotate_webhook_endpoint: the current secret becomes the previous one, which
\* is valid for the grace period from now.
Rotated(r, secret) == [r EXCEPT !.previous = r.key, !.key = secret, !.expired = FALSE]

RotateEndpoint(c) ==
    LET e == apiCall[c].id IN
    /\ apiCall[c].pc = "store" /\ apiCall[c].op = "rotate"
    /\ IF endpointRow[e].state = "active"
       THEN /\ endpointRow' = [endpointRow EXCEPT ![e] = Rotated(@, apiCall[c].secret)]
            /\ secretHistory' = [secretHistory EXCEPT ![e] = Append(@, apiCall[c].secret)]
            /\ SecretAnswered(c)
       ELSE CallMoves(c, "refused") /\ UNCHANGED <<endpointRow, secretHistory, lostAnswers>>
    /\ UNCHANGED <<sealedFor, inFlight>>

\* The caller goes on to another call.
CallEnds(c) ==
    /\ apiCall[c].pc \in {"refused", "told", "lost", "listed"}
    /\ apiCall' = [apiCall EXCEPT ![c] = NoCall]
    /\ UNCHANGED <<endpointRow, sealedFor, inFlight, secretHistory, lostAnswers>>

-----------------------------------------------------------------------------
(* Delete, the end of the grace period, List *)

DeleteWebhook(e) ==
    /\ endpointRow[e].state = "active"
    /\ endpointRow' = [endpointRow EXCEPT ![e].state = "revoked"]
    /\ UNCHANGED <<sealedFor, apiCall, inFlight, secretHistory, lostAnswers>>

GraceEnds(e) ==
    /\ endpointRow[e].previous # NoSecret /\ ~endpointRow[e].expired
    /\ endpointRow' = [endpointRow EXCEPT ![e].expired = TRUE]
    /\ UNCHANGED <<sealedFor, apiCall, inFlight, secretHistory, lostAnswers>>

PurgedRow(r) == IF r.expired THEN [r EXCEPT !.previous = NoSecret, !.expired = FALSE] ELSE r

PurgeExpiredSecrets ==
    /\ endpointRow' = [e \in EndpointIds |-> PurgedRow(endpointRow[e])]
    /\ UNCHANGED <<sealedFor, apiCall, inFlight, secretHistory, lostAnswers>>

\* ListEndpoints: revoked endpoints too, a page of ids after the cursor; one row
\* more than the page is read to know whether there is another.
EndpointPage(after) ==
    {e \in KnownEndpoints : /\ e > after
                   /\ Cardinality({d \in KnownEndpoints : after < d /\ d <= e}) <= EndpointsPerPage}

ListWebhooks(c) ==
    LET page == EndpointPage(apiCall[c].after)
        more == \E e \in KnownEndpoints : e > apiCall[c].after /\ e \notin page
    IN
    /\ apiCall[c].pc \in {"idle", "more"}
    /\ apiCall' = [apiCall EXCEPT
         ![c].pc = IF more THEN "more" ELSE "listed",
         ![c].due = IF apiCall[c].pc = "more" THEN @ ELSE KnownEndpoints,
         ![c].seen = @ \cup page,
         ![c].after = IF more THEN CHOOSE e \in page : \A d \in page : d <= e ELSE @]
    /\ UNCHANGED <<endpointRow, sealedFor, inFlight, secretHistory, lostAnswers>>

-----------------------------------------------------------------------------
(* A delivery: the claim reads the secret, the attempt opens it under the scope
   of its endpoint and signs; rotations may come in between. *)

ClaimSecret(e) ==
    /\ inFlight.pc = "idle" /\ endpointRow[e].state = "active"
    /\ inFlight' = [pc |-> "claimed", id |-> e, secret |-> endpointRow[e].key, seen |-> Len(secretHistory[e])]
    /\ UNCHANGED <<endpointRow, sealedFor, apiCall, secretHistory, lostAnswers>>

SignAttempt ==
    /\ inFlight.pc = "claimed"
    /\ inFlight' = [inFlight EXCEPT !.pc =
         IF sealedFor[inFlight.secret] = inFlight.id THEN "signed" ELSE "unsigned"]
    /\ UNCHANGED <<endpointRow, sealedFor, apiCall, secretHistory, lostAnswers>>

AttemptEnded ==
    /\ inFlight.pc = "signed"
    /\ inFlight' = NoFlight
    /\ UNCHANGED <<endpointRow, sealedFor, apiCall, secretHistory, lostAnswers>>

RegistryNext ==
    \/ \E c \in RegistryCalls :
        \/ \E acceptable \in BOOLEAN : CreateWebhook(c, acceptable)
        \/ \E e \in EndpointIds : RotateWebhook(c, e)
        \/ GenerateSecret(c) \/ StoreEndpoint(c) \/ RotateEndpoint(c)
        \/ ListWebhooks(c) \/ CallEnds(c)
    \/ \E e \in EndpointIds : DeleteWebhook(e) \/ GraceEnds(e) \/ ClaimSecret(e)
    \/ PurgeExpiredSecrets \/ SignAttempt \/ AttemptEnded

RegistrySpec == RegistryInit /\ [][RegistryNext]_registryVars

-----------------------------------------------------------------------------
(* However creations, rotations, deletions and purges interleave: a request   *)
(* is always signed, with a secret of its own endpoint; while it is in flight *)
(* the row still has that secret unless two rotations or the end of the grace *)
(* period came after the claim; who was told a secret has the endpoint's      *)
(* secret or one that a later rotation replaced; and a listing has every      *)
(* endpoint that existed when it began.                                       *)
SignedWithKeptSecret ==
    /\ inFlight.pc # "unsigned"
    /\ inFlight.pc \in {"claimed", "signed"} =>
         LET r == endpointRow[inFlight.id]
             since == Len(secretHistory[inFlight.id]) - inFlight.seen
         IN  /\ since = 0 => inFlight.secret = r.key
             /\ since = 1 => inFlight.secret = r.previous \/ r.previous = NoSecret
    /\ \A c \in RegistryCalls :
         /\ apiCall[c].pc = "told" =>
              LET h == secretHistory[apiCall[c].id] IN
              \E i \in 1..Len(h) : /\ h[i] = apiCall[c].secret
                                   /\ i = Len(h) => endpointRow[apiCall[c].id].key = h[i]
         /\ apiCall[c].pc = "listed" => apiCall[c].due \subseteq apiCall[c].seen
    /\ \A e \in EndpointIds : endpointRow[e].expired => endpointRow[e].previous # NoSecret
=============================================================================
