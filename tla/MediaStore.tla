---------------------------- MODULE MediaStore ----------------------------
(***************************************************************************)
(* Media (internal/gateway/media, store/postgres/media*.go).  Provider     *)
(* media is fetched by leased workers: claim the job, download and decrypt *)
(* through the fenced actor, store the object under the key its media ID   *)
(* determines, write the metadata row, complete the job with an event.     *)
(* API uploads store an object under a fresh ID.  Workers crash, lose      *)
(* their claim and overlap; the provider may answer a repeated download    *)
(* with other bytes.  A body stands for its bytes, size and digest.        *)
(***************************************************************************)
EXTENDS Naturals, Sequences

CONSTANTS Fetched,           \* media IDs with a fetch job
          Uploaded,          \* media IDs an API upload will use
          FetchWorkers, NoFetcher,
          Bodies,            \* acceptable images the provider or a caller may send
          MaxFetchAttempts,  \* worker.maxAttempts
          MaxMediaFaults     \* bound: crashes, lost claims and lost answers

VARIABLES
    fetchJob,    \* media_fetch_jobs; `attempt' is attempt_count and claim_token, which rise together
    mediaRow,    \* media_objects
    object,      \* the object store
    fetcher,     \* the claim each worker processes
    upload,      \* stage of each API upload
    announced,   \* media events of each fetched media, in order
    reader,      \* what an API client was answered about each media
    mediaFaults

mediaVars == <<fetchJob, mediaRow, object, fetcher, upload, announced, reader, mediaFaults>>

Media == Fetched \cup Uploaded
NoObject == "none"
Partial == "partial"     \* what a crash leaves of a file being written
Unacceptable == "rejected"   \* unsafe locator, oversize, not a static image, too many pixels
Unavailable == "unavailable"
Unread == "unread"
Offered == "offered"
NotFound == "not found"

ASSUME MediaConstants ==
    /\ Fetched \cap Uploaded = {} /\ NoFetcher \notin FetchWorkers
    /\ Bodies \cap {NoObject, Partial, Unacceptable, Unavailable, Unread, Offered,
                 NotFound} = {}
    /\ MaxFetchAttempts \in Nat \ {0} /\ MaxMediaFaults \in Nat

NoClaim == [at |-> "idle", media |-> "none", attempt |-> 0, body |-> NoObject, terminal |-> FALSE]

\* What the download yields, after the locator and URL policy, decryption,
\* bounds and the inspection of the image.
FetchOutcomes == Bodies \cup {Unacceptable, Unavailable}

MediaFault == mediaFaults < MaxMediaFaults /\ mediaFaults' = mediaFaults + 1

FetchClaim(w) == fetcher[w]
Moves(w, changes) == fetcher' = [fetcher EXCEPT ![w] = changes]
Fails(w, terminal) == Moves(w, [FetchClaim(w) EXCEPT !.at = "fail", !.terminal = terminal])

\* The fence of renew, complete and fail: same owner, same token, still fetching.
HoldsClaim(w) ==
    LET job == fetchJob[FetchClaim(w).media] IN
    job.state = "fetching" /\ job.owner = w /\ job.attempt = FetchClaim(w).attempt

----------------------------------------------------------------------------
(* RunOne *)

\* Due jobs nobody holds, and jobs whose holder let the claim expire.
Fetchable(job) ==
    job.state \in {"pending", "fetching"} /\ (job.owner = NoFetcher \/ job.expired)

ClaimFetch(w, m) ==
    /\ FetchClaim(w).at = "idle"
    /\ Fetchable(fetchJob[m])
    /\ fetchJob' = [fetchJob EXCEPT ![m] = [state |-> "fetching", attempt |-> @.attempt + 1,
                                            owner |-> w, expired |-> FALSE]]
    /\ LET imported == mediaRow[m].state = "ready" IN
       Moves(w, [at |-> IF imported THEN "verify" ELSE "fetch", media |-> m,
                 attempt |-> fetchJob[m].attempt + 1, terminal |-> FALSE,
                 body |-> IF imported THEN mediaRow[m].body ELSE NoObject])
    /\ UNCHANGED <<mediaRow, object, upload, announced, reader, mediaFaults>>

Fetch(w) ==
    /\ FetchClaim(w).at = "fetch"
    /\ \E outcome \in FetchOutcomes :
          IF outcome \in Bodies
          THEN Moves(w, [FetchClaim(w) EXCEPT !.at = "put", !.body = outcome])
          ELSE Fails(w, outcome = Unacceptable)
    /\ UNCHANGED <<fetchJob, mediaRow, object, upload, announced, reader, mediaFaults>>

\* Mutant: putOrVerify takes any existing object under the key for its own.
AcceptableAlways(stored, body) == TRUE

\* putOrVerify: an existing object is accepted only with the same size and digest.
Acceptable(stored, body) == stored = body

PutOrVerify(w) ==
    LET m == FetchClaim(w).media IN
    /\ FetchClaim(w).at = "put"
    /\ IF object[m] = NoObject \/ Acceptable(object[m], FetchClaim(w).body)
       THEN /\ object' = [object EXCEPT ![m] = IF @ = NoObject THEN FetchClaim(w).body ELSE @]
            /\ Moves(w, [FetchClaim(w) EXCEPT !.at = "create"])
       ELSE UNCHANGED object /\ Fails(w, FALSE)
    /\ UNCHANGED <<fetchJob, mediaRow, upload, announced, reader, mediaFaults>>

\* Metadata.Create: only a pending or failed row is overwritten.
CreateMetadata(w) ==
    LET m == FetchClaim(w).media IN
    /\ FetchClaim(w).at = "create"
    /\ IF mediaRow[m].state \in {"pending", "failed"}
       THEN /\ mediaRow' = [mediaRow EXCEPT ![m] = [state |-> "ready", body |-> FetchClaim(w).body]]
            /\ Moves(w, [FetchClaim(w) EXCEPT !.at = "complete"])
       ELSE UNCHANGED mediaRow /\ Fails(w, FALSE)
    /\ UNCHANGED <<fetchJob, object, upload, announced, reader, mediaFaults>>

\* Verify: an object imported before a crash is read back before completion;
\* a missing or corrupt one is terminal, an unreadable store is not.
Verify(w) ==
    LET m == FetchClaim(w).media IN
    /\ FetchClaim(w).at = "verify"
    /\ \/ object[m] = FetchClaim(w).body /\ Moves(w, [FetchClaim(w) EXCEPT !.at = "complete"])
       \/ object[m] # FetchClaim(w).body /\ Fails(w, TRUE)
       \/ Fails(w, FALSE)
    /\ UNCHANGED <<fetchJob, mediaRow, object, upload, announced, reader, mediaFaults>>

CompleteReady(w) ==
    LET m == FetchClaim(w).media IN
    /\ FetchClaim(w).at = "complete"
    /\ IF HoldsClaim(w) /\ mediaRow[m] = [state |-> "ready", body |-> FetchClaim(w).body]
       THEN /\ fetchJob' = [fetchJob EXCEPT ![m].state = "ready", ![m].owner = NoFetcher]
            /\ announced' = [announced EXCEPT ![m] = Append(@, "media.ready")]
       ELSE UNCHANGED <<fetchJob, announced>>
    /\ Moves(w, NoClaim)
    /\ UNCHANGED <<mediaRow, object, upload, reader, mediaFaults>>

GivesUp(claim) == claim.terminal \/ claim.attempt >= MaxFetchAttempts

CompleteFailed(w) ==
    LET m == FetchClaim(w).media IN
    /\ FetchClaim(w).at = "fail"
    /\ IF ~HoldsClaim(w) THEN UNCHANGED <<fetchJob, mediaRow, announced>>
       ELSE IF GivesUp(FetchClaim(w))
       THEN /\ fetchJob' = [fetchJob EXCEPT ![m].state = "failed", ![m].owner = NoFetcher]
            /\ mediaRow' = [mediaRow EXCEPT ![m].state = IF @ = "ready" THEN @ ELSE "failed"]
            /\ announced' = [announced EXCEPT ![m] = Append(@, "media.failed")]
       ELSE /\ fetchJob' = [fetchJob EXCEPT ![m].state = "pending", ![m].owner = NoFetcher]
            /\ UNCHANGED <<mediaRow, announced>>
    /\ Moves(w, NoClaim)
    /\ UNCHANGED <<object, upload, reader, mediaFaults>>

\* The worker dies, its renewal fails, or its request is cancelled: the claim
\* is left to expire.  A death during a local write leaves part of the file.
WorkerStops(w) ==
    /\ FetchClaim(w).at # "idle" /\ MediaFault
    /\ LET m == FetchClaim(w).media IN
       \/ UNCHANGED object
       \/ /\ FetchClaim(w).at = "put" /\ object[m] = NoObject
          /\ object' = [object EXCEPT ![m] = Partial]
    /\ Moves(w, NoClaim)
    /\ UNCHANGED <<fetchJob, mediaRow, upload, announced, reader>>

\* Claims are renewed while the worker runs; one expires after its worker
\* stopped, or when the renewals are late.
ClaimExpiry(m) ==
    LET job == fetchJob[m] IN
    /\ job.state = "fetching" /\ ~job.expired
    /\ fetchJob' = [fetchJob EXCEPT ![m].expired = TRUE]
    /\ UNCHANGED <<mediaRow, object, fetcher, upload, announced, reader>>

Abandoned(m) == \A w \in FetchWorkers : ~(FetchClaim(w).at # "idle" /\ FetchClaim(w).media = m /\ HoldsClaim(w))

AbandonedClaimExpires(m) == Abandoned(m) /\ ClaimExpiry(m) /\ UNCHANGED mediaFaults
RenewalIsLate(m) == ~Abandoned(m) /\ ClaimExpiry(m) /\ MediaFault

----------------------------------------------------------------------------
(* Upload *)

\* uploadMedia: the content type, length, structure and size of the image are
\* checked before anything is stored (ImageScan).
UploadMedia(m, sent) ==
    /\ upload[m].at = "none"
    /\ upload' = [upload EXCEPT ![m] = [at |-> IF sent = Unacceptable THEN "refused" ELSE "spooled",
                                       body |-> sent]]
    /\ UNCHANGED <<fetchJob, mediaRow, object, fetcher, announced, reader, mediaFaults>>

UploadObject(m) ==
    /\ upload[m].at = "spooled"
    /\ object' = [object EXCEPT ![m] = upload[m].body]
    /\ upload' = [upload EXCEPT ![m].at = "stored"]
    /\ UNCHANGED <<fetchJob, mediaRow, fetcher, announced, reader, mediaFaults>>

\* The row is written and the ID returned; a failed write deletes the object -
\* also when the write was committed and only its answer was lost.
UploadMetadata(m) ==
    /\ upload[m].at = "stored"
    /\ \/ /\ mediaRow' = [mediaRow EXCEPT ![m] = [state |-> "ready", body |-> upload[m].body]]
          /\ upload' = [upload EXCEPT ![m].at = "returned"]
          /\ UNCHANGED <<object, mediaFaults>>
       \/ /\ MediaFault
          /\ \/ UNCHANGED mediaRow
             \/ mediaRow' = [mediaRow EXCEPT ![m] = [state |-> "ready", body |-> upload[m].body]]
          /\ object' = [object EXCEPT ![m] = NoObject]
          /\ upload' = [upload EXCEPT ![m].at = "refused"]
    /\ UNCHANGED <<fetchJob, fetcher, announced, reader>>

----------------------------------------------------------------------------
(* Reading *)

\* Get: a row whose fetch failed is hidden, also when an earlier worker made it ready.
Get(m) ==
    /\ mediaRow[m].state # "absent"
    /\ m \in Fetched => fetchJob[m].state # "failed"

\* getMedia: the state of the row; a ready one offers its content.
GetMedia(m) ==
    /\ reader' = [reader EXCEPT ![m] = IF ~Get(m) THEN NotFound
                                      ELSE IF mediaRow[m].state = "ready" THEN Offered ELSE Unread]
    /\ UNCHANGED <<fetchJob, mediaRow, object, fetcher, upload, announced, mediaFaults>>

\* getMediaContent: only the object of a ready row that Get finds, with the size of
\* the row; the digest is not computed again.
GetMediaContent(m) ==
    /\ reader' = [reader EXCEPT ![m] = IF ~Get(m) \/ mediaRow[m].state # "ready" THEN NotFound
                                      ELSE IF object[m] \in Bodies THEN object[m] ELSE Unavailable]
    /\ UNCHANGED <<fetchJob, mediaRow, object, fetcher, upload, announced, mediaFaults>>

----------------------------------------------------------------------------
MediaInit ==
    /\ fetchJob = [m \in Fetched |-> [state |-> "pending", attempt |-> 0, owner |-> NoFetcher,
                                      expired |-> FALSE]]
    /\ mediaRow = [m \in Media |-> [state |-> IF m \in Fetched THEN "pending" ELSE "absent",
                                    body |-> NoObject]]
    /\ object = [m \in Media |-> NoObject]
    /\ fetcher = [w \in FetchWorkers |-> NoClaim]
    /\ upload = [m \in Uploaded |-> [at |-> "none", body |-> NoObject]]
    /\ reader = [m \in Media |-> Unread]
    /\ announced = [m \in Fetched |-> <<>>]
    /\ mediaFaults = 0

FetchStep(w) ==
    \/ \E m \in Fetched : ClaimFetch(w, m)
    \/ Fetch(w) \/ PutOrVerify(w) \/ CreateMetadata(w) \/ Verify(w) \/ CompleteReady(w) \/ CompleteFailed(w)

MediaNext ==
    \/ \E w \in FetchWorkers : FetchStep(w) \/ WorkerStops(w)
    \/ \E m \in Fetched : AbandonedClaimExpires(m) \/ RenewalIsLate(m)
    \/ \E m \in Uploaded : \/ \E sent \in Bodies \cup {Unacceptable} : UploadMedia(m, sent)
                           \/ UploadObject(m) \/ UploadMetadata(m)
    \/ \E m \in Media : GetMedia(m) \/ GetMediaContent(m)

MediaSpec == MediaInit /\ [][MediaNext]_mediaVars

----------------------------------------------------------------------------
Announced(m) ==
    IF m \in Fetched THEN announced[m] = <<"media.ready">> ELSE upload[m].at = "returned"

\* Media the gateway has announced - by media.ready or by returning the ID of an
\* upload - is found, can be read and has the digest of its row, whatever crashed,
\* overlapped or was downloaded twice with different bytes; a fetch announces one
\* verdict, and media announced as failed is not found any more, although a worker
\* that lost its claim may have made it ready and readers may have seen it; who reads
\* content gets what the row describes, and for fetched media never misses the object
\* of a ready row (upload.go putOrVerify and Open, media.go Get, media_fetch.go).
AnnouncedMediaIsIntact ==
    /\ \A m \in Fetched : announced[m] \in {<<>>, <<"media.ready">>, <<"media.failed">>}
    /\ \A m \in Media : Announced(m) =>
          Get(m) /\ mediaRow[m] = [state |-> "ready", body |-> object[m]] /\ object[m] \in Bodies
    /\ \A m \in Fetched : announced[m] = <<"media.failed">> => ~Get(m)
    /\ \A m \in Media : reader[m] \in Bodies => reader[m] = mediaRow[m].body
    /\ \A m \in Fetched : reader[m] # Unavailable
=============================================================================
