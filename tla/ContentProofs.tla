---------------------------- MODULE ContentProofs ----------------------------
(***************************************************************************)
(* Media, the inspection of images, and the contact book.                  *)
(***************************************************************************)
EXTENDS MediaStore, ImageScan, ContactBook, PagingLemmas, TLAPS

-----------------------------------------------------------------------------
(***************************************************************************)
(* Proof that announced media is intact. The inductive invariant follows a *)
(* body from the worker or the upload that has it to the object and from   *)
(* there to the row, and says that a reader was given what the row names.  *)
(***************************************************************************)

\* A body, or what stands in its place.
Contents == Bodies \cup {NoObject, Partial, Unacceptable}

MediaRow == [state : {"absent", "pending", "ready", "failed"}, body : Contents]

Claim == [at : {"idle", "fetch", "put", "create", "verify", "complete", "fail"},
          media : Fetched \cup {"none"}, attempt : Nat, body : Contents, terminal : BOOLEAN]

Job == [state : {"pending", "fetching", "ready", "failed"}, attempt : Nat,
        owner : FetchWorkers \cup {NoFetcher}, expired : BOOLEAN]

Sent == [at : {"none", "spooled", "refused", "stored", "returned"}, body : Contents]

MediaTypeOK ==
    /\ fetchJob \in [Fetched -> Job]
    /\ mediaRow \in [Media -> MediaRow]
    /\ object \in [Media -> Contents]
    /\ fetcher \in [FetchWorkers -> Claim]
    /\ upload \in [Uploaded -> Sent]
    /\ announced \in [Fetched -> {<<>>, <<"media.ready">>, <<"media.failed">>}]
    /\ reader \in [Media -> Bodies \cup {Unread, Offered, Unavailable, NotFound}]

\* What a reader was given is in the row.
ReaderHolds(m) == reader[m] \in Bodies => mediaRow[m].state = "ready" /\ reader[m] = mediaRow[m].body

\* A ready row of a fetched media names its object, an open job has not announced
\* anything, and a closed one is in the state it announced.
FetchedHolds(m) ==
    /\ mediaRow[m].state = "ready" => mediaRow[m].body = object[m] /\ object[m] \in Bodies
    /\ fetchJob[m].state \in {"pending", "fetching"} => announced[m] = <<>>
    /\ announced[m] = <<"media.ready">> =>
          mediaRow[m].state = "ready" /\ fetchJob[m].state = "ready"
    /\ announced[m] = <<"media.failed">> => fetchJob[m].state = "failed"
    /\ reader[m] # Unavailable
    /\ mediaRow[m].state # "absent"

\* An upload by its stage.
UploadHolds(m) ==
    /\ upload[m].at \in {"none", "spooled", "stored"} => mediaRow[m].state = "absent"
    /\ upload[m].at \in {"spooled", "stored", "returned"} => upload[m].body \in Bodies
    /\ upload[m].at \in {"stored", "returned"} => object[m] = upload[m].body
    /\ upload[m].at \in {"none", "spooled"} => object[m] = NoObject
    /\ upload[m].at = "returned" => mediaRow[m] = [state |-> "ready", body |-> object[m]]
    /\ mediaRow[m].state = "ready" => object[m] \in {NoObject, mediaRow[m].body}

\* What a worker has downloaded, and stored before it writes the row.
ClaimHolds(w) ==
    LET c == fetcher[w] IN
    /\ c.at # "idle" => c.media \in Fetched
    /\ c.at \in {"put", "create"} => c.body \in Bodies
    /\ c.at = "create" => object[c.media] = c.body

MediaInv ==
    /\ MediaTypeOK
    /\ \A m \in Media : ReaderHolds(m)
    /\ \A m \in Fetched : FetchedHolds(m)
    /\ \A m \in Uploaded : UploadHolds(m)
    /\ \A w \in FetchWorkers : ClaimHolds(w)

(* The invariant says what the property asks. *)
LEMMA MediaInvSuffices == MediaInv => AnnouncedMediaIsIntact
<1> SUFFICES ASSUME MediaInv
             PROVE  AnnouncedMediaIsIntact
  OBVIOUS
<1>1. \A m \in Fetched : announced[m] \in {<<>>, <<"media.ready">>, <<"media.failed">>}
  BY DEF MediaInv, MediaTypeOK
<1>2. ASSUME NEW m \in Media, Announced(m)
      PROVE  /\ Get(m) /\ mediaRow[m] = [state |-> "ready", body |-> object[m]]
             /\ object[m] \in Bodies
  <2>1. CASE m \in Fetched
    <3>1. mediaRow[m].state = "ready" /\ mediaRow[m].body = object[m] /\ object[m] \in Bodies
      BY <1>2, <2>1 DEF MediaInv, FetchedHolds, Announced
    <3>2. mediaRow[m] \in MediaRow
      BY DEF MediaInv, MediaTypeOK
    <3>3. fetchJob[m].state = "ready"
      BY <1>2, <2>1 DEF MediaInv, FetchedHolds, Announced
    <3> QED
      BY <3>1, <3>2, <3>3 DEF MediaRow, Get
  <2>2. CASE m \notin Fetched
    BY <1>2, <2>2 DEF MediaInv, UploadHolds, Announced, Media, Get
  <2> QED
    BY <2>1, <2>2
<1>3. \A m \in Media : reader[m] \in Bodies => reader[m] = mediaRow[m].body
  BY DEF MediaInv, ReaderHolds
<1>4. \A m \in Fetched : reader[m] # Unavailable
  BY DEF MediaInv, FetchedHolds
<1>5. \A m \in Fetched : announced[m] = <<"media.failed">> => ~Get(m)
  BY DEF MediaInv, FetchedHolds, Get
<1> QED
  BY <1>1, <1>2, <1>3, <1>4, <1>5 DEF AnnouncedMediaIsIntact

(* A worker that moves while the store, the rows and the jobs stay. *)
LEMMA ClaimWritten ==
    ASSUME MediaInv, NEW w \in FetchWorkers, NEW c \in Claim, Moves(w, c),
           UNCHANGED <<fetchJob, mediaRow, object, upload, announced, reader>>,
           c.at # "idle" => c.media \in Fetched,
           c.at \in {"put", "create"} => c.body \in Bodies,
           c.at = "create" => object[c.media] = c.body
    PROVE  MediaInv'
<1>1. fetcher'[w] = c /\ \A v \in FetchWorkers \ {w} : fetcher'[v] = fetcher[v]
  BY DEF Moves, MediaInv, MediaTypeOK
<1>2. MediaTypeOK'
  BY DEF Moves, MediaInv, MediaTypeOK
<1>3. \A v \in FetchWorkers : ClaimHolds(v)'
  BY <1>1 DEF MediaInv, ClaimHolds
<1> QED
  BY <1>2, <1>3 DEF MediaInv, ReaderHolds, FetchedHolds, UploadHolds

(* A worker fails. *)
LEMMA FailsKeeps ==
    ASSUME MediaInv, NEW w \in FetchWorkers, NEW terminal \in BOOLEAN, Fails(w, terminal),
           fetcher[w].at # "idle",
           UNCHANGED <<fetchJob, mediaRow, object, upload, announced, reader>>
    PROVE  MediaInv'
<1> DEFINE c == [fetcher[w] EXCEPT !.at = "fail", !.terminal = terminal]
<1>1. fetcher[w] \in Claim /\ fetcher[w].media \in Fetched
  BY DEF MediaInv, MediaTypeOK, ClaimHolds
<1>2. c \in Claim /\ c.at = "fail" /\ c.media \in Fetched
  BY <1>1 DEF Claim
<1>3. Moves(w, c)
  BY DEF Fails, FetchClaim
<1> HIDE DEF c
<1> QED
  BY <1>2, <1>3, ClaimWritten

(* The terminal verdict of a download is a Boolean. *)
LEMMA VerdictIsBoolean ==
    ASSUME NEW outcome PROVE (outcome = Unacceptable) \in BOOLEAN
OBVIOUS

(* A download. *)
LEMMA FetchKeeps ==
    ASSUME MediaInv, NEW w \in FetchWorkers, Fetch(w)
    PROVE  MediaInv'
<1>1. PICK outcome \in FetchOutcomes :
          IF outcome \in Bodies
          THEN Moves(w, [FetchClaim(w) EXCEPT !.at = "put", !.body = outcome])
          ELSE Fails(w, outcome = Unacceptable)
  BY DEF Fetch
<1>2. fetcher[w] \in Claim /\ fetcher[w].at = "fetch" /\ fetcher[w].media \in Fetched
  BY DEF MediaInv, MediaTypeOK, ClaimHolds, Fetch, FetchClaim
<1>3. CASE outcome \in Bodies
  <2> DEFINE c == [fetcher[w] EXCEPT !.at = "put", !.body = outcome]
  <2>1. c \in Claim /\ c.at = "put" /\ c.media \in Fetched /\ c.body = outcome
    BY <1>2, <1>3 DEF Claim, Contents
  <2>2. Moves(w, c)
    BY <1>1, <1>3 DEF FetchClaim
  <2> HIDE DEF c
  <2> QED
    BY <1>3, <2>1, <2>2, ClaimWritten DEF Fetch
<1>4. CASE outcome \notin Bodies
  <2> DEFINE t == outcome = Unacceptable
  <2>1. t \in BOOLEAN
    BY VerdictIsBoolean
  <2>2. Fails(w, t)
    BY <1>1, <1>4
  <2> HIDE DEF t
  <2> QED
    BY <1>2, <2>1, <2>2, FailsKeeps DEF Fetch
<1> QED
  BY <1>3, <1>4

(* The object is stored, or it was stored before with the same digest. *)
LEMMA PutOrVerifyKeeps ==
    ASSUME MediaInv, NEW w \in FetchWorkers, PutOrVerify(w)
    PROVE  MediaInv'
<1> DEFINE m == fetcher[w].media
           body == fetcher[w].body
           c == [fetcher[w] EXCEPT !.at = "create"]
<1>1. fetcher[w] \in Claim /\ fetcher[w].at = "put" /\ m \in Fetched /\ body \in Bodies
  BY DEF MediaInv, MediaTypeOK, ClaimHolds, PutOrVerify, FetchClaim
<1>2. CASE UNCHANGED object /\ Fails(w, FALSE)
  BY <1>1, <1>2, FailsKeeps DEF PutOrVerify
<1>3. CASE object[m] = NoObject \/ object[m] = body
  <2>1. object' = [object EXCEPT ![m] = body] /\ Moves(w, c)
    <3>1. /\ object' = [object EXCEPT ![m] = IF object[m] = NoObject THEN body ELSE object[m]]
          /\ Moves(w, c)
      BY <1>3 DEF PutOrVerify, Acceptable, FetchClaim
    <3>2. (IF object[m] = NoObject THEN body ELSE object[m]) = body
      BY <1>3
    <3> QED
      BY <3>1, <3>2
  <2>2. m \in Media /\ Fetched \cap Uploaded = {} /\ object \in [Media -> Contents] /\ body \in Contents
    BY <1>1, MediaConstants DEF Media, MediaInv, MediaTypeOK, Contents
  <2>3. object'[m] = body /\ \A x \in Media \ {m} : object'[x] = object[x]
    BY <2>1, <2>2
  <2>4. c \in Claim /\ c.at = "create" /\ c.media = m /\ c.body = body
    BY <1>1 DEF Claim
  <2> HIDE DEF c, m, body
  <2>5. UNCHANGED <<fetchJob, mediaRow, upload, announced, reader>>
    BY DEF PutOrVerify
  <2>6. MediaTypeOK'
    BY <2>1, <2>2, <2>4, <2>5 DEF MediaInv, MediaTypeOK, Moves
  <2>7. fetcher'[w] = c /\ \A v \in FetchWorkers \ {w} : fetcher'[v] = fetcher[v]
    BY <2>1 DEF Moves, MediaInv, MediaTypeOK
  <2>8. ASSUME NEW v \in FetchWorkers
        PROVE  ClaimHolds(v)'
    <3>1. CASE v = w
      BY <1>1, <2>3, <2>4, <2>7, <3>1 DEF ClaimHolds
    <3>2. CASE v # w
      <4>1. ClaimHolds(v) /\ fetcher'[v] = fetcher[v]
        BY <2>7, <3>2 DEF MediaInv
      <4>2. ASSUME fetcher[v].at = "create"
            PROVE  object'[fetcher[v].media] = fetcher[v].body
        <5>1. /\ object[fetcher[v].media] = fetcher[v].body /\ fetcher[v].body \in Bodies
              /\ fetcher[v].media \in Media
          BY <4>1, <4>2 DEF ClaimHolds, Media
        <5>2. object[fetcher[v].media] # NoObject
          BY <5>1, MediaConstants
        <5> QED
          BY <1>3, <2>3, <5>1, <5>2
      <4> QED
        BY <4>1, <4>2 DEF ClaimHolds
    <3> QED
      BY <3>1, <3>2
  <2>9. ASSUME NEW x \in Fetched
        PROVE  FetchedHolds(x)'
    <3>1. x \in Media /\ FetchedHolds(x)
      BY DEF Media, MediaInv
    <3>2. CASE x = m
      <4>1. mediaRow[m].state = "ready" => object[m] = body
        BY <1>3, <3>1, <3>2, MediaConstants DEF FetchedHolds
      <4> QED
        BY <1>1, <2>3, <2>5, <3>1, <3>2, <4>1 DEF FetchedHolds
    <3>3. CASE x # m
      BY <2>3, <2>5, <3>1, <3>3 DEF FetchedHolds
    <3> QED
      BY <3>2, <3>3
  <2>10. ASSUME NEW x \in Uploaded
         PROVE  UploadHolds(x)'
    <3>1. x \in Media /\ UploadHolds(x) /\ x # m
      BY <1>1, <2>2 DEF Media, MediaInv, m
    <3> QED
      BY <2>3, <2>5, <3>1 DEF UploadHolds
  <2>11. \A x \in Media : ReaderHolds(x)'
    BY <2>5 DEF MediaInv, ReaderHolds
  <2> QED
    BY <2>6, <2>8, <2>9, <2>10, <2>11 DEF MediaInv
<1> QED
  BY <1>2, <1>3 DEF PutOrVerify, Acceptable, FetchClaim

(* A worker moves on and the rows, the job and the announcements of fetched
   media change: what each of them asks is asked again of its row, and nothing
   else is touched. *)
LEMMA FetchedWritten ==
    ASSUME MediaInv, NEW m \in Fetched, NEW w \in FetchWorkers, NEW c \in Claim, Moves(w, c),
           NEW job \in Job, fetchJob' = [fetchJob EXCEPT ![m] = job],
           NEW row \in MediaRow, mediaRow' = [mediaRow EXCEPT ![m] = row],
           NEW said \in {<<>>, <<"media.ready">>, <<"media.failed">>},
           announced' = [announced EXCEPT ![m] = said],
           UNCHANGED <<object, upload, reader>>,
           c.at # "idle" => c.media \in Fetched,
           c.at \notin {"put", "create"},
           row.state = "ready" => row.body = object[m] /\ object[m] \in Bodies,
           mediaRow[m].state = "ready" => row.state = "ready" /\ row.body = mediaRow[m].body,
           row.state # "absent",
           job.state \in {"pending", "fetching"} => said = <<>>,
           said = <<"media.ready">> => row.state = "ready" /\ job.state = "ready",
           said = <<"media.failed">> => job.state = "failed"
    PROVE  MediaInv'
<1>1. /\ fetcher'[w] = c /\ \A v \in FetchWorkers \ {w} : fetcher'[v] = fetcher[v]
  BY DEF Moves, MediaInv, MediaTypeOK
<1>2. m \in Media /\ Fetched \cap Uploaded = {}
  BY MediaConstants DEF Media
<1>3. /\ fetchJob'[m] = job /\ mediaRow'[m] = row /\ announced'[m] = said
      /\ \A x \in Fetched \ {m} : fetchJob'[x] = fetchJob[x] /\ announced'[x] = announced[x]
      /\ \A x \in Media \ {m} : mediaRow'[x] = mediaRow[x]
  BY <1>2 DEF MediaInv, MediaTypeOK
<1>4. MediaTypeOK'
  BY <1>2 DEF MediaInv, MediaTypeOK, Moves
<1>5. \A v \in FetchWorkers : ClaimHolds(v)'
  BY <1>1 DEF MediaInv, ClaimHolds
<1>6. ASSUME NEW x \in Fetched
      PROVE  FetchedHolds(x)'
  <2>1. CASE x = m
    BY <1>3, <2>1 DEF MediaInv, FetchedHolds
  <2>2. CASE x # m
    BY <1>3, <2>2 DEF MediaInv, FetchedHolds, Media
  <2> QED
    BY <2>1, <2>2
<1>7. ASSUME NEW x \in Uploaded
      PROVE  UploadHolds(x)'
  <2>1. x # m /\ x \in Media
    BY <1>2 DEF Media
  <2> QED
    BY <1>3, <2>1 DEF MediaInv, UploadHolds
<1>8. ASSUME NEW x \in Media
      PROVE  ReaderHolds(x)'
  <2>1. CASE x = m
    BY <1>3, <2>1 DEF MediaInv, ReaderHolds
  <2>2. CASE x # m
    BY <1>3, <2>2 DEF MediaInv, ReaderHolds
  <2> QED
    BY <2>1, <2>2
<1> QED
  BY <1>4, <1>5, <1>6, <1>7, <1>8 DEF MediaInv

(* What is read of a fetched media before it is written. *)
LEMMA FetchedRead ==
    ASSUME MediaInv, NEW m \in Fetched
    PROVE  /\ m \in Media /\ fetchJob[m] \in Job /\ mediaRow[m] \in MediaRow
           /\ announced[m] \in {<<>>, <<"media.ready">>, <<"media.failed">>} /\ FetchedHolds(m)
           /\ fetchJob = [fetchJob EXCEPT ![m] = fetchJob[m]]
           /\ mediaRow = [mediaRow EXCEPT ![m] = mediaRow[m]]
           /\ announced = [announced EXCEPT ![m] = announced[m]]
BY DEF MediaInv, MediaTypeOK, Media

(* The empty claim has its type. *)
LEMMA NoClaimIsClaim == NoClaim \in Claim /\ NoClaim.at = "idle"
BY DEF NoClaim, Claim, Contents

(* The row is written after the object. *)
LEMMA CreateMetadataKeeps ==
    ASSUME MediaInv, NEW w \in FetchWorkers, CreateMetadata(w)
    PROVE  MediaInv'
<1> DEFINE m == fetcher[w].media
           body == fetcher[w].body
           c == [fetcher[w] EXCEPT !.at = "complete"]
           row == [state |-> "ready", body |-> body]
<1>1. /\ fetcher[w] \in Claim /\ fetcher[w].at = "create" /\ m \in Fetched /\ body \in Bodies
      /\ object[m] = body
  BY DEF MediaInv, MediaTypeOK, ClaimHolds, CreateMetadata, FetchClaim
<1>2. CASE UNCHANGED mediaRow /\ Fails(w, FALSE)
  BY <1>1, <1>2, FailsKeeps DEF CreateMetadata
<1>3. CASE mediaRow[m].state \in {"pending", "failed"}
  <2>1. mediaRow' = [mediaRow EXCEPT ![m] = row] /\ Moves(w, c)
    BY <1>3 DEF CreateMetadata, FetchClaim
  <2>2. c \in Claim /\ c.at = "complete" /\ c.media = m
    BY <1>1 DEF Claim
  <2>3. row \in MediaRow /\ row.state = "ready" /\ row.body = body
    BY <1>1 DEF MediaRow, Contents
  <2>4. UNCHANGED <<fetchJob, object, upload, announced, reader>>
    BY DEF CreateMetadata
  <2> HIDE DEF m, c, row, body
  <2>5. /\ fetchJob[m] \in Job /\ announced[m] \in {<<>>, <<"media.ready">>, <<"media.failed">>}
        /\ FetchedHolds(m)
        /\ fetchJob' = [fetchJob EXCEPT ![m] = fetchJob[m]]
        /\ announced' = [announced EXCEPT ![m] = announced[m]]
    BY <1>1, <2>4, FetchedRead
  <2>6. fetchJob[m].state \in {"pending", "fetching"} => announced[m] = <<>>
    BY <2>5 DEF FetchedHolds
  <2>7. /\ c.at # "idle" => c.media \in Fetched
        /\ c.at \notin {"put", "create"}
    BY <1>1, <2>2
  <2>8. /\ row.state = "ready" => row.body = object[m] /\ object[m] \in Bodies
        /\ mediaRow[m].state = "ready" => row.state = "ready" /\ row.body = mediaRow[m].body
        /\ row.state # "absent"
    BY <1>1, <1>3, <2>3
  <2>9. /\ announced[m] = <<"media.ready">> => row.state = "ready" /\ fetchJob[m].state = "ready"
        /\ announced[m] = <<"media.failed">> => fetchJob[m].state = "failed"
    BY <2>3, <2>5 DEF FetchedHolds
  <2> QED
    BY <1>1, <2>1, <2>2, <2>3, <2>4, <2>5, <2>6, <2>7, <2>8, <2>9, FetchedWritten
<1> QED
  BY <1>2, <1>3 DEF CreateMetadata, FetchClaim

(* An imported object is read back. *)
LEMMA VerifyKeeps ==
    ASSUME MediaInv, NEW w \in FetchWorkers, Verify(w)
    PROVE  MediaInv'
<1> DEFINE c == [fetcher[w] EXCEPT !.at = "complete"]
<1>1. fetcher[w] \in Claim /\ fetcher[w].at = "verify" /\ fetcher[w].media \in Fetched
  BY DEF MediaInv, MediaTypeOK, ClaimHolds, Verify, FetchClaim
<1>2. c \in Claim /\ c.at = "complete" /\ c.media = fetcher[w].media
  BY <1>1 DEF Claim
<1>3. Moves(w, c) \/ Fails(w, TRUE) \/ Fails(w, FALSE)
  BY DEF Verify, FetchClaim
<1>4. UNCHANGED <<fetchJob, mediaRow, object, upload, announced, reader>>
  BY DEF Verify
<1> HIDE DEF c
<1>5. CASE Moves(w, c)
  BY <1>1, <1>2, <1>4, <1>5, ClaimWritten
<1>6. CASE Fails(w, TRUE) \/ Fails(w, FALSE)
  BY <1>1, <1>4, <1>6, FailsKeeps
<1> QED
  BY <1>3, <1>5, <1>6

(* A job is taken: its row may be ready from a worker that crashed. *)
LEMMA ClaimFetchKeeps ==
    ASSUME MediaInv, NEW w \in FetchWorkers, NEW m \in Fetched, ClaimFetch(w, m)
    PROVE  MediaInv'
<1> DEFINE imported == mediaRow[m].state = "ready"
           n == fetchJob[m].attempt + 1
           at == IF imported THEN "verify" ELSE "fetch"
           body == IF imported THEN mediaRow[m].body ELSE NoObject
           c == [at |-> at, media |-> m, attempt |-> n, terminal |-> FALSE, body |-> body]
           job == [state |-> "fetching", attempt |-> n, owner |-> w, expired |-> FALSE]
<1>1. /\ fetchJob[m] \in Job /\ mediaRow[m] \in MediaRow
      /\ announced[m] \in {<<>>, <<"media.ready">>, <<"media.failed">>} /\ FetchedHolds(m)
      /\ mediaRow = [mediaRow EXCEPT ![m] = mediaRow[m]]
      /\ announced = [announced EXCEPT ![m] = announced[m]]
  BY FetchedRead
<1>2. n \in Nat /\ at \in {"verify", "fetch"} /\ body \in Contents
  BY <1>1 DEF Job, MediaRow, Contents
<1>3. fetchJob' = [fetchJob EXCEPT ![m] = job] /\ Moves(w, c)
  BY DEF ClaimFetch
<1> HIDE DEF n, at, body
<1>4. c \in Claim /\ c.at = at /\ c.media = m /\ job \in Job /\ job.state = "fetching"
  BY <1>2 DEF Claim, Job
<1>5. announced[m] = <<>>
  BY <1>1 DEF ClaimFetch, Fetchable, FetchedHolds
<1>6. UNCHANGED <<mediaRow, object, upload, announced, reader>>
  BY DEF ClaimFetch
<1>7. /\ mediaRow[m].state = "ready" => mediaRow[m].body = object[m] /\ object[m] \in Bodies
      /\ mediaRow[m].state # "absent"
  BY <1>1 DEF FetchedHolds
<1>8. mediaRow' = [mediaRow EXCEPT ![m] = mediaRow[m]] /\ announced' = [announced EXCEPT ![m] = announced[m]]
  BY <1>1, <1>6
<1> HIDE DEF c, job
<1>9. /\ c.at # "idle" => c.media \in Fetched
      /\ c.at \notin {"put", "create"}
  BY <1>2, <1>4
<1>10. announced[m] = <<"media.ready">> => mediaRow[m].state = "ready"
  BY <1>1 DEF FetchedHolds
<1> QED
  BY <1>1, <1>3, <1>4, <1>5, <1>6, <1>7, <1>8, <1>9, <1>10, FetchedWritten

(* The verdict of a fetch that succeeded. *)
LEMMA CompleteReadyKeeps ==
    ASSUME MediaInv, NEW w \in FetchWorkers, CompleteReady(w)
    PROVE  MediaInv'
<1> DEFINE m == fetcher[w].media
           job == [fetchJob[m] EXCEPT !.state = "ready", !.owner = NoFetcher]
<1>1. fetcher[w].at = "complete" /\ m \in Fetched
  BY DEF MediaInv, ClaimHolds, CompleteReady, FetchClaim
<1>2. Moves(w, NoClaim) /\ UNCHANGED <<mediaRow, object, upload, reader>>
  BY DEF CompleteReady
<1>3. CASE UNCHANGED <<fetchJob, announced>>
  BY <1>2, <1>3, NoClaimIsClaim, ClaimWritten
<1>4. CASE HoldsClaim(w) /\ mediaRow[m] = [state |-> "ready", body |-> fetcher[w].body]
  <2>1. /\ fetchJob[m] \in Job /\ mediaRow[m] \in MediaRow /\ FetchedHolds(m)
        /\ mediaRow = [mediaRow EXCEPT ![m] = mediaRow[m]]
    BY <1>1, FetchedRead
  <2>2. announced[m] = <<>> /\ mediaRow[m].state = "ready"
    BY <1>4, <2>1 DEF HoldsClaim, FetchClaim, FetchedHolds
  <2>3. /\ fetchJob' = [fetchJob EXCEPT ![m].state = "ready", ![m].owner = NoFetcher]
        /\ announced' = [announced EXCEPT ![m] = Append(announced[m], "media.ready")]
    BY <1>1, <1>4 DEF CompleteReady, FetchClaim, MediaInv, MediaTypeOK
  <2>4. announced' = [announced EXCEPT ![m] = <<"media.ready">>]
    BY <2>2, <2>3
  <2>5. fetchJob' = [fetchJob EXCEPT ![m] = job]
    BY <1>1, <2>1, <2>3 DEF MediaInv, MediaTypeOK
  <2>6. job \in Job /\ job.state = "ready"
    BY <2>1 DEF Job
  <2>7. mediaRow' = [mediaRow EXCEPT ![m] = mediaRow[m]]
    BY <1>2, <2>1
  <2>8. mediaRow[m].body = object[m] /\ object[m] \in Bodies
    BY <2>1, <2>2 DEF FetchedHolds
  <2> HIDE DEF m, job
  <2> QED
    BY <1>1, <1>2, <2>1, <2>2, <2>4, <2>5, <2>6, <2>7, <2>8, NoClaimIsClaim, FetchedWritten
<1> QED
  BY <1>3, <1>4 DEF CompleteReady, FetchClaim

(* The verdict of a fetch that failed, or another try. *)
LEMMA CompleteFailedKeeps ==
    ASSUME MediaInv, NEW w \in FetchWorkers, CompleteFailed(w)
    PROVE  MediaInv'
<1> DEFINE m == fetcher[w].media
           gone == [fetchJob[m] EXCEPT !.state = "failed", !.owner = NoFetcher]
           again == [fetchJob[m] EXCEPT !.state = "pending", !.owner = NoFetcher]
           state == IF mediaRow[m].state = "ready" THEN "ready" ELSE "failed"
           row == [mediaRow[m] EXCEPT !.state = state]
<1>1. fetcher[w].at = "fail" /\ m \in Fetched
  BY DEF MediaInv, ClaimHolds, CompleteFailed, FetchClaim
<1>2. Moves(w, NoClaim) /\ UNCHANGED <<object, upload, reader>>
  BY DEF CompleteFailed
<1>3. /\ fetchJob[m] \in Job /\ mediaRow[m] \in MediaRow /\ FetchedHolds(m) /\ m \in Media
      /\ mediaRow = [mediaRow EXCEPT ![m] = mediaRow[m]]
      /\ announced = [announced EXCEPT ![m] = announced[m]]
  BY <1>1, FetchedRead
<1>4. CASE UNCHANGED <<fetchJob, mediaRow, announced>>
  BY <1>2, <1>4, NoClaimIsClaim, ClaimWritten
<1>5. CASE HoldsClaim(w) /\ GivesUp(fetcher[w])
  <2>1. announced[m] = <<>>
    BY <1>3, <1>5 DEF HoldsClaim, FetchClaim, FetchedHolds
  <2>2. /\ fetchJob' = [fetchJob EXCEPT ![m].state = "failed", ![m].owner = NoFetcher]
        /\ mediaRow' = [mediaRow EXCEPT ![m].state = IF @ = "ready" THEN @ ELSE "failed"]
        /\ announced' = [announced EXCEPT ![m] = Append(announced[m], "media.failed")]
    BY <1>1, <1>5 DEF CompleteFailed, FetchClaim, MediaInv, MediaTypeOK
  <2>3. announced' = [announced EXCEPT ![m] = <<"media.failed">>]
    BY <2>1, <2>2
  <2>4. fetchJob' = [fetchJob EXCEPT ![m] = gone]
    BY <1>1, <1>3, <2>2 DEF MediaInv, MediaTypeOK
  <2>5. gone \in Job /\ gone.state = "failed"
    BY <1>3 DEF Job
  <2>6. state \in {"ready", "failed"} /\ (mediaRow[m].state = "ready" <=> state = "ready")
    OBVIOUS
  <2>7. mediaRow' = [mediaRow EXCEPT ![m].state = state]
    <3>1. mediaRow[m].state = "ready" => state = mediaRow[m].state
      OBVIOUS
    <3> QED
      BY <1>3, <2>2 DEF MediaInv, MediaTypeOK
  <2> HIDE DEF state
  <2>8. mediaRow' = [mediaRow EXCEPT ![m] = row]
    BY <1>3, <2>7 DEF MediaInv, MediaTypeOK
  <2>9. row \in MediaRow /\ row.state = state /\ row.body = mediaRow[m].body
    BY <1>3, <2>6 DEF MediaRow
  <2>10. state = "ready" => mediaRow[m].body = object[m] /\ object[m] \in Bodies
    BY <1>3, <2>6 DEF FetchedHolds
  <2> HIDE DEF m, gone, row
  <2> QED
    BY <1>1, <1>2, <2>3, <2>4, <2>5, <2>6, <2>8, <2>9, <2>10, NoClaimIsClaim, FetchedWritten
<1>6. CASE HoldsClaim(w) /\ ~GivesUp(fetcher[w])
  <2>1. announced[m] = <<>>
    BY <1>3, <1>6 DEF HoldsClaim, FetchClaim, FetchedHolds
  <2>2. /\ fetchJob' = [fetchJob EXCEPT ![m].state = "pending", ![m].owner = NoFetcher]
        /\ UNCHANGED <<mediaRow, announced>>
    BY <1>1, <1>6 DEF CompleteFailed, FetchClaim
  <2>3. fetchJob' = [fetchJob EXCEPT ![m] = again]
    BY <1>1, <1>3, <2>2 DEF MediaInv, MediaTypeOK
  <2>4. again \in Job /\ again.state = "pending"
    BY <1>3 DEF Job
  <2>5. mediaRow' = [mediaRow EXCEPT ![m] = mediaRow[m]] /\ announced' = [announced EXCEPT ![m] = announced[m]]
    BY <1>3, <2>2
  <2>6. /\ mediaRow[m].state = "ready" => mediaRow[m].body = object[m] /\ object[m] \in Bodies
        /\ mediaRow[m].state # "absent"
    BY <1>3 DEF FetchedHolds
  <2> HIDE DEF m, again
  <2> QED
    BY <1>1, <1>2, <1>3, <2>1, <2>3, <2>4, <2>5, <2>6, NoClaimIsClaim, FetchedWritten
<1> QED
  BY <1>4, <1>5, <1>6 DEF CompleteFailed, FetchClaim

(* A worker stops, perhaps while it was writing the object. *)
LEMMA WorkerStopsKeeps ==
    ASSUME MediaInv, NEW w \in FetchWorkers, WorkerStops(w)
    PROVE  MediaInv'
<1> DEFINE m == fetcher[w].media
<1>1. fetcher[w].at # "idle" /\ m \in Fetched
  BY DEF MediaInv, ClaimHolds, WorkerStops, FetchClaim
<1>2. Moves(w, NoClaim) /\ UNCHANGED <<fetchJob, mediaRow, upload, announced, reader>>
  BY DEF WorkerStops
<1>3. CASE UNCHANGED object
  BY <1>2, <1>3, NoClaimIsClaim, ClaimWritten
<1>4. CASE object[m] = NoObject /\ object' = [object EXCEPT ![m] = Partial]
  <2>1. m \in Media /\ Fetched \cap Uploaded = {} /\ object \in [Media -> Contents] /\ Partial \in Contents
    BY <1>1, MediaConstants DEF Media, MediaInv, MediaTypeOK, Contents
  <2>2. object'[m] = Partial /\ \A x \in Media \ {m} : object'[x] = object[x]
    BY <1>4, <2>1
  <2>3. fetcher'[w] = NoClaim /\ \A v \in FetchWorkers \ {w} : fetcher'[v] = fetcher[v]
    BY <1>2 DEF Moves, MediaInv, MediaTypeOK
  <2>4. MediaTypeOK'
    BY <1>2, <1>4, <2>1, NoClaimIsClaim DEF Moves, MediaInv, MediaTypeOK
  <2> HIDE DEF m
  <2>5. ASSUME NEW v \in FetchWorkers
        PROVE  ClaimHolds(v)'
    <3>1. CASE v = w
      BY <2>3, <3>1, NoClaimIsClaim DEF ClaimHolds
    <3>2. CASE v # w
      <4>1. ClaimHolds(v) /\ fetcher'[v] = fetcher[v]
        BY <2>3, <3>2 DEF MediaInv
      <4>2. ASSUME fetcher[v].at = "create"
            PROVE  object'[fetcher[v].media] = fetcher[v].body
        <5>1. /\ object[fetcher[v].media] = fetcher[v].body /\ fetcher[v].body \in Bodies
              /\ fetcher[v].media \in Media
          BY <4>1, <4>2 DEF ClaimHolds, Media
        <5>2. fetcher[v].media # m
          BY <1>4, <5>1, MediaConstants
        <5> QED
          BY <2>2, <5>1, <5>2
      <4> QED
        BY <4>1, <4>2 DEF ClaimHolds
    <3> QED
      BY <3>1, <3>2
  <2>6. ASSUME NEW x \in Fetched
        PROVE  FetchedHolds(x)'
    <3>1. x \in Media /\ FetchedHolds(x)
      BY DEF Media, MediaInv
    <3>2. CASE x = m
      <4>1. mediaRow[m].state # "ready"
        BY <1>4, <3>1, <3>2, MediaConstants DEF FetchedHolds
      <4> QED
        BY <1>2, <3>1, <3>2, <4>1 DEF FetchedHolds
    <3>3. CASE x # m
      BY <1>2, <2>2, <3>1, <3>3 DEF FetchedHolds
    <3> QED
      BY <3>2, <3>3
  <2>7. ASSUME NEW x \in Uploaded
        PROVE  UploadHolds(x)'
    <3>1. x \in Media /\ UploadHolds(x) /\ x # m
      BY <1>1, <2>1 DEF Media, MediaInv, m
    <3> QED
      BY <1>2, <2>2, <3>1 DEF UploadHolds
  <2>8. \A x \in Media : ReaderHolds(x)'
    BY <1>2 DEF MediaInv, ReaderHolds
  <2> QED
    BY <2>4, <2>5, <2>6, <2>7, <2>8 DEF MediaInv
<1> QED
  BY <1>3, <1>4 DEF WorkerStops, FetchClaim

(* A claim expires: its job stays open. *)
LEMMA ClaimExpiryKeeps ==
    ASSUME MediaInv, NEW m \in Fetched, ClaimExpiry(m)
    PROVE  MediaInv'
<1> DEFINE job == [fetchJob[m] EXCEPT !.expired = TRUE]
<1>1. fetchJob[m] \in Job /\ fetchJob \in [Fetched -> Job]
  BY DEF MediaInv, MediaTypeOK
<1>2. job \in Job /\ job.state = fetchJob[m].state
  BY <1>1 DEF Job
<1>3. fetchJob' = [fetchJob EXCEPT ![m] = job]
  BY <1>1 DEF ClaimExpiry
<1> HIDE DEF job
<1>4. fetchJob' \in [Fetched -> Job] /\ \A x \in Fetched : fetchJob'[x].state = fetchJob[x].state
  BY <1>1, <1>2, <1>3
<1> QED
  BY <1>4 DEF ClaimExpiry, MediaInv, MediaTypeOK, ReaderHolds, FetchedHolds, UploadHolds, ClaimHolds

(* An upload moves on and its object and its row change with it. *)
LEMMA UploadWritten ==
    ASSUME MediaInv, NEW m \in Uploaded, NEW u \in Sent, upload' = [upload EXCEPT ![m] = u],
           NEW row \in MediaRow, mediaRow' = [mediaRow EXCEPT ![m] = row],
           NEW content \in Contents, object' = [object EXCEPT ![m] = content],
           UNCHANGED <<fetchJob, fetcher, announced, reader>>,
           u.at \in {"none", "spooled", "stored"} => row.state = "absent",
           u.at \in {"spooled", "stored", "returned"} => u.body \in Bodies,
           u.at \in {"stored", "returned"} => content = u.body,
           u.at \in {"none", "spooled"} => content = NoObject,
           u.at = "returned" => row = [state |-> "ready", body |-> content],
           row.state = "ready" => content \in {NoObject, row.body},
           mediaRow[m].state # "ready" \/ row = mediaRow[m]
    PROVE  MediaInv'
<1>1. m \in Media /\ Fetched \cap Uploaded = {}
  BY MediaConstants DEF Media
<1>2. /\ upload'[m] = u /\ mediaRow'[m] = row /\ object'[m] = content
      /\ \A x \in Uploaded \ {m} : upload'[x] = upload[x]
      /\ \A x \in Media \ {m} : mediaRow'[x] = mediaRow[x] /\ object'[x] = object[x]
  BY <1>1 DEF MediaInv, MediaTypeOK
<1>3. MediaTypeOK'
  BY <1>1 DEF MediaInv, MediaTypeOK
<1>4. ASSUME NEW x \in Uploaded
      PROVE  UploadHolds(x)'
  <2>1. CASE x = m
    BY <1>2, <2>1 DEF UploadHolds
  <2>2. CASE x # m
    BY <1>2, <2>2 DEF MediaInv, UploadHolds, Media
  <2> QED
    BY <2>1, <2>2
<1>5. ASSUME NEW x \in Fetched
      PROVE  FetchedHolds(x)'
  <2>1. x # m /\ x \in Media
    BY <1>1 DEF Media
  <2> QED
    BY <1>2, <2>1 DEF MediaInv, FetchedHolds
<1>6. ASSUME NEW w \in FetchWorkers
      PROVE  ClaimHolds(w)'
  <2>1. ClaimHolds(w) /\ fetcher'[w] = fetcher[w]
    BY DEF MediaInv
  <2>2. ASSUME fetcher[w].at = "create"
        PROVE  object'[fetcher[w].media] = object[fetcher[w].media]
    <3>1. fetcher[w].media \in Fetched
      BY <2>1, <2>2 DEF ClaimHolds
    <3>2. fetcher[w].media \in Media \ {m}
      BY <1>1, <3>1 DEF Media
    <3> QED
      BY <1>2, <3>2
  <2> QED
    BY <2>1, <2>2 DEF ClaimHolds
<1>7. ASSUME NEW x \in Media
      PROVE  ReaderHolds(x)'
  <2>1. CASE x = m
    BY <1>2, <2>1 DEF MediaInv, ReaderHolds
  <2>2. CASE x # m
    BY <1>2, <2>2 DEF MediaInv, ReaderHolds
  <2> QED
    BY <2>1, <2>2
<1> QED
  BY <1>3, <1>4, <1>5, <1>6, <1>7 DEF MediaInv

(* What is read of an upload before it is written. *)
LEMMA UploadRead ==
    ASSUME MediaInv, NEW m \in Uploaded
    PROVE  /\ m \in Media /\ upload[m] \in Sent /\ mediaRow[m] \in MediaRow /\ object[m] \in Contents
           /\ UploadHolds(m)
           /\ mediaRow = [mediaRow EXCEPT ![m] = mediaRow[m]]
           /\ object = [object EXCEPT ![m] = object[m]]
BY DEF MediaInv, MediaTypeOK, Media

(* An upload is inspected. *)
LEMMA UploadMediaKeeps ==
    ASSUME MediaInv, NEW m \in Uploaded, NEW sent \in Bodies \cup {Unacceptable}, UploadMedia(m, sent)
    PROVE  MediaInv'
<1> DEFINE at == IF sent = Unacceptable THEN "refused" ELSE "spooled"
           u == [at |-> at, body |-> sent]
<1>1. /\ m \in Media /\ mediaRow[m] \in MediaRow /\ object[m] \in Contents /\ UploadHolds(m)
      /\ mediaRow = [mediaRow EXCEPT ![m] = mediaRow[m]]
      /\ object = [object EXCEPT ![m] = object[m]]
  BY UploadRead
<1>2. at \in {"refused", "spooled"} /\ (at = "spooled" => sent \in Bodies)
  OBVIOUS
<1>3. upload' = [upload EXCEPT ![m] = u]
  BY DEF UploadMedia
<1> HIDE DEF at
<1>4. u \in Sent /\ u.at = at /\ u.body = sent
  BY <1>2 DEF Sent, Contents
<1>5. UNCHANGED <<mediaRow, object, fetchJob, fetcher, announced, reader>>
  BY DEF UploadMedia
<1>6. mediaRow' = [mediaRow EXCEPT ![m] = mediaRow[m]] /\ object' = [object EXCEPT ![m] = object[m]]
  BY <1>1, <1>5
<1>7. mediaRow[m].state = "absent" /\ object[m] = NoObject
  BY <1>1 DEF UploadHolds, UploadMedia
<1> HIDE DEF u
<1>8. /\ u.at \in {"none", "spooled", "stored"} => mediaRow[m].state = "absent"
      /\ u.at \in {"spooled", "stored", "returned"} => u.body \in Bodies
      /\ u.at \notin {"stored", "returned"} /\ object[m] = NoObject
  BY <1>2, <1>4, <1>7
<1>9. mediaRow[m] \in MediaRow /\ object[m] \in Contents /\ mediaRow[m].state # "ready"
  BY <1>1, <1>7
<1>10. UNCHANGED <<fetchJob, fetcher, announced, reader>>
  BY <1>5
<1> QED
  BY <1>3, <1>4, <1>6, <1>8, <1>9, <1>10, UploadWritten

(* The object of an upload is stored. *)
LEMMA UploadObjectKeeps ==
    ASSUME MediaInv, NEW m \in Uploaded, UploadObject(m)
    PROVE  MediaInv'
<1> DEFINE u == [upload[m] EXCEPT !.at = "stored"]
<1>1. /\ m \in Media /\ mediaRow[m] \in MediaRow /\ upload[m] \in Sent /\ UploadHolds(m)
      /\ mediaRow = [mediaRow EXCEPT ![m] = mediaRow[m]]
  BY UploadRead
<1>2. upload[m].body \in Bodies /\ upload[m].body \in Contents /\ mediaRow[m].state = "absent"
  BY <1>1 DEF UploadHolds, UploadObject, Contents
<1>3. u \in Sent /\ u.at = "stored" /\ u.body = upload[m].body
  BY <1>1 DEF Sent
<1>4. upload' = [upload EXCEPT ![m] = u] /\ object' = [object EXCEPT ![m] = upload[m].body]
  BY <1>1 DEF UploadObject, MediaInv, MediaTypeOK
<1>5. UNCHANGED <<mediaRow, fetchJob, fetcher, announced, reader>>
  BY DEF UploadObject
<1>6. mediaRow' = [mediaRow EXCEPT ![m] = mediaRow[m]]
  BY <1>1, <1>5
<1> HIDE DEF u
<1> QED
  BY <1>1, <1>2, <1>3, <1>4, <1>5, <1>6, UploadWritten

(* The row of an upload is written, or its object deleted. *)
LEMMA UploadMetadataKeeps ==
    ASSUME MediaInv, NEW m \in Uploaded, UploadMetadata(m)
    PROVE  MediaInv'
<1> DEFINE u == [upload[m] EXCEPT !.at = "returned"]
           x == [upload[m] EXCEPT !.at = "refused"]
           row == [state |-> "ready", body |-> upload[m].body]
<1>1. /\ m \in Media /\ mediaRow[m] \in MediaRow /\ upload[m] \in Sent /\ UploadHolds(m)
      /\ mediaRow = [mediaRow EXCEPT ![m] = mediaRow[m]]
      /\ object = [object EXCEPT ![m] = object[m]]
  BY UploadRead
<1>2. upload[m].body \in Bodies /\ upload[m].body \in Contents /\ object[m] = upload[m].body
      /\ mediaRow[m].state = "absent"
  BY <1>1 DEF UploadHolds, UploadMetadata, Contents
<1>3. /\ u \in Sent /\ u.at = "returned" /\ u.body = upload[m].body
      /\ x \in Sent /\ x.at = "refused"
  BY <1>1 DEF Sent
<1>4. row \in MediaRow /\ row.state = "ready" /\ row.body = upload[m].body /\ NoObject \in Contents
  BY <1>2 DEF MediaRow, Contents
<1>5. UNCHANGED <<fetchJob, fetcher, announced, reader>>
  BY DEF UploadMetadata
<1>6. upload \in [Uploaded -> Sent]
  BY DEF MediaInv, MediaTypeOK
<1>7. CASE /\ mediaRow' = [mediaRow EXCEPT ![m] = row]
           /\ upload' = [upload EXCEPT ![m].at = "returned"]
           /\ UNCHANGED object
  <2>1. upload' = [upload EXCEPT ![m] = u]
    BY <1>6, <1>7
  <2>2. object' = [object EXCEPT ![m] = object[m]] /\ object[m] \in Contents
    BY <1>1, <1>2, <1>7
  <2>3. row = [state |-> "ready", body |-> object[m]]
    BY <1>2
  <2>4. /\ u.at = "returned" /\ u \in Sent /\ u.body \in Bodies /\ object[m] = u.body
        /\ row \in MediaRow /\ object[m] = row.body
    BY <1>2, <1>3, <1>4
  <2>5. mediaRow[m].state # "ready" /\ mediaRow' = [mediaRow EXCEPT ![m] = row]
    BY <1>2, <1>7
  <2> HIDE DEF u, row
  <2> QED
    BY <1>5, <2>1, <2>2, <2>3, <2>4, <2>5, UploadWritten
<1>8. CASE /\ UNCHANGED mediaRow \/ mediaRow' = [mediaRow EXCEPT ![m] = row]
           /\ object' = [object EXCEPT ![m] = NoObject]
           /\ upload' = [upload EXCEPT ![m].at = "refused"]
  <2>1. upload' = [upload EXCEPT ![m] = x]
    BY <1>6, <1>8
  <2>2. CASE UNCHANGED mediaRow
    <3>1. mediaRow' = [mediaRow EXCEPT ![m] = mediaRow[m]]
      BY <1>1, <2>2
    <3> HIDE DEF x
    <3> QED
      BY <1>1, <1>2, <1>3, <1>4, <1>5, <1>8, <2>1, <3>1, UploadWritten
  <2>3. CASE mediaRow' = [mediaRow EXCEPT ![m] = row]
    <3> HIDE DEF x, row
    <3> QED
      BY <1>2, <1>3, <1>4, <1>5, <1>8, <2>1, <2>3, UploadWritten
  <2> QED
    BY <1>8, <2>2, <2>3
<1> QED
  BY <1>7, <1>8 DEF UploadMetadata

(* A reader of a ready row gets its object. *)
LEMMA ReadKeeps ==
    ASSUME MediaInv, NEW m \in Media, GetMedia(m) \/ GetMediaContent(m)
    PROVE  MediaInv'
<1>1. UNCHANGED <<fetchJob, mediaRow, object, fetcher, upload, announced>>
  BY DEF GetMedia, GetMediaContent
<1>2. PICK answer : /\ reader' = [reader EXCEPT ![m] = answer]
                    /\ \/ answer \in {Unread, Offered, NotFound}
                       \/ mediaRow[m].state = "ready" /\ answer \in Bodies /\ answer = object[m]
                       \/ mediaRow[m].state = "ready" /\ answer = Unavailable /\ object[m] \notin Bodies
  <2>1. CASE GetMedia(m)
    BY <2>1 DEF GetMedia
  <2>2. CASE GetMediaContent(m)
    BY <2>2 DEF GetMediaContent
  <2> QED
    BY <2>1, <2>2
<1>3. reader \in [Media -> Bodies \cup {Unread, Offered, Unavailable, NotFound}]
  BY DEF MediaInv, MediaTypeOK
<1>4. reader'[m] = answer /\ \A x \in Media \ {m} : reader'[x] = reader[x]
  BY <1>2, <1>3
<1>5. MediaTypeOK'
  BY <1>1, <1>2, <1>3 DEF MediaInv, MediaTypeOK
<1>6. answer \in Bodies => mediaRow[m].state = "ready" /\ answer = mediaRow[m].body
  <2> SUFFICES ASSUME answer \in Bodies
               PROVE  mediaRow[m].state = "ready" /\ answer = mediaRow[m].body
    OBVIOUS
  <2>1. mediaRow[m].state = "ready" /\ answer = object[m]
    BY <1>2, MediaConstants
  <2>2. CASE m \in Fetched
    BY <2>1, <2>2 DEF MediaInv, FetchedHolds
  <2>3. CASE m \in Uploaded
    <3>1. object[m] \in {NoObject, mediaRow[m].body} /\ object[m] # NoObject
      BY <2>1, <2>3, MediaConstants DEF MediaInv, UploadHolds
    <3> QED
      BY <2>1, <3>1
  <2> QED
    BY <2>2, <2>3 DEF Media
<1>7. m \in Fetched => answer # Unavailable
  <2> SUFFICES ASSUME m \in Fetched, answer = Unavailable
               PROVE  FALSE
    OBVIOUS
  <2>1. Unavailable \notin Bodies /\ Unavailable \notin {Unread, Offered, NotFound}
    BY MediaConstants DEF Unavailable, Unread, Offered, NotFound
  <2>2. mediaRow[m].state = "ready" /\ object[m] \notin Bodies
    BY <1>2, <2>1
  <2> QED
    BY <2>2 DEF MediaInv, FetchedHolds
<1>8. ASSUME NEW x \in Fetched
      PROVE  FetchedHolds(x)'
  BY <1>1, <1>4, <1>7 DEF MediaInv, FetchedHolds, Media
<1>9. ASSUME NEW x \in Media
      PROVE  ReaderHolds(x)'
  <2>1. CASE x = m
    BY <1>1, <1>4, <1>6, <2>1 DEF ReaderHolds
  <2>2. CASE x # m
    BY <1>1, <1>4, <2>2 DEF MediaInv, ReaderHolds
  <2> QED
    BY <2>1, <2>2
<1> QED
  BY <1>1, <1>5, <1>8, <1>9 DEF MediaInv, UploadHolds, ClaimHolds

(* Nothing is stored or read at first. *)
LEMMA MediaInitKeeps == MediaInit => MediaInv
<1> SUFFICES ASSUME MediaInit
             PROVE  MediaInv
  OBVIOUS
<1>1. /\ Unread \notin Bodies /\ NoObject \in Contents /\ Fetched \cap Uploaded = {}
  BY MediaConstants DEF Contents
<1>2. MediaTypeOK
  <2>1. fetchJob \in [Fetched -> Job]
    BY DEF MediaInit, Job
  <2>2. mediaRow \in [Media -> MediaRow]
    BY <1>1 DEF MediaInit, MediaRow
  <2>3. upload \in [Uploaded -> Sent]
    BY <1>1 DEF MediaInit, Sent
  <2> QED
    BY <1>1, <2>1, <2>2, <2>3, NoClaimIsClaim DEF MediaInit, MediaTypeOK
<1>3. \A m \in Media : ReaderHolds(m)
  BY <1>1 DEF MediaInit, ReaderHolds
<1>4. ASSUME NEW m \in Fetched
      PROVE  FetchedHolds(m)
  <2>1. m \in Media /\ mediaRow[m] = [state |-> "pending", body |-> NoObject] /\ reader[m] = Unread
    BY DEF MediaInit, Media
  <2> QED
    BY <2>1 DEF MediaInit, FetchedHolds, Unread, Unavailable
<1>5. ASSUME NEW m \in Uploaded
      PROVE  UploadHolds(m)
  <2>1. m \in Media /\ mediaRow[m] = [state |-> "absent", body |-> NoObject] /\ object[m] = NoObject
    BY <1>1 DEF MediaInit, Media
  <2> QED
    BY <2>1 DEF MediaInit, UploadHolds
<1>6. \A w \in FetchWorkers : ClaimHolds(w)
  BY NoClaimIsClaim DEF MediaInit, ClaimHolds
<1> QED
  BY <1>2, <1>3, <1>4, <1>5, <1>6 DEF MediaInv

(* Every step keeps the invariant. *)
LEMMA MediaStep == MediaInv /\ [MediaNext]_mediaVars => MediaInv'
<1> SUFFICES ASSUME MediaInv, [MediaNext]_mediaVars
             PROVE  MediaInv'
  OBVIOUS
<1>1. CASE UNCHANGED mediaVars
  BY <1>1 DEF mediaVars, MediaInv, MediaTypeOK, ReaderHolds, FetchedHolds, UploadHolds, ClaimHolds
<1>2. ASSUME NEW w \in FetchWorkers, FetchStep(w)
      PROVE  MediaInv'
  BY <1>2, ClaimFetchKeeps, FetchKeeps, PutOrVerifyKeeps, CreateMetadataKeeps, VerifyKeeps,
     CompleteReadyKeeps, CompleteFailedKeeps DEF FetchStep
<1>3. ASSUME NEW m \in Fetched, AbandonedClaimExpires(m) \/ RenewalIsLate(m)
      PROVE  MediaInv'
  BY <1>3, ClaimExpiryKeeps DEF AbandonedClaimExpires, RenewalIsLate
<1> QED
  BY <1>1, <1>2, <1>3, WorkerStopsKeeps, UploadMediaKeeps, UploadObjectKeeps, UploadMetadataKeeps,
     ReadKeeps DEF MediaNext

(* Announced media, for any number of media, workers and downloads: it is found,
   can be read and has the digest of its row, whatever crashed, overlapped or was
   downloaded twice with different bytes; a fetch announces one verdict and media
   that failed is not found; and a reader gets what the row describes. *)
THEOREM MediaAnnouncedIsIntact == MediaSpec => []AnnouncedMediaIsIntact
<1>1. MediaInv => AnnouncedMediaIsIntact
  BY MediaInvSuffices
<1> QED
  BY MediaInitKeeps, MediaStep, <1>1, PTL DEF MediaSpec

-----------------------------------------------------------------------------
(***************************************************************************)
(* Proof that the inspection of an image takes exactly the acceptable      *)
(* files. The inductive invariant says what the walk has seen: the parts   *)
(* before the one it looks at are good, it counted their pictures, and it  *)
(* remembers the last canvas. That it agrees with the definition which     *)
(* does not walk is shown in both directions: a walk to the end has found  *)
(* the file acceptable, and a part of an acceptable file is never refused. *)
(***************************************************************************)

ImageSize == [w : Nat, h : Nat]

\* What is known of a file before anything is read of it.
FileOK(f) ==
    /\ f.type \in {"gif", "webp", "png", "unknown"} /\ f.sound \in BOOLEAN
    /\ f.canvas \in ImageSize /\ f.parts \in Seq(ImagePart) /\ f.length \in Nat

\* The files that may be sent are files.
LEMMA FilesAreFiles == ASSUME NEW f \in ImageFiles PROVE FileOK(f) /\ MaxPixels \in Nat
BY ImageAssumption, Zenon DEF FileOK, ImageSize

\* The comparison with a quotient is the comparison with the product.
LEMMA FitsIsBounded ==
    ASSUME NEW d, d.w \in Nat, d.h \in Nat, MaxPixels \in Nat
    PROVE  Fits(d) <=> Bounded(d)
<1>1. CASE d.h > 0
  <2> DEFINE w == d.w
             h == d.h
             q == MaxPixels \div h
  <2>1. w \in Nat /\ h \in Nat /\ h > 0
    BY <1>1
  <2> HIDE DEF w, h
  <2>2. q \in Nat /\ q * h <= MaxPixels /\ MaxPixels < q * h + h
    BY <2>1
  <2> HIDE DEF q
  <2>3. w <= q => w * h <= MaxPixels
    <3> SUFFICES ASSUME w <= q PROVE w * h <= MaxPixels
      OBVIOUS
    <3>1. w * h <= q * h
      BY <2>1, <2>2
    <3> QED BY <2>1, <2>2, <3>1
  <2>4. w * h <= MaxPixels => w <= q
    <3> SUFFICES ASSUME w * h <= MaxPixels, w >= q + 1 PROVE FALSE
      BY <2>1, <2>2
    <3>1. w * h >= (q + 1) * h
      BY <2>1, <2>2
    <3>2. (q + 1) * h = q * h + h
      BY <2>1, <2>2
    <3>3. w * h \in Nat /\ q * h \in Nat
      BY <2>1, <2>2
    <3> QED BY <2>1, <2>2, <3>1, <3>2, <3>3
  <2>5. w <= q <=> w * h <= MaxPixels
    BY <2>3, <2>4
  <2> QED BY <1>1, <2>5 DEF Fits, Bounded, w, h, q
<1>2. CASE ~(d.h > 0)
  BY <1>2 DEF Fits, Bounded
<1> QED BY <1>1, <1>2

\* A picture inside a canvas of the allowed size has the allowed size itself.
LEMMA InsideIsBounded ==
    ASSUME NEW w \in Nat, NEW h \in Nat, NEW cw \in Nat, NEW ch \in Nat, NEW M \in Nat,
           w <= cw, h <= ch, cw * ch <= M
    PROVE  w * h <= M
<1>1. w * h <= cw * h
  OBVIOUS
<1>2. cw * h <= cw * ch
  OBVIOUS
<1>3. w * h \in Nat /\ cw * h \in Nat /\ cw * ch \in Nat
  OBVIOUS
<1> QED BY <1>1, <1>2, <1>3

\* What the blocks of a GIF must be before its trailer.
GoodBlock(f, i) ==
    LET p == f.parts[i] IN
    /\ p.kind \in {"image", "extension"} /\ p.sound
    /\ p.kind = "image" =>
          p.w >= 1 /\ p.h >= 1 /\ p.left + p.w <= f.canvas.w /\ p.top + p.h <= f.canvas.h

\* Pictures among the parts before the one the walk looks at.
PictureAt(f, kinds, k, n) ==
    /\ n = 0 => \A i \in 1..(k - 1) : f.parts[i].kind \notin kinds
    /\ n = 1 => \E i \in 1..(k - 1) :
          /\ f.parts[i].kind \in kinds
          /\ \A j \in 1..(k - 1) : f.parts[j].kind \in kinds => j = i

GIFWalk(f, k, n) ==
    /\ f.type = "gif" /\ n \in {0, 1} /\ k \in Nat
    /\ k > 0 =>
          /\ f.sound /\ Bounded(f.canvas) /\ k <= Len(f.parts) + 1
          /\ \A i \in 1..(k - 1) : GoodBlock(f, i)
    /\ PictureAt(f, {"image"}, k, n)

\* What the chunks of a WebP must be.
GoodChunk(f, i) ==
    LET p == f.parts[i] IN
    /\ p.sound /\ p.kind \in {"VP8", "VP8L", "VP8X", "metadata"}
    /\ p.kind # "metadata" => Bounded(p)

\* The picture is that of the one picture chunk, the canvas that of the last VP8X.
PictureSeen(f, k, n, pic) ==
    n = 1 => \A i \in 1..(k - 1) : f.parts[i].kind \in {"VP8", "VP8L"} =>
                pic = [w |-> f.parts[i].w, h |-> f.parts[i].h]

CanvasSeen(f, k, c) ==
    \/ c = NoSize /\ \A i \in 1..(k - 1) : f.parts[i].kind # "VP8X"
    \/ \E i \in 1..(k - 1) :
          /\ f.parts[i].kind = "VP8X" /\ c = [w |-> f.parts[i].w, h |-> f.parts[i].h]
          /\ \A j \in 1..(k - 1) : f.parts[j].kind = "VP8X" => j <= i

WebPWalk(f, k, n, pic, c) ==
    /\ f.type = "webp" /\ n \in {0, 1} /\ k \in Nat
    /\ k > 0 =>
          /\ f.sound /\ k <= Len(f.parts) + 1
          /\ \A i \in 1..(k - 1) : GoodChunk(f, i)
    /\ PictureAt(f, {"VP8", "VP8L"}, k, n) /\ PictureSeen(f, k, n, pic) /\ CanvasSeen(f, k, c)

\* An acceptable WebP up to the chunk it starts with.
WalkedWebP(f) ==
    LET last == {i \in 1..Len(f.parts) : f.parts[i].kind = "VP8X"} IN
    /\ Only(f, {"VP8", "VP8L"})
    /\ \A p \in Parts(f) : p.sound /\ p.kind \in {"VP8", "VP8L", "VP8X", "metadata"}
    /\ \A p \in Parts(f) : p.kind # "metadata" => Bounded(p)
    /\ \A i \in last : (\A j \in last : j <= i) =>
          \A p \in Parts(f) : p.kind \in {"VP8", "VP8L"} => p.w = f.parts[i].w /\ p.h = f.parts[i].h

\* The structure of a file whose type may be animated has been walked.
Walked(f) ==
    /\ f.type # "unknown"
    /\ f.type = "gif" => f.sound /\ Bounded(f.canvas) /\ AcceptableGIF(f)
    /\ f.type = "webp" => f.sound /\ WalkedWebP(f)

ImageInv ==
    /\ file \in ImageFiles
    /\ verdict \in {"sniff", "gif", "webp", "dimensions", "declared", "accepted", "refused"}
    /\ verdict = "sniff" =>
          part = 0 /\ pictures = 0 /\ canvas = NoSize /\ picture = NoSize
    /\ verdict = "gif" => GIFWalk(file, part, pictures)
    /\ verdict = "webp" => WebPWalk(file, part, pictures, picture, canvas)
    /\ verdict = "dimensions" => Walked(file)
    /\ verdict = "declared" =>
          /\ Walked(file) /\ file.sound /\ Bounded(size)
          /\ file.type = "webp" \/ Bounded(file.canvas)
          /\ file.type = "webp" => AcceptableWebP(file)
    /\ InspectionIsExact

\* A part of a file.
LEMMA PartOfFile ==
    ASSUME NEW f, FileOK(f), NEW i \in 1..Len(f.parts)
    PROVE  /\ f.parts[i] \in Parts(f) /\ f.parts[i] \in ImagePart /\ Len(f.parts) \in Nat
           /\ f.parts[i].w \in Nat /\ f.parts[i].h \in Nat
<1>1. f.parts \in Seq(ImagePart)
  BY DEF FileOK
<1>2. Len(f.parts) \in Nat /\ f.parts[i] \in ImagePart
  BY <1>1
<1>3. f.parts[i].w \in Nat /\ f.parts[i].h \in Nat
  BY <1>2 DEF ImagePart
<1>4. f.parts[i] \in Parts(f)
  BY DEF Parts
<1> QED BY <1>2, <1>3, <1>4

\* The walk of a GIF passes one block.
LEMMA GIFAdvances ==
    ASSUME NEW f, FileOK(f), NEW k, NEW n, GIFWalk(f, k, n), k > 0, k <= Len(f.parts),
           GoodBlock(f, k), NEW m,
           \/ f.parts[k].kind # "image" /\ m = n
           \/ f.parts[k].kind = "image" /\ n = 0 /\ m = 1
    PROVE  GIFWalk(f, k + 1, m)
<1>0. k \in Nat /\ Len(f.parts) \in Nat /\ n \in {0, 1} /\ 1..((k + 1) - 1) = 1..k
  BY DEF GIFWalk, FileOK
<1>1. \A i \in 1..k : i = k \/ i \in 1..(k - 1)
  BY <1>0
<1>2. \A i \in 1..k : GoodBlock(f, i)
  BY <1>1 DEF GIFWalk
<1>3. PictureAt(f, {"image"}, k + 1, m)
  <2>1. CASE f.parts[k].kind # "image" /\ m = n
    <3>1. PictureAt(f, {"image"}, k, n)
      BY DEF GIFWalk
    <3>2. n = 0 => \A i \in 1..k : f.parts[i].kind \notin {"image"}
      BY <1>1, <2>1, <3>1 DEF PictureAt
    <3>3. n = 1 => \E i \in 1..k : /\ f.parts[i].kind \in {"image"}
                                   /\ \A j \in 1..k : f.parts[j].kind \in {"image"} => j = i
      BY <1>0, <1>1, <2>1, <3>1 DEF PictureAt
    <3> QED BY <1>0, <2>1, <3>2, <3>3 DEF PictureAt
  <2>2. CASE f.parts[k].kind = "image" /\ n = 0 /\ m = 1
    <3>1. \A i \in 1..(k - 1) : f.parts[i].kind \notin {"image"}
      BY <2>2 DEF GIFWalk, PictureAt
    <3>2. k \in 1..k /\ \A j \in 1..k : f.parts[j].kind \in {"image"} => j = k
      BY <1>0, <1>1, <3>1
    <3> QED BY <1>0, <2>2, <3>2 DEF PictureAt
  <2> QED BY <2>1, <2>2
<1>4. m \in {0, 1}
  BY <1>0
<1>5. f.type = "gif" /\ f.sound /\ Bounded(f.canvas) /\ k + 1 \in Nat /\ k + 1 <= Len(f.parts) + 1
  BY <1>0 DEF GIFWalk
<1> QED BY <1>0, <1>2, <1>3, <1>4, <1>5 DEF GIFWalk

\* The walk accepts a GIF that ends with its trailer after one picture.
LEMMA GIFEnds ==
    ASSUME NEW f, FileOK(f), NEW k, NEW n, GIFWalk(f, k, n), k > 0, k = Len(f.parts), n = 1,
           f.parts[k].kind = "trailer"
    PROVE  Walked(f)
<1>0. /\ k \in Nat /\ Len(f.parts) \in Nat /\ f.type = "gif" /\ f.sound /\ Bounded(f.canvas)
      /\ \A i \in 1..(k - 1) : GoodBlock(f, i)
  BY DEF GIFWalk, FileOK
<1>1. \A i \in 1..Len(f.parts) : i = k \/ i \in 1..(k - 1)
  BY <1>0
<1>2. \A i \in 1..(k - 1) : i \in 1..Len(f.parts) /\ f.parts[i].kind # "trailer"
  BY <1>0 DEF GoodBlock
<1>3. Only(f, {"trailer"})
  <2>1. k \in 1..Len(f.parts) /\ f.parts[k].kind \in {"trailer"}
    BY <1>0
  <2>2. \A j \in 1..Len(f.parts) : f.parts[j].kind \in {"trailer"} => j = k
    BY <1>1, <1>2
  <2> QED BY <2>1, <2>2 DEF Only
<1>4. Only(f, {"image"})
  <2>1. PICK i \in 1..(k - 1) : /\ f.parts[i].kind \in {"image"}
                                /\ \A j \in 1..(k - 1) : f.parts[j].kind \in {"image"} => j = i
    BY DEF GIFWalk, PictureAt
  <2> QED BY <1>1, <1>2, <2>1 DEF Only
<1>5. ASSUME NEW p \in Parts(f)
      PROVE  /\ p.kind \in {"image", "extension", "trailer"} /\ (p.kind # "trailer" => p.sound)
             /\ p.kind = "image" => p.w >= 1 /\ p.h >= 1 /\ p.left + p.w <= f.canvas.w
                                    /\ p.top + p.h <= f.canvas.h
  <2>1. PICK i \in 1..Len(f.parts) : p = f.parts[i]
    BY DEF Parts
  <2> QED BY <1>0, <1>1, <2>1 DEF GoodBlock
<1>6. AcceptableGIF(f)
  BY <1>0, <1>3, <1>4, <1>5 DEF AcceptableGIF
<1> QED BY <1>0, <1>6 DEF Walked

\* A block of an acceptable GIF is one the walk passes or ends with.
LEMMA GIFBlockGood ==
    ASSUME NEW f, FileOK(f), MaxPixels \in Nat, NEW k, NEW n, GIFWalk(f, k, n), k > 0,
           AcceptableGIF(f)
    PROVE  /\ k <= Len(f.parts)
           /\ f.parts[k].kind \in {"image", "extension", "trailer"}
           /\ f.parts[k].kind = "trailer" => k = Len(f.parts) /\ n = 1
           /\ f.parts[k].kind # "trailer" => f.parts[k].sound
           /\ f.parts[k].kind = "image" =>
                 /\ n = 0 /\ Fits([w |-> f.parts[k].w, h |-> f.parts[k].h])
                 /\ f.parts[k].left <= f.canvas.w - f.parts[k].w
                 /\ f.parts[k].top <= f.canvas.h - f.parts[k].h
<1> DEFINE len == Len(f.parts)
<1>0. /\ k \in Nat /\ len \in Nat /\ k <= len + 1 /\ n \in {0, 1}
      /\ \A i \in 1..(k - 1) : f.parts[i].kind # "trailer"
  BY DEF GIFWalk, FileOK, GoodBlock
<1>1. len > 0 /\ f.parts[len].kind = "trailer" /\ Only(f, {"trailer"}) /\ Only(f, {"image"})
  BY DEF AcceptableGIF
<1>2. k <= len
  BY <1>0, <1>1
<1>3. k \in 1..len /\ \A i \in 1..(k - 1) : i \in 1..len
  BY <1>0, <1>2
<1>4. /\ f.parts[k] \in Parts(f) /\ f.parts[k] \in ImagePart
  BY <1>3, PartOfFile
<1>5. /\ f.parts[k].kind \in {"image", "extension", "trailer"}
      /\ f.parts[k].kind # "trailer" => f.parts[k].sound
  BY <1>4 DEF AcceptableGIF
<1>6. f.parts[k].kind = "trailer" => k = len
  BY <1>0, <1>1, <1>3 DEF Only
<1>7. ASSUME f.parts[k].kind = "trailer" PROVE n = 1
  <2>1. PICK i \in 1..len : f.parts[i].kind = "image"
    BY <1>1 DEF Only
  <2>2. i \in 1..(k - 1)
    BY <1>0, <1>6, <1>7, <2>1
  <2>3. n # 0
    BY <2>1, <2>2 DEF GIFWalk, PictureAt
  <2> QED BY <1>0, <2>3
<1>8. ASSUME f.parts[k].kind = "image" PROVE n = 0
  <2>1. ASSUME n = 1 PROVE FALSE
    <3>1. PICK i \in 1..(k - 1) : f.parts[i].kind = "image"
      BY <2>1 DEF GIFWalk, PictureAt
    <3>2. i = k
      BY <1>1, <1>3, <1>8, <3>1 DEF Only
    <3> QED BY <1>0, <3>1, <3>2
  <2> QED BY <1>0, <2>1
<1>9. ASSUME f.parts[k].kind = "image"
      PROVE  /\ Fits([w |-> f.parts[k].w, h |-> f.parts[k].h])
             /\ f.parts[k].left <= f.canvas.w - f.parts[k].w
             /\ f.parts[k].top <= f.canvas.h - f.parts[k].h
  <2> DEFINE w == f.parts[k].w
             h == f.parts[k].h
             cw == f.canvas.w
             ch == f.canvas.h
             d == [w |-> w, h |-> h]
  <2>1. w \in Nat /\ h \in Nat /\ f.parts[k].left \in Nat /\ f.parts[k].top \in Nat
    BY <1>4 DEF ImagePart
  <2>2. cw \in Nat /\ ch \in Nat
    BY DEF FileOK, ImageSize
  <2>3. w >= 1 /\ h >= 1 /\ f.parts[k].left + w <= cw /\ f.parts[k].top + h <= ch
    BY <1>4, <1>9 DEF AcceptableGIF
  <2>4. cw * ch <= MaxPixels
    BY <1>0 DEF GIFWalk, Bounded
  <2>5. d.w = w /\ d.h = h
    OBVIOUS
  <2> HIDE DEF w, h, cw, ch, d
  <2>6. w <= cw /\ h <= ch
    BY <2>1, <2>2, <2>3
  <2>7. w * h <= MaxPixels
    BY <2>1, <2>2, <2>4, <2>6, InsideIsBounded
  <2>8. Bounded(d)
    BY <2>3, <2>5, <2>7 DEF Bounded
  <2>9. Fits(d)
    BY <2>1, <2>5, <2>8, FitsIsBounded
  <2>10. f.parts[k].left <= cw - w /\ f.parts[k].top <= ch - h
    BY <2>1, <2>2, <2>3
  <2> QED BY <2>9, <2>10 DEF d, w, h, cw, ch
<1> QED BY <1>2, <1>5, <1>6, <1>7, <1>8, <1>9

\* The size of a part is allowed when the part's is.
LEMMA PartFits ==
    ASSUME NEW f, FileOK(f), MaxPixels \in Nat, NEW i \in 1..Len(f.parts)
    PROVE  Fits([w |-> f.parts[i].w, h |-> f.parts[i].h]) <=> Bounded(f.parts[i])
<1> DEFINE p == f.parts[i]
           d == [w |-> p.w, h |-> p.h]
<1>1. p.w \in Nat /\ p.h \in Nat
  BY PartOfFile
<1>2. d.w = p.w /\ d.h = p.h
  OBVIOUS
<1> HIDE DEF p, d
<1>3. Fits(d) <=> Bounded(d)
  BY <1>1, <1>2, FitsIsBounded
<1>4. Bounded(d) <=> Bounded(p)
  BY <1>2 DEF Bounded
<1> QED BY <1>3, <1>4 DEF p, d

\* The walk of a WebP passes one chunk.
LEMMA WebPAdvances ==
    ASSUME NEW f, FileOK(f), NEW k, NEW n, NEW pic, NEW c, WebPWalk(f, k, n, pic, c),
           k > 0, k <= Len(f.parts), GoodChunk(f, k), NEW m, NEW newPic, NEW newC,
           \/ /\ f.parts[k].kind = "VP8X" /\ m = n /\ newPic = pic
              /\ newC = [w |-> f.parts[k].w, h |-> f.parts[k].h]
           \/ /\ f.parts[k].kind \in {"VP8", "VP8L"} /\ n = 0 /\ m = 1 /\ newC = c
              /\ newPic = [w |-> f.parts[k].w, h |-> f.parts[k].h]
           \/ f.parts[k].kind = "metadata" /\ m = n /\ newPic = pic /\ newC = c
    PROVE  WebPWalk(f, k + 1, m, newPic, newC)
<1>0. k \in Nat /\ Len(f.parts) \in Nat /\ n \in {0, 1} /\ 1..((k + 1) - 1) = 1..k
  BY DEF WebPWalk, FileOK
<1>1. k \in 1..k /\ \A i \in 1..k : i = k \/ (i \in 1..(k - 1) /\ i < k)
  BY <1>0
<1>2. \A i \in 1..k : GoodChunk(f, i)
  BY <1>0, <1>1 DEF WebPWalk
<1>a. \A i \in 1..(k - 1) : i \in 1..k
  BY <1>0
<1>3. PictureAt(f, {"VP8", "VP8L"}, k, n) /\ PictureSeen(f, k, n, pic) /\ CanvasSeen(f, k, c)
  BY DEF WebPWalk
<1>4. PictureAt(f, {"VP8", "VP8L"}, k + 1, m) /\ PictureSeen(f, k + 1, m, newPic)
  <2>1. CASE f.parts[k].kind \in {"VP8X", "metadata"} /\ m = n /\ newPic = pic
    <3>1. n = 0 => \A i \in 1..k : f.parts[i].kind \notin {"VP8", "VP8L"}
      BY <1>1, <1>3, <2>1 DEF PictureAt
    <3>2. n = 1 => \E i \in 1..k : /\ f.parts[i].kind \in {"VP8", "VP8L"}
                                   /\ \A j \in 1..k : f.parts[j].kind \in {"VP8", "VP8L"} => j = i
      BY <1>1, <1>a, <1>3, <2>1 DEF PictureAt
    <3>3. n = 1 => \A i \in 1..k : f.parts[i].kind \in {"VP8", "VP8L"} =>
                      pic = [w |-> f.parts[i].w, h |-> f.parts[i].h]
      BY <1>1, <1>3, <2>1 DEF PictureSeen
    <3> QED BY <1>0, <2>1, <3>1, <3>2, <3>3 DEF PictureAt, PictureSeen
  <2>2. CASE /\ f.parts[k].kind \in {"VP8", "VP8L"} /\ n = 0 /\ m = 1
             /\ newPic = [w |-> f.parts[k].w, h |-> f.parts[k].h]
    <3>1. \A i \in 1..(k - 1) : f.parts[i].kind \notin {"VP8", "VP8L"}
      BY <1>3, <2>2 DEF PictureAt
    <3>2. \A j \in 1..k : f.parts[j].kind \in {"VP8", "VP8L"} => j = k
      BY <1>1, <3>1
    <3>3. PictureAt(f, {"VP8", "VP8L"}, k + 1, m)
      BY <1>0, <1>1, <2>2, <3>2 DEF PictureAt
    <3>4. PictureSeen(f, k + 1, m, newPic)
      BY <1>0, <2>2, <3>2 DEF PictureSeen
    <3> QED BY <3>3, <3>4
  <2> QED BY <2>1, <2>2
<1>5. CanvasSeen(f, k + 1, newC)
  <2>1. CASE f.parts[k].kind = "VP8X" /\ newC = [w |-> f.parts[k].w, h |-> f.parts[k].h]
    <3>1. \A j \in 1..k : j <= k
      BY <1>0
    <3> QED BY <1>0, <1>1, <2>1, <3>1 DEF CanvasSeen
  <2>2. CASE f.parts[k].kind # "VP8X" /\ newC = c
    <3>1. CASE c = NoSize /\ \A i \in 1..(k - 1) : f.parts[i].kind # "VP8X"
      <4>1. \A i \in 1..k : f.parts[i].kind # "VP8X"
        BY <1>1, <2>2, <3>1
      <4> QED BY <1>0, <2>2, <3>1, <4>1 DEF CanvasSeen
    <3>2. CASE ~(c = NoSize /\ \A i \in 1..(k - 1) : f.parts[i].kind # "VP8X")
      <4>1. PICK i \in 1..(k - 1) :
               /\ f.parts[i].kind = "VP8X" /\ c = [w |-> f.parts[i].w, h |-> f.parts[i].h]
               /\ \A j \in 1..(k - 1) : f.parts[j].kind = "VP8X" => j <= i
        BY <1>3, <3>2 DEF CanvasSeen
      <4>2. i \in 1..k /\ \A j \in 1..k : f.parts[j].kind = "VP8X" => j <= i
        BY <1>1, <1>a, <2>2, <4>1
      <4> QED BY <1>0, <2>2, <4>1, <4>2 DEF CanvasSeen
    <3> QED BY <3>1, <3>2
  <2> QED BY <2>1, <2>2
<1>6. m \in {0, 1} /\ f.type = "webp" /\ f.sound /\ k + 1 \in Nat /\ k + 1 <= Len(f.parts) + 1
  BY <1>0 DEF WebPWalk
<1> QED BY <1>0, <1>2, <1>4, <1>5, <1>6 DEF WebPWalk

\* What the walk knows of a WebP when it has passed every chunk.
LEMMA WebPPassed ==
    ASSUME NEW f, FileOK(f), NEW k, NEW n, NEW pic, NEW c, WebPWalk(f, k, n, pic, c),
           k > 0, k > Len(f.parts)
    PROVE  /\ k \in Nat /\ Len(f.parts) \in Nat /\ 1..(k - 1) = 1..Len(f.parts)
           /\ f.type = "webp" /\ f.sound /\ n \in {0, 1}
           /\ \A i \in 1..Len(f.parts) : GoodChunk(f, i)
<1>1. k \in Nat /\ Len(f.parts) \in Nat /\ k <= Len(f.parts) + 1 /\ n \in {0, 1}
      /\ \A i \in 1..(k - 1) : GoodChunk(f, i)
  BY DEF WebPWalk, FileOK
<1>2. k - 1 = Len(f.parts)
  BY <1>1
<1> QED BY <1>1, <1>2 DEF WebPWalk

\* The walk ends well with one picture, as large as the canvas if there is one.
LEMMA WebPEnds ==
    ASSUME NEW f, FileOK(f), MaxPixels \in Nat, NEW k, NEW n, NEW pic, NEW c,
           WebPWalk(f, k, n, pic, c), k > 0, k > Len(f.parts), n = 1, c \in {NoSize, pic}
    PROVE  Walked(f)
<1> DEFINE len == Len(f.parts)
           last == {i \in 1..len : f.parts[i].kind = "VP8X"}
<1>0. /\ k \in Nat /\ len \in Nat /\ 1..(k - 1) = 1..len /\ f.type = "webp" /\ f.sound
      /\ \A i \in 1..len : GoodChunk(f, i)
  BY WebPPassed
<1>1. Only(f, {"VP8", "VP8L"})
  <2>1. PICK i \in 1..len : /\ f.parts[i].kind \in {"VP8", "VP8L"}
                            /\ \A j \in 1..len : f.parts[j].kind \in {"VP8", "VP8L"} => j = i
    BY <1>0 DEF WebPWalk, PictureAt
  <2> QED BY <2>1 DEF Only
<1>2. ASSUME NEW p \in Parts(f)
      PROVE  /\ p.sound /\ p.kind \in {"VP8", "VP8L", "VP8X", "metadata"}
             /\ p.kind # "metadata" => Bounded(p)
  <2>1. PICK i \in 1..len : p = f.parts[i]
    BY DEF Parts
  <2>2. GoodChunk(f, i)
    BY <1>0
  <2> QED BY <2>1, <2>2 DEF GoodChunk
<1>3. ASSUME NEW i \in last, \A j \in last : j <= i, NEW p \in Parts(f),
             p.kind \in {"VP8", "VP8L"}
      PROVE  p.w = f.parts[i].w /\ p.h = f.parts[i].h
  <2>1. PICK l \in 1..len : p = f.parts[l]
    BY DEF Parts
  <2>2. pic = [w |-> p.w, h |-> p.h]
    BY <1>0, <1>3, <2>1 DEF WebPWalk, PictureSeen
  <2>3. PICK v \in 1..len :
               /\ f.parts[v].kind = "VP8X" /\ c = [w |-> f.parts[v].w, h |-> f.parts[v].h]
               /\ \A j \in 1..len : f.parts[j].kind = "VP8X" => j <= v
    <3>1. CanvasSeen(f, k, c)
      BY DEF WebPWalk
    <3>2. i \in 1..len /\ f.parts[i].kind = "VP8X"
      OBVIOUS
    <3> QED BY <1>0, <3>1, <3>2 DEF CanvasSeen
  <2>4. v = i
    <3>1. i \in Nat /\ v \in Nat /\ i <= v
      BY <1>0, <2>3
    <3>2. v \in last
      BY <2>3
    <3> QED BY <1>3, <3>1, <3>2
  <2>5. c # NoSize
    <3>1. GoodChunk(f, v)
      BY <1>0
    <3>2. f.parts[v].w >= 1
      BY <2>3, <3>1 DEF GoodChunk, Bounded
    <3>3. c.w = f.parts[v].w /\ NoSize.w = 0
      BY <2>3 DEF NoSize
    <3> QED BY <3>2, <3>3
  <2>6. c = pic
    BY <2>5
  <2>7. c.w = f.parts[v].w /\ c.h = f.parts[v].h /\ pic.w = p.w /\ pic.h = p.h
    BY <2>2, <2>3
  <2> QED BY <2>4, <2>6, <2>7
<1>4. WalkedWebP(f)
  BY <1>1, <1>2, <1>3 DEF WalkedWebP
<1> QED BY <1>0, <1>4 DEF Walked

\* A chunk of an acceptable WebP is one the walk passes.
LEMMA WebPChunkGood ==
    ASSUME NEW f, FileOK(f), MaxPixels \in Nat, NEW k, NEW n, NEW pic, NEW c,
           WebPWalk(f, k, n, pic, c), k > 0, k <= Len(f.parts), AcceptableWebP(f)
    PROVE  /\ f.parts[k].sound /\ f.parts[k].kind \in {"VP8", "VP8L", "VP8X", "metadata"}
           /\ f.parts[k].kind # "metadata" => Fits([w |-> f.parts[k].w, h |-> f.parts[k].h])
           /\ f.parts[k].kind \in {"VP8", "VP8L"} => n = 0
<1>0. /\ k \in Nat /\ Len(f.parts) \in Nat /\ n \in {0, 1} /\ k \in 1..Len(f.parts)
      /\ \A i \in 1..(k - 1) : i \in 1..Len(f.parts) /\ i # k
  BY DEF WebPWalk, FileOK
<1>1. f.parts[k] \in Parts(f)
  BY <1>0, PartOfFile
<1>2. /\ f.parts[k].sound /\ f.parts[k].kind \in {"VP8", "VP8L", "VP8X", "metadata"}
      /\ f.parts[k].kind # "metadata" => Bounded(f.parts[k])
  BY <1>1 DEF AcceptableWebP
<1>3. f.parts[k].kind # "metadata" => Fits([w |-> f.parts[k].w, h |-> f.parts[k].h])
  BY <1>0, <1>2, PartFits
<1>4. ASSUME f.parts[k].kind \in {"VP8", "VP8L"}, n = 1 PROVE FALSE
  <2>1. PICK i \in 1..(k - 1) : f.parts[i].kind \in {"VP8", "VP8L"}
    BY <1>4 DEF WebPWalk, PictureAt
  <2>2. Only(f, {"VP8", "VP8L"})
    BY DEF AcceptableWebP
  <2>3. i = k
    BY <1>0, <1>4, <2>1, <2>2 DEF Only
  <2> QED BY <1>0, <2>1, <2>3
<1> QED BY <1>0, <1>2, <1>3, <1>4

\* At the end of an acceptable WebP the walk has its picture and the canvas agrees.
LEMMA WebPEndGood ==
    ASSUME NEW f, FileOK(f), NEW k, NEW n, NEW pic, NEW c,
           WebPWalk(f, k, n, pic, c), k > 0, k > Len(f.parts), AcceptableWebP(f)
    PROVE  n = 1 /\ c \in {NoSize, pic}
<1> DEFINE len == Len(f.parts)
           last == {i \in 1..len : f.parts[i].kind = "VP8X"}
<1>0. /\ k \in Nat /\ len \in Nat /\ 1..(k - 1) = 1..len /\ n \in {0, 1}
  BY WebPPassed
<1>1. PICK i \in 1..len : f.parts[i].kind \in {"VP8", "VP8L"}
  BY DEF AcceptableWebP, Only
<1>2. n = 1
  BY <1>0, <1>1 DEF WebPWalk, PictureAt
<1>3. pic = [w |-> f.parts[i].w, h |-> f.parts[i].h]
  BY <1>0, <1>1, <1>2 DEF WebPWalk, PictureSeen
<1>4. ASSUME c # NoSize PROVE c = pic
  <2>1. PICK v \in 1..len :
               /\ f.parts[v].kind = "VP8X" /\ c = [w |-> f.parts[v].w, h |-> f.parts[v].h]
               /\ \A j \in 1..len : f.parts[j].kind = "VP8X" => j <= v
    BY <1>0, <1>4 DEF WebPWalk, CanvasSeen
  <2>2. v \in last /\ \A j \in last : j <= v
    BY <2>1
  <2>3. f.parts[i] \in Parts(f)
    BY DEF Parts
  <2>4. f.parts[i].w = f.parts[v].w /\ f.parts[i].h = f.parts[v].h
    BY <1>1, <2>2, <2>3 DEF AcceptableWebP
  <2> QED BY <1>3, <2>1, <2>4
<1> QED BY <1>2, <1>4

\* A refusal is right when the file is not acceptable.
LEMMA RefuseKeeps ==
    ASSUME ImageInv, Refuse, ~AcceptableImage(file)
    PROVE  ImageInv'
BY DEF ImageInv, Refuse, InspectionIsExact

\* A step that only tells how far the inspection is.
LEMMA MovesTo ==
    ASSUME ImageInv, file' = file,
           \/ verdict' = "gif" /\ GIFWalk(file, part', pictures')
           \/ verdict' = "webp" /\ WebPWalk(file, part', pictures', picture', canvas')
           \/ verdict' = "dimensions" /\ Walked(file)
    PROVE  ImageInv'
BY DEF ImageInv, InspectionIsExact

\* The walk starts with nothing seen.
LEMMA NothingSeen ==
    ASSUME NEW f, NEW kinds, NEW pic, NEW k \in {0, 1}
    PROVE  PictureAt(f, kinds, k, 0) /\ PictureSeen(f, k, 0, pic) /\ CanvasSeen(f, k, NoSize)
<1>1. 1..(k - 1) = {}
  OBVIOUS
<1> QED BY <1>1 DEF PictureAt, PictureSeen, CanvasSeen

\* Sniffing refuses only what has no known type.
LEMMA SniffKeeps ==
    ASSUME ImageInv, SniffRasterMIME
    PROVE  ImageInv'
<1>1. CASE file.type = "unknown"
  <2>1. ~AcceptableImage(file)
    BY <1>1 DEF AcceptableImage
  <2> QED BY <1>1, <2>1, RefuseKeeps DEF SniffRasterMIME
<1>2. CASE file.type # "unknown"
  <2>1. file \in ImageFiles /\ part = 0 /\ pictures = 0 /\ canvas = NoSize
    BY DEF ImageInv, SniffRasterMIME
  <2>2. FileOK(file)
    BY <2>1, FilesAreFiles
  <2>3. PICK pic : pic = picture
    OBVIOUS
  <2>4. /\ PictureAt(file, {"image"}, 0, 0) /\ PictureAt(file, {"VP8", "VP8L"}, 0, 0)
        /\ PictureSeen(file, 0, 0, pic) /\ CanvasSeen(file, 0, NoSize)
    BY NothingSeen
  <2>5. /\ file' = file /\ part' = 0 /\ pictures' = 0 /\ canvas' = NoSize /\ picture' = pic
        /\ verdict' = IF file.type \in {"gif", "webp"} THEN file.type ELSE "dimensions"
    BY <1>2, <2>1, <2>3 DEF SniffRasterMIME
  <2>6. CASE file.type = "gif"
    <3>1. GIFWalk(file, 0, 0)
      BY <2>4, <2>6 DEF GIFWalk
    <3> QED BY <2>5, <2>6, <3>1, MovesTo
  <2>7. CASE file.type = "webp"
    <3>1. WebPWalk(file, 0, 0, pic, NoSize)
      BY <2>4, <2>7 DEF WebPWalk
    <3> QED BY <2>5, <2>7, <3>1, MovesTo
  <2>8. CASE file.type \notin {"gif", "webp"}
    <3>1. Walked(file)
      BY <1>2, <2>8 DEF Walked
    <3> QED BY <2>5, <2>8, <3>1, MovesTo
  <2> QED BY <2>6, <2>7, <2>8
<1> QED BY <1>1, <1>2

\* The header of a GIF.
LEMMA GIFHeaderKeeps ==
    ASSUME ImageInv, GIFHeader
    PROVE  ImageInv'
<1>1. file \in ImageFiles /\ GIFWalk(file, part, pictures) /\ part = 0
  BY DEF ImageInv, GIFHeader
<1>2. FileOK(file) /\ MaxPixels \in Nat
  BY <1>1, FilesAreFiles
<1>3. file.canvas.w \in Nat /\ file.canvas.h \in Nat /\ file.parts \in Seq(ImagePart)
  BY <1>2 DEF FileOK, ImageSize
<1>4. Fits(file.canvas) <=> Bounded(file.canvas)
  BY <1>2, <1>3, FitsIsBounded
<1>5. file.type = "gif"
  BY <1>1 DEF GIFWalk
<1>6. CASE file.sound /\ Fits(file.canvas)
  <2>1. 1..(1 - 1) = {} /\ 1..(0 - 1) = {} /\ 1 <= Len(file.parts) + 1
    BY <1>3
  <2>2. GIFWalk(file, 1, pictures)
    BY <1>1, <1>4, <1>6, <2>1 DEF GIFWalk, PictureAt
  <2>3. file' = file /\ verdict' = "gif" /\ part' = 1 /\ pictures' = pictures
    BY <1>6 DEF GIFHeader
  <2> QED BY <2>2, <2>3, MovesTo
<1>7. CASE ~(file.sound /\ Fits(file.canvas))
  <2>1. ~AcceptableImage(file)
    BY <1>4, <1>5, <1>7 DEF AcceptableImage
  <2> QED BY <1>7, <2>1, RefuseKeeps DEF GIFHeader
<1> QED BY <1>6, <1>7

\* A block of a GIF.
LEMMA GIFBlockKeeps ==
    ASSUME ImageInv, GIFBlock
    PROVE  ImageInv'
<1> DEFINE p == file.parts[part]
<1>1. file \in ImageFiles /\ GIFWalk(file, part, pictures) /\ part > 0 /\ verdict = "gif"
  BY DEF ImageInv, GIFBlock
<1>2. FileOK(file) /\ MaxPixels \in Nat
  BY <1>1, FilesAreFiles
<1>3. file.type = "gif" /\ part \in Nat /\ Len(file.parts) \in Nat /\ pictures \in {0, 1}
  BY <1>1, <1>2 DEF GIFWalk, FileOK
<1>4. CASE Refuse
  <2>1. ASSUME AcceptableImage(file) PROVE FALSE
    <3>1. AcceptableGIF(file)
      BY <1>3, <2>1 DEF AcceptableImage
    <3>2. /\ part <= Len(file.parts)
          /\ p.kind \in {"image", "extension", "trailer"}
          /\ p.kind = "trailer" => part = Len(file.parts) /\ pictures = 1
          /\ p.kind # "trailer" => p.sound
          /\ p.kind = "image" =>
                 /\ pictures = 0 /\ Fits([w |-> p.w, h |-> p.h])
                 /\ p.left <= file.canvas.w - p.w
                 /\ p.top <= file.canvas.h - p.h
      BY <1>1, <1>2, <3>1, GIFBlockGood
    <3>3. ~Ended /\ Part = p
      BY <1>3, <3>2 DEF Ended, Part
    <3>4. p.kind = "image" => InsideCanvas(p)
      BY <3>2 DEF InsideCanvas
    <3>5. verdict' # verdict
      BY <1>1, <1>4 DEF Refuse
    <3>6. part' = part
      BY <1>4 DEF Refuse
    <3>7. part + 1 # part
      BY <1>3
    <3>8. CASE p.kind = "trailer"
      <4>1. verdict' = "dimensions"
        BY <3>2, <3>3, <3>8 DEF GIFBlock
      <4> QED BY <1>4, <4>1 DEF Refuse
    <3>9. CASE p.kind = "extension"
      <4>1. part' = part + 1
        BY <3>2, <3>3, <3>9 DEF GIFBlock
      <4> QED BY <3>6, <3>7, <4>1
    <3>10. CASE p.kind = "image"
      <4>1. part' = part + 1
        BY <3>2, <3>3, <3>4, <3>10 DEF GIFBlock
      <4> QED BY <3>6, <3>7, <4>1
    <3> QED BY <3>2, <3>8, <3>9, <3>10
  <2> QED BY <1>4, <2>1, RefuseKeeps
<1>5. CASE ~Refuse
  <2>1. ~Ended /\ Part = p /\ part <= Len(file.parts) /\ part \in 1..Len(file.parts)
    BY <1>1, <1>3, <1>5 DEF GIFBlock, Ended, Part
  <2>2. \/ /\ p.kind = "trailer" /\ part = Len(file.parts) /\ pictures = 1
           /\ verdict' = "dimensions" /\ file' = file
        \/ /\ p.kind = "extension" /\ p.sound /\ part' = part + 1
           /\ pictures' = pictures /\ file' = file /\ verdict' = verdict
        \/ /\ p.kind = "image" /\ pictures = 0 /\ InsideCanvas(p) /\ p.sound
           /\ part' = part + 1 /\ pictures' = 1 /\ file' = file /\ verdict' = verdict
    BY <1>5, <2>1 DEF GIFBlock
  <2>3. CASE /\ p.kind = "trailer" /\ part = Len(file.parts) /\ pictures = 1
             /\ verdict' = "dimensions" /\ file' = file
    <3>1. Walked(file)
      BY <1>1, <1>2, <2>3, GIFEnds
    <3> QED BY <2>3, <3>1, MovesTo
  <2>4. CASE /\ p.kind = "extension" /\ p.sound /\ part' = part + 1
             /\ pictures' = pictures /\ file' = file /\ verdict' = verdict
    <3>1. GoodBlock(file, part)
      BY <2>4 DEF GoodBlock
    <3>2. GIFWalk(file, part + 1, pictures)
      BY <1>1, <1>2, <2>1, <2>4, <3>1, GIFAdvances
    <3> QED BY <1>1, <2>4, <3>2, MovesTo
  <2>5. CASE /\ p.kind = "image" /\ pictures = 0 /\ InsideCanvas(p) /\ p.sound
             /\ part' = part + 1 /\ pictures' = 1 /\ file' = file /\ verdict' = verdict
    <3>1. p \in ImagePart
      BY <1>2, <2>1, PartOfFile
    <3>2. p.w \in Nat /\ p.h \in Nat /\ p.left \in Nat /\ p.top \in Nat
      BY <3>1 DEF ImagePart
    <3>3. file.canvas.w \in Nat /\ file.canvas.h \in Nat
      BY <1>2 DEF FileOK, ImageSize
    <3>4. /\ p.w > 0 /\ p.h > 0
          /\ p.left <= file.canvas.w - p.w /\ p.top <= file.canvas.h - p.h
      BY <2>5 DEF InsideCanvas, Fits
    <3>5. p.w >= 1 /\ p.h >= 1 /\ p.left + p.w <= file.canvas.w /\ p.top + p.h <= file.canvas.h
      BY <3>2, <3>3, <3>4
    <3>6. GoodBlock(file, part)
      BY <2>5, <3>5 DEF GoodBlock
    <3>7. GIFWalk(file, part + 1, 1)
      BY <1>1, <1>2, <2>1, <2>5, <3>6, GIFAdvances
    <3> QED BY <1>1, <2>5, <3>7, MovesTo
  <2> QED BY <2>2, <2>3, <2>4, <2>5
<1> QED BY <1>4, <1>5

\* The header of a WebP.
LEMMA WebPHeaderKeeps ==
    ASSUME ImageInv, WebPHeader
    PROVE  ImageInv'
<1>1. file \in ImageFiles /\ WebPWalk(file, part, pictures, picture, canvas) /\ part = 0
  BY DEF ImageInv, WebPHeader
<1>2. FileOK(file)
  BY <1>1, FilesAreFiles
<1>3. file.parts \in Seq(ImagePart) /\ file.type = "webp"
  BY <1>1, <1>2 DEF FileOK, WebPWalk
<1>4. CASE file.sound
  <2>1. 1..(1 - 1) = {} /\ 1..(0 - 1) = {} /\ 1 <= Len(file.parts) + 1
    BY <1>3
  <2>2. WebPWalk(file, 1, pictures, picture, canvas)
    BY <1>1, <1>4, <2>1 DEF WebPWalk, PictureAt, PictureSeen, CanvasSeen
  <2>3. /\ file' = file /\ verdict' = "webp" /\ part' = 1 /\ pictures' = pictures
        /\ picture' = picture /\ canvas' = canvas
    BY <1>4 DEF WebPHeader
  <2> QED BY <2>2, <2>3, MovesTo
<1>5. CASE ~file.sound
  <2>1. ~AcceptableImage(file)
    BY <1>5 DEF AcceptableImage
  <2> QED BY <1>5, <2>1, RefuseKeeps DEF WebPHeader
<1> QED BY <1>4, <1>5

\* A chunk of a WebP.
LEMMA WebPChunkKeeps ==
    ASSUME ImageInv, WebPChunk
    PROVE  ImageInv'
<1> DEFINE p == file.parts[part]
           s == [w |-> p.w, h |-> p.h]
<1>1. /\ file \in ImageFiles /\ WebPWalk(file, part, pictures, picture, canvas)
      /\ part > 0 /\ verdict = "webp"
  BY DEF ImageInv, WebPChunk
<1>2. FileOK(file) /\ MaxPixels \in Nat
  BY <1>1, FilesAreFiles
<1>3. file.type = "webp" /\ part \in Nat /\ Len(file.parts) \in Nat /\ pictures \in {0, 1}
  BY <1>1, <1>2 DEF WebPWalk, FileOK
<1>4. part <= Len(file.parts) /\ part \in 1..Len(file.parts) /\ Part = p /\ PartSize = s
  BY <1>1, <1>3 DEF WebPChunk, Ended, Part, PartSize
<1>5. Fits(s) <=> Bounded(p)
  BY <1>2, <1>4, PartFits
<1>6. CASE Refuse
  <2>1. ASSUME AcceptableImage(file) PROVE FALSE
    <3>1. AcceptableWebP(file)
      BY <1>3, <2>1 DEF AcceptableImage
    <3>2. /\ p.sound /\ p.kind \in {"VP8", "VP8L", "VP8X", "metadata"}
          /\ p.kind # "metadata" => Fits(s)
          /\ p.kind \in {"VP8", "VP8L"} => pictures = 0
      BY <1>1, <1>2, <1>4, <3>1, WebPChunkGood
    <3>3. part' = part + 1
      <4>1. CASE p.kind = "VP8X"
        BY <1>4, <3>2, <4>1 DEF WebPChunk
      <4>2. CASE p.kind \in {"VP8", "VP8L"}
        BY <1>4, <3>2, <4>2 DEF WebPChunk
      <4>3. CASE p.kind = "metadata"
        BY <1>4, <3>2, <4>3 DEF WebPChunk
      <4> QED BY <3>2, <4>1, <4>2, <4>3
    <3>4. part' = part
      BY <1>6 DEF Refuse
    <3> QED BY <1>3, <3>3, <3>4
  <2> QED BY <1>6, <2>1, RefuseKeeps
<1>7. CASE ~Refuse
  <2> HIDE DEF s
  <2>1. /\ p.sound /\ part' = part + 1 /\ file' = file /\ verdict' = verdict
        /\ \/ /\ p.kind = "VP8X" /\ Fits(s) /\ canvas' = s
              /\ pictures' = pictures /\ picture' = picture
           \/ /\ p.kind \in {"VP8", "VP8L"} /\ pictures = 0 /\ Fits(s) /\ pictures' = 1
              /\ picture' = s /\ canvas' = canvas
           \/ /\ p.kind = "metadata" /\ pictures' = pictures /\ picture' = picture
              /\ canvas' = canvas
    BY <1>4, <1>7 DEF WebPChunk
  <2>2. GoodChunk(file, part)
    BY <1>5, <2>1 DEF GoodChunk
  <2>3. PICK m, pic, c : m = pictures' /\ pic = picture' /\ c = canvas'
    OBVIOUS
  <2>4. \/ /\ p.kind = "VP8X" /\ m = pictures /\ pic = picture /\ c = [w |-> p.w, h |-> p.h]
        \/ /\ p.kind \in {"VP8", "VP8L"} /\ pictures = 0 /\ m = 1 /\ c = canvas
           /\ pic = [w |-> p.w, h |-> p.h]
        \/ p.kind = "metadata" /\ m = pictures /\ pic = picture /\ c = canvas
    BY <2>1, <2>3 DEF s
  <2>5. WebPWalk(file, part + 1, m, pic, c)
    BY <1>1, <1>2, <1>4, <2>2, <2>4, WebPAdvances
  <2> QED BY <1>1, <2>1, <2>3, <2>5, MovesTo
<1> QED BY <1>6, <1>7

\* The end of a WebP.
LEMMA WebPEndKeeps ==
    ASSUME ImageInv, WebPEnd
    PROVE  ImageInv'
<1>1. /\ file \in ImageFiles /\ WebPWalk(file, part, pictures, picture, canvas)
      /\ part > 0 /\ verdict = "webp" /\ part > Len(file.parts)
  BY DEF ImageInv, WebPEnd, Ended
<1>2. FileOK(file) /\ MaxPixels \in Nat
  BY <1>1, FilesAreFiles
<1>3. file.type = "webp"
  BY <1>1 DEF WebPWalk
<1>4. CASE pictures = 1 /\ canvas \in {NoSize, picture}
  <2>1. Walked(file)
    BY <1>1, <1>2, <1>4, WebPEnds
  <2> QED BY <1>4, <2>1, MovesTo DEF WebPEnd
<1>5. CASE ~(pictures = 1 /\ canvas \in {NoSize, picture})
  <2>1. ~AcceptableImage(file)
    BY <1>1, <1>2, <1>3, <1>5, WebPEndGood DEF AcceptableImage
  <2> QED BY <1>5, <2>1, RefuseKeeps DEF WebPEnd
<1> QED BY <1>4, <1>5

\* A walked WebP is acceptable when its first chunk tells a size and is not too
\* short for it to be read; and that size is allowed.
LEMMA FirstChunk ==
    ASSUME NEW f, FileOK(f), MaxPixels \in Nat, WalkedWebP(f)
    PROVE  /\ f.parts # <<>> /\ 1 \in 1..Len(f.parts)
           /\ f.parts[1].kind \in {"VP8", "VP8L", "VP8X", "metadata"}
           /\ AcceptableWebP(f) <=> f.parts[1].kind # "metadata" /\ f.length >= 30
           /\ f.parts[1].kind # "metadata" =>
                 /\ Fits([w |-> f.parts[1].w, h |-> f.parts[1].h])
                 /\ Bounded([w |-> f.parts[1].w, h |-> f.parts[1].h])
<1>1. f.parts \in Seq(ImagePart)
  BY DEF FileOK
<1>2. \E i \in 1..Len(f.parts) : TRUE
  BY DEF WalkedWebP, Only
<1>3. f.parts # <<>> /\ 1 \in 1..Len(f.parts)
  BY <1>1, <1>2
<1>4. f.parts[1] \in Parts(f)
  BY <1>3, PartOfFile
<1>5. /\ f.parts[1].kind \in {"VP8", "VP8L", "VP8X", "metadata"}
      /\ f.parts[1].kind # "metadata" => Bounded(f.parts[1])
  BY <1>4 DEF WalkedWebP
<1>6. AcceptableWebP(f) <=> f.parts[1].kind # "metadata" /\ f.length >= 30
  BY DEF WalkedWebP, AcceptableWebP
<1>7. Fits([w |-> f.parts[1].w, h |-> f.parts[1].h]) <=> Bounded(f.parts[1])
  BY <1>3, PartFits
<1>8. Bounded([w |-> f.parts[1].w, h |-> f.parts[1].h]) <=> Bounded(f.parts[1])
  BY DEF Bounded
<1> QED BY <1>3, <1>5, <1>6, <1>7, <1>8

\* The dimensions.
LEMMA InspectKeeps ==
    ASSUME ImageInv, InspectImage
    PROVE  ImageInv'
<1> DEFINE d == IF file.type = "webp" THEN WebPDimensions
                ELSE IF file.sound THEN file.canvas ELSE NoSize
<1>1. file \in ImageFiles /\ Walked(file) /\ verdict = "dimensions"
  BY DEF ImageInv, InspectImage
<1>2. FileOK(file) /\ MaxPixels \in Nat
  BY <1>1, FilesAreFiles
<1>3. file.canvas.w \in Nat /\ file.canvas.h \in Nat
  BY <1>2 DEF FileOK, ImageSize
<1>4. Fits(file.canvas) <=> Bounded(file.canvas)
  BY <1>2, <1>3, FitsIsBounded
<1>5. ~Fits(NoSize)
  BY DEF Fits, NoSize
<1>6. /\ Fits(d) => /\ Bounded(d) /\ file.sound /\ (file.type = "webp" \/ Bounded(file.canvas))
                    /\ file.type = "webp" => AcceptableWebP(file)
      /\ ~Fits(d) => ~AcceptableImage(file)
  <2>1. CASE file.type = "webp"
    <3>1. file.sound /\ WalkedWebP(file) /\ d = WebPDimensions
      BY <1>1, <2>1 DEF Walked
    <3>2. CASE file.parts[1].kind = "metadata" \/ ~(file.length >= 30)
      <4>1. d = NoSize
        BY <3>1, <3>2 DEF WebPDimensions, WebPHeaderBytes
      <4>2. ~AcceptableWebP(file)
        BY <1>2, <3>1, <3>2, FirstChunk
      <4> QED BY <1>5, <2>1, <4>1, <4>2 DEF AcceptableImage
    <3>3. CASE file.parts[1].kind # "metadata" /\ file.length >= 30
      <4>1. d = [w |-> file.parts[1].w, h |-> file.parts[1].h]
        BY <1>2, <3>1, <3>3, FirstChunk DEF WebPDimensions, WebPHeaderBytes
      <4>2. Fits(d) /\ Bounded(d) /\ AcceptableWebP(file)
        BY <1>2, <3>1, <3>3, <4>1, FirstChunk
      <4> QED BY <2>1, <3>1, <4>2
    <3> QED BY <3>2, <3>3
  <2>2. CASE file.type # "webp" /\ file.sound
    <3>1. d = file.canvas
      BY <2>2
    <3> QED BY <1>4, <2>2, <3>1 DEF AcceptableImage
  <2>3. CASE file.type # "webp" /\ ~file.sound
    <3>1. d = NoSize
      BY <2>3
    <3> QED BY <1>5, <2>3, <3>1 DEF AcceptableImage
  <2> QED BY <2>1, <2>2, <2>3
<1>7. IF Fits(d) THEN size' = d /\ verdict' = "declared" /\ file' = file ELSE Refuse
  BY DEF InspectImage
<1> HIDE DEF d
<1>8. CASE Fits(d)
  <2>1. size' = d /\ verdict' = "declared" /\ file' = file
    BY <1>7, <1>8
  <2>2. (Bounded(size))'
    BY <1>6, <1>8, <2>1 DEF Bounded
  <2> QED BY <1>1, <1>6, <1>8, <2>1, <2>2 DEF ImageInv, InspectionIsExact
<1>9. CASE ~Fits(d)
  BY <1>6, <1>7, <1>9, RefuseKeeps
<1> QED BY <1>8, <1>9

\* The declared type.
LEMMA MatchingKeeps ==
    ASSUME ImageInv, MatchingDeclaredMIME
    PROVE  ImageInv'
<1>1. /\ file \in ImageFiles /\ Walked(file) /\ file.sound /\ Bounded(size)
      /\ file.type = "webp" \/ Bounded(file.canvas)
      /\ file.type = "webp" => AcceptableWebP(file)
  BY DEF ImageInv, MatchingDeclaredMIME
<1>2. CASE Declares(file)
  <2>1. AcceptableImage(file)
    BY <1>1, <1>2 DEF AcceptableImage, Walked
  <2>2. file' = file /\ size' = size /\ verdict' = "accepted"
    BY <1>2 DEF MatchingDeclaredMIME
  <2>3. (Bounded(size))'
    BY <1>1, <2>2 DEF Bounded
  <2> QED BY <1>1, <2>1, <2>2, <2>3 DEF ImageInv, InspectionIsExact
<1>3. CASE ~Declares(file)
  <2>1. ~AcceptableImage(file)
    BY <1>3 DEF AcceptableImage
  <2> QED BY <1>3, <2>1, RefuseKeeps DEF MatchingDeclaredMIME
<1> QED BY <1>2, <1>3

\* For every set of files and every limit, the inspection of inspectImage accepts
\* exactly the acceptable files, whatever the number and the order of their parts.
THEOREM ImageInspectionIsExact == ImageSpec => []InspectionIsExact
<1>1. ImageInit => ImageInv
  BY DEF ImageInit, ImageInv, InspectionIsExact
<1>2. ImageInv /\ [ImageNext]_imageVars => ImageInv'
  <2> SUFFICES ASSUME ImageInv, [ImageNext]_imageVars PROVE ImageInv'
    OBVIOUS
  <2>1. CASE UNCHANGED imageVars
    BY <2>1 DEF imageVars, ImageInv, InspectionIsExact, Bounded
  <2> QED BY <2>1, SniffKeeps, GIFHeaderKeeps, GIFBlockKeeps, WebPHeaderKeeps, WebPChunkKeeps,
             WebPEndKeeps, InspectKeeps, MatchingKeeps DEF ImageNext
<1>3. ImageInv => InspectionIsExact
  BY DEF ImageInv
<1> QED BY <1>1, <1>2, <1>3, PTL DEF ImageSpec

-----------------------------------------------------------------------------
(***************************************************************************)
(* Proof that the answers of the contact book hold: about labels, about    *)
(* what a sync was told, and that a listing leaves out nothing it owes.    *)
(***************************************************************************)

ApiRecord ==
    [pc : {"new", "refused", "page", "broken", "next", "done", "create", "relist", "sync"},
     slug : Slugs \cup {Nothing}, todo : Seq(ListedContact),
     seen : UNION {[D -> PhoneNumbers] : D \in SUBSET ContactIdentities},
     refused : SUBSET ContactIdentities, answer : ApiCalls \cup {Nothing},
     after : Nat, listed : SUBSET ContactIds, owed : SUBSET ContactIds,
     wears : SUBSET Slugs, more : BOOLEAN]

BookTypeOK ==
    /\ contacts \in [PhoneNumbers -> ContactRow \cup {Nothing}]
    /\ sources \in [ContactIdentities -> PhoneNumbers \cup {Nothing}]
    /\ labels \in [Slugs -> ApiCalls \cup {Nothing}]
    /\ api \in [ApiCalls -> ApiRecord]

\* A label somebody wears is stored.
WornIsStored == \A p \in PhoneNumbers, g \in Slugs : <<p, g>> \in tagged => labels[g] # Nothing

\* The label a call asks for.
LabelKnown(a) ==
    /\ a.slug # Nothing => a.pc \in {"create", "relist", "done"}
    /\ a.pc \in {"create", "relist"} => a.slug # Nothing
    /\ a.pc = "relist" => labels[a.slug] # Nothing
    /\ a.pc = "done" /\ a.slug # Nothing => a.answer # Nothing /\ a.answer = labels[a.slug]
    /\ \A g \in a.wears : labels[g] # Nothing
    /\ a.pc # "broken"

\* What a sync was told of an identity.
SeenHolds(a) ==
    /\ a.refused \subseteq DOMAIN a.seen
    /\ \A s \in DOMAIN a.seen :
         IF s \in a.refused THEN sources[s] # Nothing /\ sources[s] # a.seen[s]
         ELSE sources[s] = a.seen[s] /\ KnownPeople(a.seen[s])

\* What a listing owes its caller is known, and listed or after the cursor.
ListingHolds(a) ==
    /\ a.pc \notin {"page", "next", "done"} => a.owed = {}
    /\ a.pc \in {"page", "next"} => \A i \in a.owed : i \in KnownIds /\ (i \in a.listed \/ i > a.after)
    /\ a.pc = "page" /\ ~a.more => a.owed \subseteq a.listed
    /\ a.pc = "done" => a.owed \subseteq a.listed
    /\ a.pc = "new" => a.after = 0 /\ a.listed = {}

CallHolds(a) == LabelKnown(a) /\ SeenHolds(a) /\ ListingHolds(a)

BookInv == BookTypeOK /\ WornIsStored /\ \A r \in ApiCalls : CallHolds(api[r])

(* The invariant says what the property asks. *)
LEMMA BookInvSuffices == BookInv => AnswersHold
<1> SUFFICES ASSUME BookInv, NEW r \in ApiCalls
             PROVE  /\ api[r].pc = "done" /\ api[r].slug # Nothing
                         => api[r].answer # Nothing /\ api[r].answer = labels[api[r].slug]
                    /\ \A s \in DOMAIN api[r].seen :
                         IF s \in api[r].refused
                         THEN sources[s] # api[r].seen[s]
                         ELSE sources[s] = api[r].seen[s] /\ KnownPeople(api[r].seen[s])
                    /\ api[r].pc = "done" => api[r].owed \subseteq api[r].listed
                    /\ api[r].pc # "broken"
  BY DEF AnswersHold
<1> QED
  BY DEF BookInv, CallHolds, LabelKnown, SeenHolds, ListingHolds

\* Contacts, their ids, sources and labels stay once they are there.
BookGrows ==
    /\ \A p \in PhoneNumbers : KnownPeople(p) => KnownPeople(p)' /\ contacts'[p].id = contacts[p].id
    /\ \A s \in ContactIdentities : sources[s] # Nothing => sources'[s] = sources[s]
    /\ \A g \in Slugs : labels[g] # Nothing => labels'[g] = labels[g]

(* While the book grows, a call that rests keeps what it was told. *)
LEMMA BookCallRests ==
    ASSUME BookInv, BookGrows, NEW a \in ApiRecord, CallHolds(a)
    PROVE  /\ LabelKnown(a)' /\ SeenHolds(a)' /\ ListingHolds(a)'
<1>1. KnownIds \subseteq KnownIds'
  <2> SUFFICES ASSUME NEW p \in PhoneNumbers, KnownPeople(p)
               PROVE  contacts[p].id \in KnownIds'
    BY DEF KnownIds
  <2> QED
    BY DEF BookGrows, KnownIds
<1>2. LabelKnown(a)'
  <2>1. a.slug # Nothing => a.slug \in Slugs
    BY DEF ApiRecord
  <2>2. a.wears \subseteq Slugs
    BY DEF ApiRecord
  <2> QED
    BY <2>1, <2>2 DEF BookGrows, CallHolds, LabelKnown
<1>3. SeenHolds(a)'
  <2> SUFFICES ASSUME NEW s \in DOMAIN a.seen
               PROVE  IF s \in a.refused THEN sources'[s] # Nothing /\ sources'[s] # a.seen[s]
                      ELSE sources'[s] = a.seen[s] /\ KnownPeople(a.seen[s])'
    BY DEF CallHolds, SeenHolds
  <2>1. PICK D \in SUBSET ContactIdentities : a.seen \in [D -> PhoneNumbers]
    BY DEF ApiRecord
  <2>2. s \in ContactIdentities /\ a.seen[s] \in PhoneNumbers /\ a.seen[s] # Nothing
    BY <2>1, BookAssumption
  <2>3. CASE s \in a.refused
    BY <2>2, <2>3 DEF CallHolds, SeenHolds, BookGrows
  <2>4. CASE s \notin a.refused
    BY <2>2, <2>4 DEF CallHolds, SeenHolds, BookGrows
  <2> QED
    BY <2>3, <2>4
<1>4. ListingHolds(a)'
  BY <1>1 DEF CallHolds, ListingHolds
<1> QED
  BY <1>2, <1>3, <1>4

(* A call moves on while the book grows. *)
LEMMA BookCallWritten ==
    ASSUME BookInv, BookGrows, NEW r \in ApiCalls, NEW a \in ApiRecord,
           api' = [api EXCEPT ![r] = a],
           contacts' \in [PhoneNumbers -> ContactRow \cup {Nothing}],
           sources' \in [ContactIdentities -> PhoneNumbers \cup {Nothing}],
           labels' \in [Slugs -> ApiCalls \cup {Nothing}],
           WornIsStored', LabelKnown(a)', SeenHolds(a)', ListingHolds(a)'
    PROVE  BookInv'
<1>1. BookTypeOK'
  BY DEF BookInv, BookTypeOK
<1>2. api'[r] = a /\ \A q \in ApiCalls \ {r} : api'[q] = api[q]
  BY DEF BookInv, BookTypeOK
<1>3. ASSUME NEW q \in ApiCalls \ {r}
      PROVE  LabelKnown(api[q])' /\ SeenHolds(api[q])' /\ ListingHolds(api[q])'
  <2>1. api[q] \in ApiRecord /\ CallHolds(api[q])
    BY DEF BookInv, BookTypeOK
  <2>2. api'[q] = api[q]
    BY <1>2
  <2>3. PICK x \in ApiRecord : x = api[q]
    BY <2>1
  <2>4. LabelKnown(x)' /\ SeenHolds(x)' /\ ListingHolds(x)'
    BY <2>1, <2>3, BookCallRests
  <2> QED
    BY <2>2, <2>3, <2>4 DEF LabelKnown, SeenHolds, ListingHolds, KnownPeople, KnownIds
<1>4. LabelKnown(api[r])' /\ SeenHolds(api[r])' /\ ListingHolds(api[r])'
  BY <1>2 DEF LabelKnown, SeenHolds, ListingHolds, KnownPeople, KnownIds
<1> QED
  BY <1>1, <1>3, <1>4 DEF BookInv, CallHolds

(* A call moves on and the book stays, but for labels put on or taken off. *)
LEMMA BookStill ==
    ASSUME BookInv, NEW r \in ApiCalls, NEW a \in ApiRecord, api' = [api EXCEPT ![r] = a],
           UNCHANGED <<contacts, sources, labels>>, WornIsStored', CallHolds(a)
    PROVE  BookInv'
<1>1. BookTypeOK'
  BY DEF BookInv, BookTypeOK
<1>2. api'[r] = a /\ \A q \in ApiCalls \ {r} : api'[q] = api[q]
  BY DEF BookInv, BookTypeOK
<1>3. ASSUME NEW q \in ApiCalls
      PROVE  CallHolds(api[q])'
  <2>1. CASE q = r
    BY <1>2, <2>1 DEF CallHolds, LabelKnown, SeenHolds, ListingHolds, KnownPeople, KnownIds
  <2>2. CASE q # r
    BY <1>2, <2>2 DEF BookInv, CallHolds, LabelKnown, SeenHolds, ListingHolds, KnownPeople, KnownIds
  <2> QED
    BY <2>1, <2>2
<1> QED
  BY <1>1, <1>3 DEF BookInv

(* Nobody wears more while the labels and the tags stay. *)
LEMMA WornStays ==
    ASSUME BookInv, UNCHANGED <<labels, tagged>>
    PROVE  WornIsStored'
BY DEF BookInv, WornIsStored

(* A call that ends before or during a sync holds what it knew. *)
LEMMA RepliedHolds ==
    ASSUME BookInv, NEW r \in ApiCalls, api[r].pc \in {"new", "sync"}, NEW pc \in {"done", "refused"}
    PROVE  /\ [api[r] EXCEPT !.pc = pc] \in ApiRecord
           /\ CallHolds([api[r] EXCEPT !.pc = pc])
           /\ [api EXCEPT ![r].pc = pc] = [api EXCEPT ![r] = [api[r] EXCEPT !.pc = pc]]
<1> DEFINE b == api[r]
           a == [b EXCEPT !.pc = pc]
<1>1. b \in ApiRecord /\ CallHolds(b) /\ api \in [ApiCalls -> ApiRecord]
  BY DEF BookInv, BookTypeOK
<1>2. /\ a \in ApiRecord /\ a.pc = pc /\ a.slug = b.slug /\ a.seen = b.seen /\ a.refused = b.refused
      /\ a.wears = b.wears /\ a.owed = b.owed /\ a.listed = b.listed /\ a.after = b.after
  BY <1>1 DEF ApiRecord
<1>3. b.slug = Nothing /\ b.owed = {}
  BY <1>1 DEF CallHolds, LabelKnown, ListingHolds
<1>4. [api EXCEPT ![r].pc = pc] = [api EXCEPT ![r] = a]
  BY <1>1
<1> HIDE DEF a
<1>5. LabelKnown(a)
  BY <1>1, <1>2, <1>3 DEF CallHolds, LabelKnown
<1>6. SeenHolds(a)
  BY <1>1, <1>2 DEF CallHolds, SeenHolds
<1>7. ListingHolds(a)
  BY <1>2, <1>3 DEF ListingHolds
<1> QED
  BY <1>2, <1>4, <1>5, <1>6, <1>7 DEF CallHolds, a

(* The calls that answer at once and leave contacts, sources and labels alone. *)
LEMMA RepliesKeep ==
    ASSUME BookInv, NEW r \in ApiCalls, api[r].pc \in {"new", "sync"}, NEW pc \in {"done", "refused"},
           api' = [api EXCEPT ![r].pc = pc], UNCHANGED <<contacts, sources, labels>>, WornIsStored'
    PROVE  BookInv'
<1> DEFINE a == [api[r] EXCEPT !.pc = pc]
<1>1. a \in ApiRecord /\ CallHolds(a) /\ api' = [api EXCEPT ![r] = a]
  BY RepliedHolds
<1> HIDE DEF a
<1> QED
  BY <1>1, BookStill

(* Labels put on and taken off: only a stored label is put on. *)
LEMMA LabelMovesKeep ==
    ASSUME BookInv, NEW r \in ApiCalls, api[r].pc = "new", NEW phone \in PhoneNumbers, NEW slug \in Slugs,
           AttachLabel(r, phone, slug) \/ DetachLabel(r, phone, slug)
    PROVE  BookInv'
<1>1. UNCHANGED <<contacts, sources, labels>> /\ api' = [api EXCEPT ![r].pc = "done"]
  BY DEF AttachLabel, DetachLabel, Replied
<1>2. WornIsStored'
  <2>1. CASE DetachLabel(r, phone, slug)
    BY <1>1, <2>1 DEF DetachLabel, BookInv, WornIsStored
  <2>2. CASE AttachLabel(r, phone, slug)
    <3>1. tagged' = tagged \/ (tagged' = tagged \cup {<<phone, slug>>} /\ labels[slug] # Nothing)
      BY <2>2 DEF AttachLabel
    <3> QED
      BY <1>1, <3>1 DEF BookInv, WornIsStored
  <2> QED
    BY <2>1, <2>2
<1> QED
  BY <1>1, <1>2, RepliesKeep

(* A contact's row changes, or a contact gets one: its id stays. *)
LEMMA RowWrittenGrows ==
    ASSUME BookInv, NEW phone \in PhoneNumbers, NEW row \in ContactRow,
           contacts' = [contacts EXCEPT ![phone] = row],
           KnownPeople(phone) => row.id = contacts[phone].id,
           \A s \in ContactIdentities : sources[s] # Nothing => sources'[s] = sources[s],
           UNCHANGED labels
    PROVE  /\ BookGrows /\ contacts' \in [PhoneNumbers -> ContactRow \cup {Nothing}]
           /\ KnownPeople(phone)'
<1>1. contacts \in [PhoneNumbers -> ContactRow \cup {Nothing}]
  BY DEF BookInv, BookTypeOK
<1>2. contacts'[phone] = row /\ \A p \in PhoneNumbers \ {phone} : contacts'[p] = contacts[p]
  BY <1>1
<1>3. row # Nothing
  BY BookAssumption
<1> QED
  BY <1>1, <1>2, <1>3 DEF BookGrows, KnownPeople

(* The row an alias is written to. *)
LEMMA AliasWritten ==
    ASSUME BookInv, NEW phone \in PhoneNumbers, KnownPeople(phone), NEW alias \in Aliases \cup {Nothing}
    PROVE  /\ [contacts[phone] EXCEPT !.alias = alias] \in ContactRow
           /\ [contacts[phone] EXCEPT !.alias = alias].id = contacts[phone].id
           /\ [contacts EXCEPT ![phone].alias = alias] = [contacts EXCEPT ![phone] = [contacts[phone] EXCEPT !.alias = alias]]
<1>1. contacts \in [PhoneNumbers -> ContactRow \cup {Nothing}] /\ contacts[phone] \in ContactRow
  BY DEF BookInv, BookTypeOK, KnownPeople
<1> QED
  BY <1>1 DEF ContactRow

(* An alias is set or cleared. *)
LEMMA PatchContactKeeps ==
    ASSUME BookInv, NEW r \in ApiCalls, api[r].pc = "new", NEW phone \in PhoneNumbers,
           NEW alias \in Aliases \cup {Nothing}, PatchContact(r, phone, alias)
    PROVE  BookInv'
<1>1. UNCHANGED <<sources, labels, tagged>> /\ api' = [api EXCEPT ![r].pc = "done"]
  BY DEF PatchContact, Replied
<1>2. WornIsStored'
  BY <1>1, WornStays
<1>3. CASE ~KnownPeople(phone)
  <2>1. contacts' = contacts
    BY <1>3 DEF PatchContact
  <2> QED
    BY <1>1, <1>2, <2>1, RepliesKeep
<1>4. CASE KnownPeople(phone)
  <2>1. PICK row \in ContactRow : row.id = contacts[phone].id /\ contacts' = [contacts EXCEPT ![phone] = row]
    BY <1>4, AliasWritten DEF PatchContact
  <2>2. BookGrows /\ contacts' \in [PhoneNumbers -> ContactRow \cup {Nothing}]
    BY <1>1, <2>1, RowWrittenGrows
  <2>3. PICK a \in ApiRecord : a = [api[r] EXCEPT !.pc = "done"]
    BY RepliedHolds
  <2>4. CallHolds(a) /\ api' = [api EXCEPT ![r] = a]
    BY <1>1, <2>3, RepliedHolds
  <2>5. LabelKnown(a)' /\ SeenHolds(a)' /\ ListingHolds(a)'
    BY <2>2, <2>4, BookCallRests
  <2>6. sources' \in [ContactIdentities -> PhoneNumbers \cup {Nothing}] /\ labels' \in [Slugs -> ApiCalls \cup {Nothing}]
    BY <1>1 DEF BookInv, BookTypeOK
  <2> QED
    BY <1>2, <2>2, <2>4, <2>5, <2>6, BookCallWritten
<1> QED
  BY <1>3, <1>4

(* A contact is put: its answer names labels that are stored. *)
LEMMA PutContactKeeps ==
    ASSUME BookInv, NEW r \in ApiCalls, api[r].pc = "new", NEW phone \in PhoneNumbers,
           NEW alias \in Aliases \cup {Nothing}, NEW id \in FreshIds, NEW given \in BOOLEAN,
           PutContact(r, id, phone, alias, given)
    PROVE  BookInv'
<1> DEFINE b == api[r]
           worn == Worn({phone})
<1>1. UNCHANGED <<sources, labels, tagged>>
  BY DEF PutContact
<1>2. WornIsStored'
  BY <1>1, WornStays
<1>3. worn \subseteq Slugs /\ \A g \in worn : labels[g] # Nothing
  BY DEF Worn, BookInv, WornIsStored
<1>4. b \in ApiRecord /\ CallHolds(b) /\ api \in [ApiCalls -> ApiRecord] /\ b.pc = "new"
  BY DEF BookInv, BookTypeOK
<1>5. api' = [api EXCEPT ![r].pc = "page", ![r].wears = worn]
  BY DEF PutContact
<1> HIDE DEF worn
<1>6. PICK a \in ApiRecord : a = [b EXCEPT !.pc = "page", !.wears = worn]
  BY <1>3, <1>4 DEF ApiRecord
<1>7. api' = [api EXCEPT ![r] = a]
  BY <1>4, <1>5, <1>6
<1>8. /\ a.pc = "page" /\ a.wears = worn /\ a.slug = b.slug /\ a.seen = b.seen /\ a.refused = b.refused
      /\ a.owed = b.owed /\ a.listed = b.listed
  BY <1>4, <1>6 DEF ApiRecord
<1>9. b.slug = Nothing /\ b.owed = {}
  BY <1>4 DEF CallHolds, LabelKnown, ListingHolds
<1>10. CallHolds(a)
  <2>1. LabelKnown(a)
    BY <1>3, <1>8, <1>9 DEF LabelKnown
  <2>2. SeenHolds(a)
    BY <1>4, <1>8 DEF CallHolds, SeenHolds
  <2>3. ListingHolds(a)
    BY <1>8, <1>9 DEF ListingHolds
  <2> QED
    BY <2>1, <2>2, <2>3 DEF CallHolds
<1>11. CASE contacts' = contacts
  BY <1>1, <1>2, <1>7, <1>10, <1>11, BookStill
<1>12. ASSUME NEW row \in ContactRow, contacts' = [contacts EXCEPT ![phone] = row],
              KnownPeople(phone) => row.id = contacts[phone].id
       PROVE  BookInv'
  <2>1. BookGrows /\ contacts' \in [PhoneNumbers -> ContactRow \cup {Nothing}]
    BY <1>1, <1>12, RowWrittenGrows
  <2>2. LabelKnown(a)' /\ SeenHolds(a)' /\ ListingHolds(a)'
    BY <1>10, <2>1, BookCallRests
  <2>3. sources' \in [ContactIdentities -> PhoneNumbers \cup {Nothing}] /\ labels' \in [Slugs -> ApiCalls \cup {Nothing}]
    BY <1>1 DEF BookInv, BookTypeOK
  <2> QED
    BY <1>2, <1>7, <2>1, <2>2, <2>3, BookCallWritten
<1>13. CASE KnownPeople(phone)
  <2>1. contacts' = contacts \/ contacts' = [contacts EXCEPT ![phone].alias = alias]
    BY <1>13 DEF PutContact, UpsertServerContact
  <2>2. CASE contacts' = [contacts EXCEPT ![phone].alias = alias]
    <3>1. PICK row \in ContactRow : row.id = contacts[phone].id /\ contacts' = [contacts EXCEPT ![phone] = row]
      BY <1>13, <2>2, AliasWritten
    <3> QED
      BY <1>12, <3>1
  <2> QED
    BY <1>11, <2>1, <2>2
<1>14. CASE ~KnownPeople(phone)
  <2> DEFINE given2 == IF given THEN alias ELSE Nothing
             row == [id |-> id, alias |-> given2, name |-> Nothing]
  <2>1. given2 \in Aliases \cup {Nothing} /\ id \in ContactIds
    BY DEF FreshIds
  <2>2. contacts' = [contacts EXCEPT ![phone] = row]
    BY <1>14 DEF PutContact, UpsertServerContact
  <2> HIDE DEF given2
  <2>3. row \in ContactRow
    BY <2>1 DEF ContactRow
  <2> HIDE DEF row
  <2> QED
    BY <1>12, <1>14, <2>2, <2>3
<1> QED
  BY <1>13, <1>14

(* A page: what is owed is on a page read or after the cursor. *)
LEMMA ListContactsKeeps ==
    ASSUME BookInv, NEW r \in ApiCalls, api[r].pc \in {"new", "next"}, ListContacts(r)
    PROVE  BookInv'
<1> DEFINE b == api[r]
           K == KnownIds
           later == Later(r)
           page == Page(r)
           more == page # later
           last == CHOOSE i \in page : \A j \in page : j <= i
           owed == IF b.pc = "new" THEN K ELSE b.owed
           after == IF more THEN last ELSE b.after
           worn == Worn({p \in PhoneNumbers : KnownPeople(p) /\ contacts[p].id \in page})
           a == [b EXCEPT !.pc = "page", !.owed = owed, !.listed = b.listed \cup page,
                          !.after = after, !.more = more, !.wears = worn]
<1>1. b \in ApiRecord /\ CallHolds(b) /\ api \in [ApiCalls -> ApiRecord]
  BY DEF BookInv, BookTypeOK
<1>2. b.after \in Nat /\ b.listed \in SUBSET ContactIds /\ b.owed \in SUBSET ContactIds
  BY <1>1 DEF ApiRecord
<1>3. K \in SUBSET ContactIds /\ K \in SUBSET Nat
  <2>1. ASSUME NEW p \in PhoneNumbers, KnownPeople(p)
        PROVE  contacts[p].id \in ContactIds
    BY <2>1 DEF BookInv, BookTypeOK, KnownPeople, ContactRow
  <2> QED
    BY <2>1, BookAssumption DEF KnownIds
<1>4. page = PageAfter(K, b.after, PageLimit)
  <2>1. \A i : {j \in later : j <= i} = UpTo(K, b.after, i)
    BY <1>2, <1>3 DEF Later, UpTo
  <2> QED
    BY <2>1 DEF Page, PageAfter, Later
<1>5. page \subseteq K /\ page \subseteq later /\ \A x \in K : x > b.after => x \in later
  BY DEF Page, Later
<1>6. more => last \in page /\ \A j \in page : j <= last
  <2> SUFFICES ASSUME more
               PROVE  \E i \in page : \A j \in page : j <= i
    OBVIOUS
  <2>1. PICK x \in later : x \notin page
    BY <1>5
  <2>2. x \in K /\ x > b.after /\ x \notin PageAfter(K, b.after, PageLimit)
    BY <1>4, <2>1 DEF Later
  <2> QED
    BY <1>2, <1>3, <1>4, <2>2, PageHasLast, BookAssumption
<1>7. after \in Nat /\ owed \in SUBSET ContactIds
  BY <1>2, <1>3, <1>5, <1>6
<1>8. worn \subseteq Slugs /\ \A g \in worn : labels[g] # Nothing
  BY DEF Worn, BookInv, WornIsStored
<1>9. api' = [api EXCEPT ![r] = a]
  <2>1. api' = [api EXCEPT ![r].pc = "page", ![r].owed = owed, ![r].listed = @ \cup page,
                           ![r].after = after, ![r].more = more, ![r].wears = worn]
    BY DEF ListContacts
  <2> HIDE DEF owed, page, after, more, worn
  <2> QED
    BY <1>1, <2>1
<1>10. more \in BOOLEAN
  OBVIOUS
\* What was owed is known, and listed or after the old cursor.
<1>11. \A i \in owed : i \in K /\ (i \in b.listed \/ i > b.after)
  <2>1. CASE b.pc = "next"
    BY <1>1, <2>1 DEF CallHolds, ListingHolds
  <2>2. CASE b.pc = "new"
    <3>1. b.after = 0 /\ owed = K
      BY <1>1, <2>2 DEF CallHolds, ListingHolds
    <3>2. \A i \in K : i > 0
      BY <1>3, BookAssumption
    <3> QED
      BY <3>1, <3>2
  <2> QED
    BY <2>1, <2>2
<1>12. ASSUME NEW i \in owed, more
       PROVE  i \in b.listed \cup page \/ i > last
  <2> SUFFICES ASSUME i > b.after, ~(i > last)
               PROVE  i \in page
    BY <1>11
  <2>1. i \in Nat /\ i \in K /\ last \in Nat /\ last \in page
    BY <1>3, <1>5, <1>6, <1>11, <1>12
  <2>2. i <= last
    BY <2>1
  <2> HIDE DEF page, last
  <2> QED
    BY <1>2, <1>3, <1>4, <2>1, <2>2, PageIsClosed, BookAssumption
<1>13. ~more => owed \subseteq b.listed \cup page
  <2> SUFFICES ASSUME ~more, NEW i \in owed
               PROVE  i \in b.listed \cup page
    OBVIOUS
  <2> QED
    BY <1>5, <1>11
<1>14. page \in SUBSET ContactIds
  BY <1>3, <1>5
<1> HIDE DEF owed, page, after, more, worn, K, later, last
<1>15. /\ a \in ApiRecord /\ a.pc = "page" /\ a.owed = owed /\ a.listed = b.listed \cup page
       /\ a.after = after /\ a.more = more /\ a.wears = worn
       /\ a.slug = b.slug /\ a.seen = b.seen /\ a.refused = b.refused
  BY <1>1, <1>2, <1>7, <1>8, <1>10, <1>14 DEF ApiRecord
<1> HIDE DEF a
<1>16. LabelKnown(a)
  <2>1. b.slug = Nothing
    BY <1>1 DEF CallHolds, LabelKnown
  <2> QED
    BY <1>8, <1>15, <2>1 DEF LabelKnown
<1>17. SeenHolds(a)
  BY <1>1, <1>15 DEF CallHolds, SeenHolds
<1>18. ListingHolds(a)
  <2>1. CASE more
    <3>1. a.after = last
      BY <1>15, <2>1 DEF after
    <3>2. \A i \in a.owed : i \in KnownIds /\ (i \in a.listed \/ i > a.after)
      BY <1>11, <1>12, <1>15, <2>1, <3>1 DEF K
    <3> QED
      BY <1>15, <2>1, <3>2 DEF ListingHolds
  <2>2. CASE ~more
    <3>1. \A i \in a.owed : i \in KnownIds /\ i \in a.listed
      BY <1>11, <1>13, <1>15, <2>2 DEF K
    <3> QED
      BY <1>15, <3>1 DEF ListingHolds
  <2> QED
    BY <2>1, <2>2
<1>19. UNCHANGED <<contacts, sources, labels, tagged>>
  BY DEF ListContacts
<1>20. WornIsStored'
  BY <1>19, WornStays
<1> QED
  BY <1>9, <1>15, <1>16, <1>17, <1>18, <1>19, <1>20, BookStill DEF CallHolds

(* The answer of a page: every label on it is found. *)
LEMMA MakeContactResponseKeeps ==
    ASSUME BookInv, NEW r \in ApiCalls, MakeContactResponse(r)
    PROVE  BookInv'
<1> DEFINE b == api[r]
           pc == IF b.more THEN "next" ELSE "done"
           a == [b EXCEPT !.pc = pc]
<1>1. b \in ApiRecord /\ CallHolds(b) /\ api \in [ApiCalls -> ApiRecord] /\ b.pc = "page" /\ b.more \in BOOLEAN
  BY DEF BookInv, BookTypeOK, MakeContactResponse, ApiRecord
<1>2. ~\E g \in b.wears : labels[g] = Nothing
  BY <1>1 DEF CallHolds, LabelKnown
<1>3. api' = [api EXCEPT ![r].pc = pc]
  BY <1>2 DEF MakeContactResponse
<1>4. pc \in {"next", "done"} /\ (pc = "done" => ~b.more)
  OBVIOUS
<1> HIDE DEF pc
<1>5. api' = [api EXCEPT ![r] = a]
  BY <1>1, <1>3
<1>6. /\ a \in ApiRecord /\ a.pc = pc /\ a.owed = b.owed /\ a.listed = b.listed
      /\ a.after = b.after /\ a.more = b.more /\ a.wears = b.wears
      /\ a.slug = b.slug /\ a.seen = b.seen /\ a.refused = b.refused
  BY <1>1, <1>4 DEF ApiRecord
<1> HIDE DEF a
<1>7. LabelKnown(a)
  BY <1>1, <1>4, <1>6 DEF CallHolds, LabelKnown
<1>8. SeenHolds(a)
  BY <1>1, <1>6 DEF CallHolds, SeenHolds
<1>9. ListingHolds(a)
  BY <1>1, <1>4, <1>6 DEF CallHolds, ListingHolds
<1>10. UNCHANGED <<contacts, sources, labels, tagged>>
  BY DEF MakeContactResponse
<1>11. WornIsStored'
  BY <1>10, WornStays
<1> QED
  BY <1>5, <1>6, <1>7, <1>8, <1>9, <1>10, <1>11, BookStill DEF CallHolds

(* A call for a label finds it, or goes on to create it. *)
LEMMA ListLabelsKeeps ==
    ASSUME BookInv, NEW r \in ApiCalls, api[r].pc = "new", NEW slug \in Slugs, ListLabels(r, slug)
    PROVE  BookInv'
<1> DEFINE b == api[r]
           pc == IF labels[slug] = Nothing THEN "create" ELSE "done"
           a == [b EXCEPT !.pc = pc, !.slug = slug, !.answer = labels[slug]]
<1>1. b \in ApiRecord /\ CallHolds(b) /\ api \in [ApiCalls -> ApiRecord]
      /\ labels[slug] \in ApiCalls \cup {Nothing} /\ slug # Nothing
  BY BookAssumption DEF BookInv, BookTypeOK
<1>2. api' = [api EXCEPT ![r].pc = pc, ![r].slug = slug, ![r].answer = labels[slug]]
  BY DEF ListLabels
<1>3. pc \in {"create", "done"} /\ (pc = "done" => labels[slug] # Nothing)
  OBVIOUS
<1> HIDE DEF pc
<1>4. api' = [api EXCEPT ![r] = a]
  BY <1>1, <1>2
<1>5. /\ a \in ApiRecord /\ a.pc = pc /\ a.owed = b.owed /\ a.listed = b.listed
      /\ a.wears = b.wears /\ a.slug = slug /\ a.answer = labels[slug]
      /\ a.seen = b.seen /\ a.refused = b.refused
  BY <1>1, <1>3 DEF ApiRecord
<1> HIDE DEF a
<1>6. LabelKnown(a)
  BY <1>1, <1>3, <1>5 DEF CallHolds, LabelKnown
<1>7. SeenHolds(a)
  BY <1>1, <1>5 DEF CallHolds, SeenHolds
<1>8. ListingHolds(a)
  BY <1>1, <1>3, <1>5 DEF CallHolds, ListingHolds
<1>9. UNCHANGED <<contacts, sources, labels, tagged>>
  BY DEF ListLabels
<1>10. WornIsStored'
  BY <1>9, WornStays
<1> QED
  BY <1>4, <1>5, <1>6, <1>7, <1>8, <1>9, <1>10, BookStill DEF CallHolds

(* The insert wins, or the label is there to be listed again. *)
LEMMA CreateLabelKeeps ==
    ASSUME BookInv, NEW r \in ApiCalls, CreateLabel(r)
    PROVE  BookInv'
<1> DEFINE b == api[r]
           slug == b.slug
<1>1. /\ b \in ApiRecord /\ CallHolds(b) /\ api \in [ApiCalls -> ApiRecord] /\ b.pc = "create"
      /\ labels \in [Slugs -> ApiCalls \cup {Nothing}]
  BY DEF BookInv, BookTypeOK, CreateLabel
<1>2. slug \in Slugs /\ slug # Nothing /\ b.owed = {}
  BY <1>1 DEF CallHolds, LabelKnown, ListingHolds, ApiRecord
<1>3. UNCHANGED <<contacts, sources, tagged>>
  BY DEF CreateLabel
<1>4. CASE labels[slug] = Nothing
  <2>1. labels' = [labels EXCEPT ![slug] = r] /\ api' = [api EXCEPT ![r].pc = "done", ![r].answer = r]
    BY <1>4 DEF CreateLabel
  <2>2. PICK a \in ApiRecord : a = [b EXCEPT !.pc = "done", !.answer = r]
    BY <1>1 DEF ApiRecord
  <2>3. /\ a.pc = "done" /\ a.answer = r /\ a.slug = slug /\ a.owed = b.owed /\ a.wears = b.wears
        /\ a.seen = b.seen /\ a.refused = b.refused
    BY <1>1, <2>2 DEF ApiRecord
  <2>4. api' = [api EXCEPT ![r] = a]
    BY <1>1, <2>1, <2>2
  <2>5. PICK g \in Slugs : g = slug
    BY <1>2
  <2>6. labels'[g] = r /\ \A x \in Slugs \ {g} : labels'[x] = labels[x]
    BY <1>1, <2>1, <2>5
  <2>7. labels' \in [Slugs -> ApiCalls \cup {Nothing}] /\ r # Nothing
    BY <1>1, <2>1, BookAssumption
  <2>8. BookGrows
    BY <1>3, <1>4, <2>5, <2>6 DEF BookGrows, KnownPeople
  <2>9. WornIsStored'
    BY <1>3, <2>6, <2>7 DEF BookInv, WornIsStored
  <2>10. PICK x \in ApiRecord : x = b
    BY <1>1
  <2>11. LabelKnown(x)' /\ SeenHolds(x)' /\ ListingHolds(x)'
    BY <1>1, <2>8, <2>10, BookCallRests
  <2>12. LabelKnown(a)'
    BY <2>3, <2>5, <2>6, <2>7, <2>10, <2>11 DEF LabelKnown
  <2>13. SeenHolds(a)'
    BY <2>3, <2>10, <2>11 DEF SeenHolds
  <2>14. ListingHolds(a)'
    BY <1>2, <2>3 DEF ListingHolds
  <2>15. /\ contacts' \in [PhoneNumbers -> ContactRow \cup {Nothing}]
         /\ sources' \in [ContactIdentities -> PhoneNumbers \cup {Nothing}]
    BY <1>3 DEF BookInv, BookTypeOK
  <2> QED
    BY <2>4, <2>7, <2>8, <2>9, <2>12, <2>13, <2>14, <2>15, BookCallWritten
<1>5. CASE labels[slug] # Nothing
  <2> DEFINE a == [b EXCEPT !.pc = "relist"]
  <2>1. UNCHANGED labels /\ api' = [api EXCEPT ![r].pc = "relist"]
    BY <1>5 DEF CreateLabel
  <2>2. api' = [api EXCEPT ![r] = a]
    BY <1>1, <2>1
  <2>3. /\ a \in ApiRecord /\ a.pc = "relist" /\ a.slug = slug /\ a.owed = b.owed /\ a.wears = b.wears
        /\ a.seen = b.seen /\ a.refused = b.refused
    BY <1>1 DEF ApiRecord
  <2> HIDE DEF a
  <2>4. LabelKnown(a)
    BY <1>1, <1>2, <1>5, <2>3 DEF CallHolds, LabelKnown
  <2>5. SeenHolds(a)
    BY <1>1, <2>3 DEF CallHolds, SeenHolds
  <2>6. ListingHolds(a)
    BY <1>2, <2>3 DEF ListingHolds
  <2>7. WornIsStored'
    BY <1>3, <2>1, WornStays
  <2> QED
    BY <1>3, <2>1, <2>2, <2>3, <2>4, <2>5, <2>6, <2>7, BookStill DEF CallHolds
<1> QED
  BY <1>4, <1>5

(* A concurrent request won: its label is answered. *)
LEMMA RelistLabelsKeeps ==
    ASSUME BookInv, NEW r \in ApiCalls, RelistLabels(r)
    PROVE  BookInv'
<1> DEFINE b == api[r]
           slug == b.slug
           a == [b EXCEPT !.pc = "done", !.answer = labels[slug]]
<1>1. /\ b \in ApiRecord /\ CallHolds(b) /\ api \in [ApiCalls -> ApiRecord] /\ b.pc = "relist"
      /\ labels \in [Slugs -> ApiCalls \cup {Nothing}]
  BY DEF BookInv, BookTypeOK, RelistLabels
<1>2. slug \in Slugs /\ slug # Nothing /\ b.owed = {} /\ labels[slug] # Nothing
  BY <1>1 DEF CallHolds, LabelKnown, ListingHolds, ApiRecord
<1>3. labels[slug] \in ApiCalls \cup {Nothing}
  BY <1>1, <1>2
<1>4. api' = [api EXCEPT ![r] = a]
  BY <1>1 DEF RelistLabels
<1>5. /\ a \in ApiRecord /\ a.pc = "done" /\ a.slug = slug /\ a.answer = labels[slug] /\ a.owed = b.owed
      /\ a.wears = b.wears /\ a.seen = b.seen /\ a.refused = b.refused
  BY <1>1, <1>3 DEF ApiRecord
<1> HIDE DEF a
<1>6. LabelKnown(a)
  BY <1>1, <1>2, <1>5 DEF CallHolds, LabelKnown
<1>7. SeenHolds(a)
  BY <1>1, <1>5 DEF CallHolds, SeenHolds
<1>8. ListingHolds(a)
  BY <1>2, <1>5 DEF ListingHolds
<1>9. UNCHANGED <<contacts, sources, labels, tagged>>
  BY DEF RelistLabels
<1>10. WornIsStored'
  BY <1>9, WornStays
<1> QED
  BY <1>4, <1>5, <1>6, <1>7, <1>8, <1>9, <1>10, BookStill DEF CallHolds

(* A sync begins with the provider's list. *)
LEMMA SyncContactsKeeps ==
    ASSUME BookInv, NEW r \in ApiCalls, api[r].pc = "new", NEW list \in Listings, SyncContacts(r, list)
    PROVE  BookInv'
<1> DEFINE b == api[r]
           a == [b EXCEPT !.pc = "sync", !.todo = list]
<1>1. b \in ApiRecord /\ CallHolds(b) /\ api \in [ApiCalls -> ApiRecord] /\ list \in Seq(ListedContact)
  BY BookAssumption DEF BookInv, BookTypeOK
<1>2. b.slug = Nothing /\ b.owed = {}
  BY <1>1 DEF CallHolds, LabelKnown, ListingHolds
<1>3. api' = [api EXCEPT ![r] = a]
  BY <1>1 DEF SyncContacts
<1>4. /\ a \in ApiRecord /\ a.pc = "sync" /\ a.slug = b.slug /\ a.owed = b.owed /\ a.wears = b.wears
      /\ a.seen = b.seen /\ a.refused = b.refused
  BY <1>1 DEF ApiRecord
<1> HIDE DEF a
<1>5. LabelKnown(a)
  BY <1>1, <1>2, <1>4 DEF CallHolds, LabelKnown
<1>6. SeenHolds(a)
  BY <1>1, <1>4 DEF CallHolds, SeenHolds
<1>7. ListingHolds(a)
  BY <1>2, <1>4 DEF ListingHolds
<1>8. UNCHANGED <<contacts, sources, labels, tagged>>
  BY DEF SyncContacts
<1>9. WornIsStored'
  BY <1>8, WornStays
<1> QED
  BY <1>3, <1>4, <1>5, <1>6, <1>7, <1>8, <1>9, BookStill DEF CallHolds

(* The sync passes over an item. *)
LEMMA SkipItemKeeps ==
    ASSUME BookInv, NEW r \in ApiCalls, SkipItem(r)
    PROVE  BookInv'
<1> DEFINE b == api[r]
           a == [b EXCEPT !.todo = Tail(b.todo)]
<1>1. /\ b \in ApiRecord /\ CallHolds(b) /\ api \in [ApiCalls -> ApiRecord] /\ b.pc = "sync"
      /\ b.todo # <<>> /\ b.todo \in Seq(ListedContact)
  BY DEF BookInv, BookTypeOK, SkipItem, ApiRecord
<1>2. Tail(b.todo) \in Seq(ListedContact)
  BY <1>1
<1>3. api' = [api EXCEPT ![r] = a]
  BY <1>1 DEF SkipItem
<1>4. /\ a \in ApiRecord /\ a.pc = "sync" /\ a.slug = b.slug /\ a.owed = b.owed /\ a.wears = b.wears
      /\ a.seen = b.seen /\ a.refused = b.refused
  BY <1>1, <1>2 DEF ApiRecord
<1> HIDE DEF a
<1>5. LabelKnown(a)
  BY <1>1, <1>4 DEF CallHolds, LabelKnown
<1>6. SeenHolds(a)
  BY <1>1, <1>4 DEF CallHolds, SeenHolds
<1>7. ListingHolds(a)
  BY <1>1, <1>4 DEF CallHolds, ListingHolds
<1>8. UNCHANGED <<contacts, sources, labels, tagged>>
  BY DEF SkipItem
<1>9. WornIsStored'
  BY <1>8, WornStays
<1> QED
  BY <1>3, <1>4, <1>5, <1>6, <1>7, <1>8, <1>9, BookStill DEF CallHolds

(* What a sync remembers of an item is a phone per identity. *)
LEMMA RememberedIsSeen ==
    ASSUME BookInv, NEW r \in ApiCalls, NEW item \in ListedContact, item.identity # Nothing, item.phone # Nothing
    PROVE  /\ Remembered(r, item) \in UNION {[D -> PhoneNumbers] : D \in SUBSET ContactIdentities}
           /\ DOMAIN Remembered(r, item) = DOMAIN api[r].seen \cup {item.identity}
           /\ Remembered(r, item)[item.identity] = item.phone
           /\ \A s \in DOMAIN api[r].seen \ {item.identity} : Remembered(r, item)[s] = api[r].seen[s]
<1>1. api[r].seen \in UNION {[D -> PhoneNumbers] : D \in SUBSET ContactIdentities}
  BY DEF BookInv, BookTypeOK, ApiRecord
<1>2. PICK D \in SUBSET ContactIdentities : api[r].seen \in [D -> PhoneNumbers]
  BY <1>1
<1>3. item.identity \in ContactIdentities /\ item.phone \in PhoneNumbers
  BY DEF ListedContact
<1> DEFINE E == D \cup {item.identity}
<1>4. Remembered(r, item) = [s \in E |-> IF s = item.identity THEN item.phone ELSE api[r].seen[s]]
  BY <1>2 DEF Remembered
<1>5. Remembered(r, item) \in [E -> PhoneNumbers] /\ E \in SUBSET ContactIdentities
  BY <1>2, <1>3, <1>4
<1> QED
  BY <1>2, <1>4, <1>5

(* A sync stores an item, or is refused because the identity is another phone's. *)
LEMMA UpsertProviderContactKeeps ==
    ASSUME BookInv, NEW r \in ApiCalls, NEW id \in FreshIds, UpsertProviderContact(r, id)
    PROVE  BookInv'
<1> DEFINE b == api[r]
           item == Head(b.todo)
           s == item.identity
           p == item.phone
           seen == Remembered(r, item)
<1>1. /\ b \in ApiRecord /\ CallHolds(b) /\ api \in [ApiCalls -> ApiRecord] /\ b.pc = "sync"
      /\ b.todo # <<>> /\ b.todo \in Seq(ListedContact) /\ s # Nothing /\ p # Nothing
      /\ s \notin DOMAIN b.seen
  BY DEF BookInv, BookTypeOK, UpsertProviderContact, ApiRecord
<1>2. Tail(b.todo) \in Seq(ListedContact) /\ item \in ListedContact
  BY <1>1
<1>3. s \in ContactIdentities /\ p \in PhoneNumbers
  BY <1>1, <1>2 DEF ListedContact
<1>4. /\ seen \in UNION {[D -> PhoneNumbers] : D \in SUBSET ContactIdentities}
      /\ DOMAIN seen = DOMAIN b.seen \cup {s} /\ seen[s] = p
      /\ \A t \in DOMAIN b.seen \ {s} : seen[t] = b.seen[t]
  BY <1>1, <1>2, RememberedIsSeen
<1>5. b.slug = Nothing /\ b.owed = {} /\ b.refused \in SUBSET ContactIdentities /\ b.refused \subseteq DOMAIN b.seen
  BY <1>1 DEF CallHolds, LabelKnown, ListingHolds, SeenHolds, ApiRecord
<1>6. UNCHANGED <<labels, tagged>>
  BY DEF UpsertProviderContact
<1>7. WornIsStored'
  BY <1>6, WornStays
<1>8. /\ contacts \in [PhoneNumbers -> ContactRow \cup {Nothing}]
      /\ sources \in [ContactIdentities -> PhoneNumbers \cup {Nothing}]
      /\ labels \in [Slugs -> ApiCalls \cup {Nothing}]
  BY DEF BookInv, BookTypeOK
<1>9. CASE ~SourceAccepts(item)
  <2> DEFINE refused == b.refused \cup {s}
             a == [b EXCEPT !.todo = Tail(b.todo), !.seen = seen, !.refused = refused]
  <2>1. UNCHANGED <<contacts, sources>>
    BY <1>9 DEF UpsertProviderContact
  <2>2. api' = [api EXCEPT ![r].todo = Tail(b.todo), ![r].seen = seen, ![r].refused = refused]
    BY <1>1, <1>9 DEF UpsertProviderContact
  <2>3. refused \in SUBSET ContactIdentities
    BY <1>3, <1>5
  <2> HIDE DEF seen, refused
  <2>4. api' = [api EXCEPT ![r] = a]
    BY <1>1, <2>2
  <2>5. /\ a \in ApiRecord /\ a.pc = "sync" /\ a.slug = b.slug /\ a.owed = b.owed /\ a.wears = b.wears
        /\ a.seen = seen /\ a.refused = refused
    BY <1>1, <1>2, <1>4, <2>3 DEF ApiRecord
  <2> HIDE DEF a
  <2>6. LabelKnown(a)
    BY <1>1, <2>5 DEF CallHolds, LabelKnown
  <2>7. SeenHolds(a)
    <3>1. sources[s] # Nothing /\ sources[s] # p
      BY <1>9 DEF SourceAccepts
    <3>2. a.refused = b.refused \cup {s} /\ a.refused \subseteq DOMAIN a.seen
      BY <1>4, <1>5, <2>5 DEF refused
    <3>3. ASSUME NEW t \in DOMAIN a.seen
          PROVE  IF t \in a.refused THEN sources[t] # Nothing /\ sources[t] # a.seen[t]
                 ELSE sources[t] = a.seen[t] /\ KnownPeople(a.seen[t])
      <4>1. CASE t = s
        BY <1>4, <2>5, <3>1, <3>2, <4>1
      <4>2. CASE t # s
        <5>1. t \in DOMAIN b.seen /\ a.seen[t] = b.seen[t] /\ (t \in a.refused <=> t \in b.refused)
          BY <1>4, <2>5, <3>2, <4>2
        <5> QED
          BY <1>1, <5>1 DEF CallHolds, SeenHolds
      <4> QED
        BY <4>1, <4>2
    <3> QED
      BY <3>2, <3>3 DEF SeenHolds
  <2>8. ListingHolds(a)
    BY <1>5, <2>5 DEF ListingHolds
  <2> QED
    BY <1>6, <1>7, <2>1, <2>4, <2>5, <2>6, <2>7, <2>8, BookStill DEF CallHolds
<1>10. CASE SourceAccepts(item)
  <2> DEFINE row == IF KnownPeople(p) THEN [contacts[p] EXCEPT !.name = s]
                    ELSE [id |-> id, alias |-> Nothing, name |-> s]
  <2>1. /\ contacts' = [contacts EXCEPT ![p] = row]
        /\ sources' = [sources EXCEPT ![s] = p]
        /\ api' = [api EXCEPT ![r].todo = Tail(b.todo), ![r].seen = seen]
    BY <1>1, <1>3, <1>8, <1>10 DEF UpsertProviderContact
  <2>2. row \in ContactRow /\ (KnownPeople(p) => row.id = contacts[p].id)
    <3>1. CASE KnownPeople(p)
      <4>1. contacts[p] \in ContactRow
        BY <1>3, <1>8, <3>1 DEF KnownPeople
      <4> QED
        BY <1>3, <3>1, <4>1 DEF ContactRow
    <3>2. CASE ~KnownPeople(p)
      <4>1. id \in ContactIds
        BY DEF FreshIds
      <4> QED
        BY <1>3, <3>2, <4>1 DEF ContactRow
    <3> QED
      BY <3>1, <3>2
  <2>3. /\ sources' \in [ContactIdentities -> PhoneNumbers \cup {Nothing}]
        /\ sources'[s] = p /\ \A t \in ContactIdentities \ {s} : sources'[t] = sources[t]
    BY <1>3, <1>8, <2>1
  <2>4. \A t \in ContactIdentities : sources[t] # Nothing => sources'[t] = sources[t]
    BY <1>10, <2>3 DEF SourceAccepts
  <2> HIDE DEF row
  <2>5. BookGrows /\ contacts' \in [PhoneNumbers -> ContactRow \cup {Nothing}]
    BY <1>3, <1>6, <2>1, <2>2, <2>4, RowWrittenGrows
  <2>6. PICK q \in PhoneNumbers : q = p
    BY <1>3
  <2>7. KnownPeople(q)'
    <3>1. contacts'[q] = row
      BY <1>8, <2>1, <2>6
    <3> QED
      BY <2>2, <3>1, BookAssumption DEF KnownPeople
  <2> HIDE DEF seen
  <2>8. PICK a \in ApiRecord : a = [b EXCEPT !.todo = Tail(b.todo), !.seen = seen]
    BY <1>1, <1>2, <1>4 DEF ApiRecord
  <2>9. api' = [api EXCEPT ![r] = a]
    BY <1>1, <2>1, <2>8
  <2>10. /\ a.pc = "sync" /\ a.slug = b.slug /\ a.owed = b.owed /\ a.wears = b.wears
         /\ a.seen = seen /\ a.refused = b.refused
    BY <1>1, <2>8 DEF ApiRecord
  <2>11. PICK x \in ApiRecord : x = b
    BY <1>1
  <2>12. LabelKnown(x)' /\ SeenHolds(x)' /\ ListingHolds(x)'
    BY <1>1, <2>5, <2>11, BookCallRests
  <2>13. LabelKnown(a)'
    BY <1>1, <2>10, <2>11, <2>12 DEF LabelKnown
  <2>14. SeenHolds(a)'
    <3>1. a.refused \subseteq DOMAIN a.seen /\ s \notin a.refused
      BY <1>1, <1>4, <1>5, <2>10
    <3>2. ASSUME NEW t \in DOMAIN a.seen
          PROVE  IF t \in a.refused THEN sources'[t] # Nothing /\ sources'[t] # a.seen[t]
                 ELSE sources'[t] = a.seen[t] /\ KnownPeople(a.seen[t])'
      <4>1. CASE t = s
        <5>1. a.seen[t] = q /\ sources'[t] = q
          BY <1>4, <2>3, <2>6, <2>10, <4>1
        <5> QED
          BY <2>7, <3>1, <4>1, <5>1 DEF KnownPeople
      <4>2. CASE t # s
        <5>1. t \in DOMAIN x.seen /\ a.seen[t] = x.seen[t] /\ (t \in a.refused <=> t \in x.refused)
          BY <1>4, <2>10, <2>11, <4>2
        <5> QED
          BY <2>12, <5>1 DEF SeenHolds, KnownPeople
      <4> QED
        BY <4>1, <4>2
    <3> QED
      BY <3>1, <3>2 DEF SeenHolds
  <2>15. ListingHolds(a)'
    BY <1>5, <2>10 DEF ListingHolds
  <2>16. labels' \in [Slugs -> ApiCalls \cup {Nothing}]
    BY <1>6, <1>8
  <2> QED
    BY <1>7, <2>3, <2>5, <2>9, <2>13, <2>14, <2>15, <2>16, BookCallWritten
<1> QED
  BY <1>9, <1>10

(* An empty book and calls that have not been served. *)
LEMMA BookInitKeeps == BookInit => BookInv
<1> SUFFICES ASSUME BookInit
             PROVE  BookInv
  OBVIOUS
<1>1. Arrived \in ApiRecord
  <2>1. <<>> \in UNION {[D -> PhoneNumbers] : D \in SUBSET ContactIdentities}
    <3>1. <<>> \in [{} -> PhoneNumbers] /\ {} \in SUBSET ContactIdentities
      OBVIOUS
    <3> QED
      BY <3>1
  <2>2. <<>> \in Seq(ListedContact)
    OBVIOUS
  <2> QED
    BY <2>1, <2>2 DEF Arrived, ApiRecord
<1>2. BookTypeOK
  BY <1>1 DEF BookInit, BookTypeOK
<1>3. WornIsStored
  BY DEF BookInit, WornIsStored
<1>4. /\ Arrived.pc = "new" /\ Arrived.slug = Nothing /\ Arrived.seen = <<>> /\ Arrived.refused = {}
      /\ Arrived.after = 0 /\ Arrived.listed = {} /\ Arrived.owed = {} /\ Arrived.wears = {}
  BY DEF Arrived
<1>5. CallHolds(Arrived)
  BY <1>4 DEF CallHolds, LabelKnown, SeenHolds, ListingHolds
<1>6. \A r \in ApiCalls : api[r] = Arrived
  BY DEF BookInit
<1> QED
  BY <1>2, <1>3, <1>5, <1>6 DEF BookInv

(* Every step keeps the invariant. *)
LEMMA BookStep == BookInv /\ [BookNext]_bookVars => BookInv'
<1> SUFFICES ASSUME BookInv, [BookNext]_bookVars
             PROVE  BookInv'
  OBVIOUS
<1>1. CASE UNCHANGED bookVars
  BY <1>1 DEF bookVars, BookInv, BookTypeOK, WornIsStored, CallHolds, LabelKnown, SeenHolds,
              ListingHolds, KnownPeople, KnownIds
<1>2. ASSUME NEW r \in ApiCalls, api[r].pc = "new", Call(r)
      PROVE  BookInv'
  <2>1. ASSUME NEW phone \in PhoneNumbers \cup {Nothing}, InvalidContact(r, phone)
        PROVE  BookInv'
    <3>1. UNCHANGED <<contacts, sources, labels, tagged>> /\ api' = [api EXCEPT ![r].pc = "done"]
      BY <2>1 DEF InvalidContact, Replied
    <3>2. WornIsStored'
      BY <3>1, WornStays
    <3> QED
      BY <1>2, <3>1, <3>2, RepliesKeep
  <2> QED
    BY <1>2, <2>1, PatchContactKeeps, PutContactKeeps, LabelMovesKeep, ListLabelsKeeps, SyncContactsKeeps
       DEF Call
<1>3. ASSUME NEW r \in ApiCalls, RefuseCall(r)
      PROVE  BookInv'
  <2>1. /\ UNCHANGED <<contacts, sources, labels, tagged>> /\ api' = [api EXCEPT ![r].pc = "refused"]
        /\ api[r].pc = "new"
    BY <1>3 DEF RefuseCall
  <2>2. WornIsStored'
    BY <2>1, WornStays
  <2> QED
    BY <2>1, <2>2, RepliesKeep
<1>4. ASSUME NEW r \in ApiCalls, SyncEnds(r)
      PROVE  BookInv'
  <2>1. /\ UNCHANGED <<contacts, sources, labels, tagged>> /\ api' = [api EXCEPT ![r].pc = "done"]
        /\ api[r].pc = "sync"
    BY <1>4 DEF SyncEnds, Replied
  <2>2. WornIsStored'
    BY <2>1, WornStays
  <2> QED
    BY <2>1, <2>2, RepliesKeep
<1>5. ASSUME NEW r \in ApiCalls, NextPage(r) \/ (api[r].pc = "new" /\ ListContacts(r))
      PROVE  BookInv'
  BY <1>5, ListContactsKeeps DEF NextPage
<1> QED
  BY <1>1, <1>2, <1>3, <1>4, <1>5, MakeContactResponseKeeps, CreateLabelKeeps, RelistLabelsKeeps,
     SkipItemKeeps, UpsertProviderContactKeeps DEF BookNext, Serves

(* What a caller was told stays true while any number of other calls run: the
   id of a label, the phone of an identity a sync accepted or refused, every
   contact a listing owed; and no contact is answered with a label that cannot
   be found. *)
THEOREM BookAnswersHold == BookSpec => []AnswersHold
<1>1. BookInv => AnswersHold
  BY BookInvSuffices
<1> QED
  BY BookInitKeeps, BookStep, <1>1, PTL DEF BookSpec
=============================================================================
