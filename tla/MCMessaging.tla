----------------------------- MODULE MCMessaging -----------------------------
(***************************************************************************)
(* The components a message, its attachments and its people pass through,  *)
(* checked in one run: a behaviour picks one of them at the start and      *)
(* takes its steps only, the others rest in their initial states.          *)
(***************************************************************************)
EXTENDS Ingress, Backfill, CanonicalLane, Submission, MediaStore, ImageScan, ContactBook, TLC

CONSTANTS o1, o2, r1, r2, r3, m1, m2, a1, a2, Components

VARIABLE component

ingressOwn  == <<row, message, events, queue, batch, phase, wired, deliveries>>
backfillOwn == <<committed, history, budget, checkpoint, worker, finished, moves>>

MessagingInit ==
    /\ component \in Components
    /\ IngressInit /\ BackfillInit /\ LaneInit /\ SubmissionInit /\ MediaInit /\ BookInit
    /\ \/ component = "image" /\ ImageInit
       \/ component # "image" /\ file = (CHOOSE f \in ImageFiles : TRUE) /\ ImageInit

MessagingNext ==
    /\ UNCHANGED component
    /\ \/ /\ component = "ingress" /\ IngressNext
          /\ UNCHANGED <<backfillOwn, laneVars, submissionVars, mediaVars, imageVars, bookVars>>
       \/ /\ component = "backfill" /\ BackfillNext
          /\ UNCHANGED <<ingressOwn, laneVars, submissionVars, mediaVars, imageVars, bookVars>>
       \/ /\ component = "lane" /\ LaneNext
          /\ UNCHANGED <<ingressVars, backfillOwn, submissionVars, mediaVars, imageVars, bookVars>>
       \/ /\ component = "submission" /\ SubmissionNext
          /\ UNCHANGED <<ingressVars, backfillOwn, laneVars, mediaVars, imageVars, bookVars>>
       \/ /\ component = "media" /\ MediaNext
          /\ UNCHANGED <<ingressVars, backfillOwn, laneVars, submissionVars, imageVars, bookVars>>
       \/ /\ component = "image" /\ ImageNext
          /\ UNCHANGED <<ingressVars, backfillOwn, laneVars, submissionVars, mediaVars, bookVars>>
       \/ /\ component = "book" /\ BookNext
          /\ UNCHANGED <<ingressVars, backfillOwn, laneVars, submissionVars, mediaVars, imageVars>>

MessagingSpec ==
    /\ MessagingInit
    /\ [][MessagingNext]_<<component, ingressVars, backfillOwn, laneVars, submissionVars,
                           mediaVars, imageVars, bookVars>>

\* o1 and o2 are two owners of the lease, fetch workers, callers and API calls.
OwnerSymmetry == Permutations({o1, o2})

-----------------------------------------------------------------------------
(* m1 is inbound and arrives complete under two response IDs and before it is
   complete, with another attachment, under a third; m2 is outbound and gets
   receipts; every response ID is also used for other bytes, malformed ones and
   an invalid settings snapshot among them. *)
Env(r, k, m, s, a) == [rid |-> r, kind |-> k, msg |-> m, state |-> s, media |-> a,
                       complete |-> FALSE]
Complete(e) == [e EXCEPT !.complete = TRUE]
MCEnvelopes == {Complete(Env(r1, "message", m1, "delivered", a1)),
                Env(r2, "message", m1, "", a2),
                Complete(Env(r3, "message", m1, "delivered", a1)),
                Env(r1, "message", m2, "failed", None),
                Env(r2, "message", m2, "sent", None),
                Env(r3, "settings", m1, "", None),
                Env(r1, "malformed", m1, "", None)}

(* Two spellings of one recipient. *)
MCResolve == [r \in Recipients |-> "c1"]

(* Text, well-formed, padded, to a conversation, with an attachment. *)
Input(t, w, p, e, m) == [text |-> t, wellformed |-> w, padded |-> p, existing |-> e, media |-> m]
MCInputs == {Input("a", TRUE, FALSE, TRUE, TRUE), Input("b", TRUE, FALSE, FALSE, FALSE),
             Input("b", TRUE, TRUE, FALSE, FALSE), Input("a", FALSE, FALSE, FALSE, FALSE)}

(* A list that moves an identity to another phone, within one answer or
   between two, and items without an identity or a number. *)
Item(s, p) == [identity |-> s, phone |-> p]
MCListings == {<<Item("s1", "p1")>>, <<Item("s1", "p2"), Item("s2", "p2")>>,
               <<Item("s1", "p1"), Item("s1", "p2")>>,
               <<Item(Nothing, "p1"), Item("s2", Nothing), Item("s2", "p1")>>}

(* Every file of up to three parts: on the limit of six pixels and over it,
   inside the canvas and outside, animated, truncated. Only a lossless WebP
   alone in its file can be shorter than 30 bytes. *)
Piece(k, w, h, s) == [kind |-> k, w |-> w, h |-> h, left |-> 0, top |-> 0, sound |-> s]
GIFParts == {Piece("image", 2, 1, TRUE), Piece("image", 1, 1, FALSE),
             [Piece("image", 2, 2, TRUE) EXCEPT !.left = 1],
             [Piece("image", 1, 1, TRUE) EXCEPT !.top = 2],
             Piece("image", 0, 1, TRUE), Piece("extension", 1, 1, TRUE),
             Piece("extension", 1, 1, FALSE), Piece("trailer", 1, 1, TRUE), Piece("junk", 1, 1, TRUE)}
WebPParts == {Piece("VP8", 2, 2, TRUE), Piece("VP8", 0, 1, TRUE), Piece("VP8", 2, 2, FALSE),
              Piece("VP8L", 3, 3, TRUE), Piece("VP8L", 3, 2, TRUE), Piece("VP8X", 3, 2, TRUE),
              Piece("VP8X", 2, 2, TRUE), Piece("VP8X", 3, 3, TRUE),
              Piece("animation", 1, 1, TRUE), Piece("metadata", 1, 1, TRUE)}
UpToThree(S) ==
    {<<>>} \cup {<<a>> : a \in S} \cup {<<a, b>> : a, b \in S} \cup {<<a, b, c>> : a, b, c \in S}
Size(w, h) == [w |-> w, h |-> h]
MCFiles ==
    [type : {"gif"}, length : {30}, declared : {"", "png"}, sound : BOOLEAN,
     canvas : {Size(3, 2), Size(3, 3), Size(0, 1), Size(2, 2)}, parts : UpToThree(GIFParts)]
    \cup [type : {"webp"}, length : {30}, declared : {"webp"}, sound : BOOLEAN, canvas : {NoSize},
          parts : UpToThree(WebPParts)]
    \cup [type : {"webp"}, length : {26, 28}, declared : {"webp"}, sound : BOOLEAN,
          canvas : {NoSize}, parts : {<<p>> : p \in {q \in WebPParts : q.kind = "VP8L"}}]
    \cup [type : {"png", "unknown"}, length : {30}, declared : {"", "gif"}, sound : BOOLEAN,
          canvas : {Size(3, 2), Size(3, 3)}, parts : {<<>>}]
=============================================================================
