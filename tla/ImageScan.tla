----------------------------- MODULE ImageScan -----------------------------
(***************************************************************************)
(* The inspection of an image before it is stored (inspectImage and what   *)
(* it calls, internal/gateway/media/upload.go): sniff the type, walk the   *)
(* blocks of a GIF or the chunks of a WebP, read the dimensions, compare   *)
(* the declared type.  The walk is a loop that stops at the first part it  *)
(* refuses; it is checked against a definition of what an acceptable image *)
(* is that does not walk.                                                  *)
(*                                                                         *)
(* A file is its type, its canvas, the sequence of its parts and its       *)
(* length in bytes.  A part is `sound' when all its bytes are there and    *)
(* its signature, sizes and padding are what the format asks for.          *)
(***************************************************************************)
EXTENDS Integers, Sequences

CONSTANTS ImageFiles,   \* the files that may be sent
          MaxPixels

PartKinds == {"image", "extension", "trailer", "junk",              \* GIF
              "VP8", "VP8L", "VP8X", "animation", "metadata"}       \* WebP

\* Sizes and offsets are read as unsigned numbers.
ImagePart == [kind : PartKinds, w : Nat, h : Nat, left : Nat, top : Nat, sound : BOOLEAN]

ASSUME ImageAssumption ==
    /\ MaxPixels \in Nat \ {0}
    /\ \A f \in ImageFiles :
          /\ f.type \in {"gif", "webp", "png", "unknown"}
          /\ f.declared \in {"", "gif", "webp", "png"}
          /\ f.sound \in BOOLEAN /\ f.length \in Nat
          /\ f.canvas \in [w : Nat, h : Nat] /\ f.parts \in Seq(ImagePart)

VARIABLES file,      \* the file under inspection
          part,        \* the part the walk looks at; 0 before the header
          pictures,  \* images, imageChunks
          canvas,    \* canvasWidth, canvasHeight of a WebP, 0 when not seen
          picture,   \* imageWidth, imageHeight
          size,      \* the width and height inspectImage answers
          verdict

imageVars == <<file, part, pictures, canvas, picture, size, verdict>>

NoSize == [w |-> 0, h |-> 0]

ImageInit ==
    /\ file \in ImageFiles
    /\ part = 0 /\ pictures = 0
    /\ canvas = NoSize /\ picture = NoSize /\ size = NoSize
    /\ verdict = "sniff"

-----------------------------------------------------------------------------
\* Mutant: the limit is compared with each side.
FitsEachSide(d) == d.w > 0 /\ d.h > 0 /\ d.w <= MaxPixels /\ d.h <= MaxPixels

\* validImageDimensions: the division cannot overflow, a product could.
Fits(d) == d.w > 0 /\ d.h > 0 /\ d.w <= MaxPixels \div d.h

Refuse == verdict' = "refused" /\ UNCHANGED <<file, part, pictures, canvas, picture, size>>

Ended == part > Len(file.parts)
Part == file.parts[part]

\* sniffRasterMIME, then the structure of the two types that can be animated.
SniffRasterMIME ==
    /\ verdict = "sniff"
    /\ IF file.type = "unknown" THEN Refuse
       ELSE /\ verdict' = IF file.type \in {"gif", "webp"} THEN file.type ELSE "dimensions"
            /\ UNCHANGED <<file, part, pictures, canvas, picture, size>>

-----------------------------------------------------------------------------
(* validateStaticGIF *)

GIFHeader ==
    /\ verdict = "gif" /\ part = 0
    /\ IF file.sound /\ Fits(file.canvas)
       THEN part' = 1 /\ UNCHANGED <<file, pictures, canvas, picture, size, verdict>>
       ELSE Refuse

\* left and top are compared with what the canvas leaves.
InsideCanvas(p) ==
    /\ Fits([w |-> p.w, h |-> p.h])
    /\ p.left <= file.canvas.w - p.w /\ p.top <= file.canvas.h - p.h

GIFBlock ==
    /\ verdict = "gif" /\ part > 0
    /\ CASE Ended -> Refuse
         [] ~Ended /\ Part.kind = "trailer" ->
              IF part = Len(file.parts) /\ pictures = 1
              THEN verdict' = "dimensions" /\ UNCHANGED <<file, part, pictures, canvas, picture, size>>
              ELSE Refuse
         [] ~Ended /\ Part.kind = "extension" /\ Part.sound ->
              part' = part + 1 /\ UNCHANGED <<file, pictures, canvas, picture, size, verdict>>
         [] ~Ended /\ Part.kind = "image" /\ pictures = 0 /\ InsideCanvas(Part) /\ Part.sound ->
              part' = part + 1 /\ pictures' = 1 /\ UNCHANGED <<file, canvas, picture, size, verdict>>
         [] OTHER -> Refuse

-----------------------------------------------------------------------------
(* validateStaticWebP *)

\* The length in the RIFF header is the length of the file.
WebPHeader ==
    /\ verdict = "webp" /\ part = 0
    /\ IF file.sound
       THEN part' = 1 /\ UNCHANGED <<file, pictures, canvas, picture, size, verdict>>
       ELSE Refuse

PartSize == [w |-> Part.w, h |-> Part.h]

WebPChunk ==
    /\ verdict = "webp" /\ part > 0 /\ ~Ended
    /\ CASE Part.sound /\ Part.kind = "VP8X" /\ Fits(PartSize) ->
              /\ part' = part + 1 /\ canvas' = PartSize
              /\ UNCHANGED <<file, pictures, picture, size, verdict>>
         [] Part.sound /\ Part.kind \in {"VP8", "VP8L"} /\ pictures = 0 /\ Fits(PartSize) ->
              /\ part' = part + 1 /\ pictures' = 1 /\ picture' = PartSize
              /\ UNCHANGED <<file, canvas, size, verdict>>
         [] Part.sound /\ Part.kind = "metadata" ->
              part' = part + 1 /\ UNCHANGED <<file, pictures, canvas, picture, size, verdict>>
         [] OTHER -> Refuse

\* After the last chunk: one image, as large as the canvas if there is one.
WebPEnd ==
    /\ verdict = "webp" /\ part > 0 /\ Ended
    /\ IF pictures = 1 /\ canvas \in {NoSize, picture}
       THEN verdict' = "dimensions" /\ UNCHANGED <<file, part, pictures, canvas, picture, size>>
       ELSE Refuse

-----------------------------------------------------------------------------
\* webPDimensions wants the bytes of the largest first chunk header, whichever comes.
WebPHeaderBytes == 30

\* webPDimensions reads the first chunk, image.DecodeConfig the header.
WebPDimensions ==
    IF file.length >= WebPHeaderBytes /\ file.parts # <<>> /\ file.parts[1].kind \in {"VP8X", "VP8L", "VP8"}
    THEN [w |-> file.parts[1].w, h |-> file.parts[1].h] ELSE NoSize

InspectImage ==
    LET d == IF file.type = "webp" THEN WebPDimensions
             ELSE IF file.sound THEN file.canvas ELSE NoSize
    IN  /\ verdict = "dimensions"
        /\ IF Fits(d)
           THEN size' = d /\ verdict' = "declared" /\ UNCHANGED <<file, part, pictures, canvas, picture>>
           ELSE Refuse

\* An upload need not declare a type.
Declares(f) == f.declared \in {"", f.type}

MatchingDeclaredMIME ==
    /\ verdict = "declared"
    /\ IF Declares(file)
       THEN verdict' = "accepted" /\ UNCHANGED <<file, part, pictures, canvas, picture, size>>
       ELSE Refuse

ImageNext == SniffRasterMIME \/ GIFHeader \/ GIFBlock \/ WebPHeader \/ WebPChunk \/ WebPEnd
             \/ InspectImage \/ MatchingDeclaredMIME

ImageSpec == ImageInit /\ [][ImageNext]_imageVars

-----------------------------------------------------------------------------
(* What an acceptable file is, without a walk. *)
Bounded(d) == d.w >= 1 /\ d.h >= 1 /\ d.w * d.h <= MaxPixels
Parts(f) == {f.parts[i] : i \in 1..Len(f.parts)}
Only(f, kinds) == \E i \in 1..Len(f.parts) :
    /\ f.parts[i].kind \in kinds
    /\ \A j \in 1..Len(f.parts) : f.parts[j].kind \in kinds => j = i

AcceptableGIF(f) ==
    LET n == Len(f.parts) IN
    /\ n > 0 /\ f.parts[n].kind = "trailer" /\ Only(f, {"trailer"}) /\ Only(f, {"image"})
    /\ \A p \in Parts(f) : p.kind \in {"image", "extension", "trailer"} /\ (p.kind # "trailer" => p.sound)
    /\ \A p \in Parts(f) : p.kind = "image" =>
          p.w >= 1 /\ p.h >= 1 /\ p.left + p.w <= f.canvas.w /\ p.top + p.h <= f.canvas.h

AcceptableWebP(f) ==
    LET last == {i \in 1..Len(f.parts) : f.parts[i].kind = "VP8X"} IN
    /\ Only(f, {"VP8", "VP8L"}) /\ f.parts[1].kind # "metadata" /\ f.length >= 30
    /\ \A p \in Parts(f) : p.sound /\ p.kind \in {"VP8", "VP8L", "VP8X", "metadata"}
    /\ \A p \in Parts(f) : p.kind # "metadata" => Bounded(p)
    /\ \A i \in last : (\A j \in last : j <= i) =>
          \A p \in Parts(f) : p.kind \in {"VP8", "VP8L"} => p.w = f.parts[i].w /\ p.h = f.parts[i].h

AcceptableImage(f) ==
    /\ f.type # "unknown" /\ f.sound /\ Declares(f)
    /\ f.type = "webp" \/ Bounded(f.canvas)
    /\ f.type = "gif" => AcceptableGIF(f)
    /\ f.type = "webp" => AcceptableWebP(f)

(* The inspection takes exactly the files that hold one still image, all of   *)
(* it and nothing else, whose canvas and picture have at most MaxPixels       *)
(* pixels; the dimensions it records are those of a canvas or picture of the  *)
(* file, so they respect the limit too (inspectImage, validateStaticGIF,      *)
(* validateStaticWebP). Of WebP, a file must also start with its canvas or    *)
(* picture and have 30 bytes (webPDimensions): a lossless picture of 26 or 28 *)
(* bytes is refused although the walk found it whole.                         *)
InspectionIsExact ==
    /\ verdict = "accepted" => AcceptableImage(file) /\ Bounded(size)
    /\ verdict = "refused" => ~AcceptableImage(file)
=============================================================================
