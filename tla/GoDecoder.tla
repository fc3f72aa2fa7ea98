----------------------------- MODULE GoDecoder ------------------------------
(***************************************************************************)
(* The streaming decoder of sdk/go/decoder.go over an arbitrary source.    *)
(*                                                                         *)
(* The source is `stream` followed by `tail`: what its Read returns once   *)
(* the cells are exhausted, io.EOF or some other error.  NewDecoder is one *)
(* call.  A Read is a call that loads chunks until it has plaintext to     *)
(* return or the footer is verified; each turn of its loop is a step, and  *)
(* nothing else can happen between two of them (phase = "reading").        *)
(***************************************************************************)
EXTENDS OneShot

CONSTANTS
  Streams,      (* the streams a source may hold                            *)
  Tails,        (* how a source may end                                     *)
  Keys,         (* the keys a caller may pass, NoKey for none               *)
  Options,      (* the caps a caller may pass, 0 for the default            *)
  Defaults,     (* the Default* caps of the package                         *)
  Block,        (* incrementalReadBlockSize, in cells of a body             *)
  MaxRead       (* bound: the longest buffer passed to Read                 *)

EOF           == "io.EOF"
UnexpectedEOF == "io.ErrUnexpectedEOF"
SourceError   == "source error"

Caps == [maxMetaBytes : Nat, maxChunkLen : Nat, maxChunkCount : Nat, maxTotalSize : Nat]

ASSUME DecoderAssumption ==
  /\ Streams \subseteq Seq(Cells)
  /\ Keys \subseteq Seq(Nat)
  /\ Tails \subseteq {EOF, SourceError}
  /\ Options \subseteq Caps
  /\ Defaults \in Caps
  /\ Block \in Nat \ {0}
  /\ MaxRead \in Nat \ {0}

VARIABLES
  stream, tail,  \* the source
  pos,           \* cells read from it
  optKey,        \* DecodeOptions.Key
  options,       \* the four caps of DecodeOptions
  phase,         \* "new", "rejected" (NewDecoder failed), "open", "reading"
  header,        \* d.header
  region,        \* d.metadataRaw, the preimage of d.metadataDigest
  root,          \* d.root: the hash key and everything written to it
  chunkIndex, plainTotal, pending, terminalErr, finalized,
  want,          \* len(p) of the Read in progress
  delivered,     \* what all the Reads have returned so far
  reply          \* the error of the last call that returned

sourceVars  == <<stream, tail, optKey, options>>
openVars    == <<header, region>>
payloadVars == <<chunkIndex, plainTotal, pending, root>>
endVars     == <<terminalErr, finalized>>
callerVars  == <<want, delivered>>
vars == <<sourceVars, pos, phase, openVars, payloadVars, endVars, callerVars, reply>>

NoHeader ==
  [version |-> 0, encrypted |-> FALSE, hasMetadata |-> FALSE, reserved |-> FALSE,
   hashAlgo |-> 0, aeadAlgo |-> 0, chunkSize |-> 0,
   chunkCount |-> 0, totalSize |-> 0, baseNonce |-> 0]

Init ==
  /\ stream \in Streams /\ tail \in Tails /\ optKey \in Keys /\ options \in Options
  /\ pos = 0 /\ phase = "new" /\ reply = NoError
  /\ header = NoHeader /\ region = <<>>
  /\ chunkIndex = 0 /\ plainTotal = 0 /\ pending = <<>>
  /\ root = [key |-> NoKey, input |-> <<>>]
  /\ terminalErr = NoError /\ finalized = FALSE
  /\ want = 0 /\ delivered = <<>>

-----------------------------------------------------------------------------
(* Reading from the source.                                                *)

limitsFor(opts) ==
  [cap \in DOMAIN Defaults |-> IF opts[cap] # 0 THEN opts[cap] ELSE Defaults[cap]]

limits == limitsFor(options)

Available == Len(stream) - pos

(* With a bug: a short read counts as a whole one.                         *)
AfterUnclamped(n) == pos + n

(* Where the source stands after a read of n cells, complete or not.       *)
After(n) == Lesser(pos + n, Len(stream))

(* The error of readIncrementally when only `got` cells of a body arrive:  *)
(* io.ReadFull's, for the block it fails in.  io.ReadFull says io.EOF when *)
(* it gets nothing, io.ErrUnexpectedEOF when it gets a part.               *)
IncrementalError(got) ==
  IF tail # EOF THEN tail
  ELSE IF got % Block = 0 THEN EOF ELSE UnexpectedEOF

-----------------------------------------------------------------------------
(* NewDecoder.                                                             *)

HeaderError == IF stream = <<>> THEN Truncated ELSE ParseHeader(stream[1])

(* readMetadataRegion, right after the header.                             *)
RegionReadable(maxMetaBytes) ==
  /\ Len(stream) >= 2
  /\ U32(stream[2]) <= maxMetaBytes
  /\ 2 + U32(stream[2]) <= Len(stream)

Region == SubSeq(stream, 2, 2 + U32(stream[2]))

RegionEnd(maxMetaBytes) ==
  IF Len(stream) < 2 \/ U32(stream[2]) > maxMetaBytes THEN Lesser(2, Len(stream))
  ELSE Lesser(2 + U32(stream[2]), Len(stream))

(* With a bug: the region is read and not parsed.                          *)
RegionUnparsed(maxMetaBytes) == RegionReadable(maxMetaBytes)

RegionLegal(maxMetaBytes) == RegionReadable(maxMetaBytes) /\ ParseMetadata(Region).ok

(* The header and metadata prefix, which Inspect reads too.                *)
PrefixError(maxMetaBytes) ==
  IF HeaderError # NoError THEN HeaderError
  ELSE IF stream[1].h.hasMetadata /\ ~RegionLegal(maxMetaBytes) THEN MetaMalformed
  ELSE NoError

PrefixEnd(maxMetaBytes) ==
  IF HeaderError = NoError /\ stream[1].h.hasMetadata
  THEN RegionEnd(maxMetaBytes) ELSE Lesser(1, Len(stream))

(* With a bug: a container exactly at its caps is refused.                 *)
OverCapsReached(h) == h.chunkCount >= limits.maxChunkCount \/ h.totalSize >= limits.maxTotalSize

OverCaps(h) == h.chunkCount > limits.maxChunkCount \/ h.totalSize > limits.maxTotalSize

(* With a bug: the caps come before the key.                               *)
OpenErrorCapsFirst ==
  LET h == stream[1].h
  IN  IF PrefixError(limits.maxMetaBytes) # NoError THEN PrefixError(limits.maxMetaBytes)
      ELSE IF OverCaps(h) THEN Truncated
      ELSE IF h.encrypted /\ Len(optKey) # KeyLen THEN MissingKey
      ELSE NoError

OpenError ==
  LET h == stream[1].h
  IN  IF PrefixError(limits.maxMetaBytes) # NoError THEN PrefixError(limits.maxMetaBytes)
      ELSE IF h.encrypted /\ Len(optKey) # KeyLen THEN MissingKey
      ELSE IF OverCaps(h) THEN Truncated
      ELSE NoError

NewDecoderFails ==
  /\ phase = "new" /\ OpenError # NoError
  /\ phase' = "rejected" /\ reply' = OpenError
  /\ pos' = PrefixEnd(limits.maxMetaBytes)
  /\ UNCHANGED <<sourceVars, openVars, payloadVars, endVars, callerVars>>

NewDecoderOpens ==
  /\ phase = "new" /\ OpenError = NoError
  /\ phase' = "open" /\ reply' = NoError
  /\ pos' = PrefixEnd(limits.maxMetaBytes)
  /\ header' = stream[1].h
  /\ region' = IF header'.hasMetadata THEN Region ELSE <<>>
  /\ root' = [key   |-> IF header'.encrypted THEN rootKey(optKey, header'.baseNonce) ELSE NoKey,
              input |-> <<stream[1]>> \o region']
  /\ UNCHANGED <<sourceVars, chunkIndex, plainTotal, pending, endVars, callerVars>>

-----------------------------------------------------------------------------
(* Read, its outer layer.                                                  *)

(* With a bug: the kept error is not looked at.                            *)
TerminatedNever == FALSE

Terminated == terminalErr # NoError

ReadNothing ==
  /\ phase = "open"
  /\ reply' = NoError
  /\ UNCHANGED <<sourceVars, pos, phase, openVars, payloadVars, endVars, callerVars>>

ReadAgain ==
  /\ phase = "open" /\ Terminated
  /\ reply' = terminalErr
  /\ UNCHANGED <<sourceVars, pos, phase, openVars, payloadVars, endVars, callerVars>>

ReadStarts(n) ==
  /\ phase = "open" /\ ~Terminated
  /\ phase' = "reading" /\ want' = n
  /\ UNCHANGED <<sourceVars, pos, openVars, payloadVars, endVars, delivered, reply>>

Copied == Lesser(want, Len(pending))

ReadReturns ==
  /\ phase = "reading" /\ pending # <<>>
  /\ delivered' = delivered \o SubSeq(pending, 1, Copied)
  /\ pending' = SubSeq(pending, Copied + 1, Len(pending))
  /\ phase' = "open" /\ want' = 0 /\ reply' = NoError
  /\ UNCHANGED <<sourceVars, pos, openVars, chunkIndex, plainTotal, root, endVars>>

(* With bugs: the last chunk is the end; the end is not said to be one.    *)
EndedEarly == finalized \/ chunkIndex = header.chunkCount
EndReplyNone == NoError

Ended == finalized
EndReply == EOF

ReadEnds ==
  /\ phase = "reading" /\ pending = <<>> /\ Ended
  /\ phase' = "open" /\ want' = 0 /\ reply' = EndReply
  /\ UNCHANGED <<sourceVars, pos, openVars, payloadVars, endVars, delivered>>

(* loadChunk returned err: Read keeps it and returns it.                   *)
Fails(err, end) ==
  /\ terminalErr' = err /\ reply' = err
  /\ phase' = "open" /\ want' = 0
  /\ pos' = end
  /\ UNCHANGED <<sourceVars, openVars, chunkIndex, pending, finalized, delivered>>

-----------------------------------------------------------------------------
(* loadChunk, one way out each.                                            *)

NeedsChunk == phase = "reading" /\ pending = <<>> /\ ~finalized

Loading == NeedsChunk /\ chunkIndex # header.chunkCount

clen == U32(stream[pos + 1])

(* With a bug: the chunk length is not capped.                             *)
LengthUncapped == Available >= 1

LengthReadable == Available >= 1 /\ clen <= limits.maxChunkLen

ChunkLengthFails ==
  /\ Loading /\ ~LengthReadable
  /\ Fails(Truncated, After(1))
  /\ UNCHANGED <<plainTotal, root>>

ChunkBodyFails ==
  /\ Loading /\ LengthReadable /\ Available - 1 < clen
  /\ Fails(IncrementalError(Available - 1), Len(stream))
  /\ UNCHANGED <<plainTotal, root>>

Body == SubSeq(stream, pos + 2, pos + 1 + clen)

BodyRead ==
  /\ Loading /\ LengthReadable /\ Available - 1 >= clen
  /\ root' = [root EXCEPT !.input = Append(@, Leaf(Body))]

(* With a bug: the tag is not checked.                                     *)
Unauthenticated == TRUE

Authentic ==
  header.encrypted => Opens(optKey, header.baseNonce, HeaderCell(header), region, chunkIndex, Body)

PlainOf(body) == IF header.encrypted THEN openChunk(body) ELSE body

ChunkNotAuthentic ==
  /\ BodyRead /\ ~Authentic
  /\ Fails(ChunkAuth, After(1 + clen))
  /\ UNCHANGED plainTotal

(* With a bug: the total is not guarded.                                   *)
OverflowIgnored(n) == FALSE

Overflows(n) == n > MaxU64 - plainTotal

ChunkOverflows ==
  /\ BodyRead /\ Authentic /\ Overflows(Len(PlainOf(Body)))
  /\ Fails(RootMismatch, After(1 + clen))
  /\ UNCHANGED plainTotal

ChunkExceedsTotal ==
  /\ BodyRead /\ Authentic /\ ~Overflows(Len(PlainOf(Body)))
  /\ plainTotal' = AddU64(plainTotal, Len(PlainOf(Body)))
  /\ plainTotal' > header.totalSize
  /\ Fails(RootMismatch, After(1 + clen))

ChunkLoaded ==
  /\ BodyRead /\ Authentic /\ ~Overflows(Len(PlainOf(Body)))
  /\ plainTotal' = AddU64(plainTotal, Len(PlainOf(Body)))
  /\ plainTotal' <= header.totalSize
  /\ pos' = After(1 + clen)
  /\ chunkIndex' = chunkIndex + 1 /\ pending' = PlainOf(Body)
  /\ UNCHANGED <<sourceVars, phase, openVars, endVars, callerVars, reply>>

-----------------------------------------------------------------------------
(* verifyFooter.                                                           *)

AtFooter == NeedsChunk /\ chunkIndex = header.chunkCount

(* With a bug: the magic is not compared.                                  *)
FooterFramedAnyhow == Available >= 2

FooterFramed == Available >= 2 /\ stream[pos + 2] = MagicEnd

(* With a bug: the root is not compared.                                   *)
RootMatchesTotalOnly == plainTotal = header.totalSize

RootMatches ==
  /\ plainTotal = header.totalSize
  /\ stream[pos + 1] = RootCell(root.key, root.input)

(* With a bug: what follows the footer is not looked at.                   *)
HasTrailingNever == FALSE

HasTrailing == Available > 2

FooterError ==
  IF ~FooterFramed THEN Truncated
  ELSE IF ~RootMatches THEN RootMismatch
  ELSE IF HasTrailing THEN TrailingData
  ELSE IF tail # EOF THEN Truncated
  ELSE NoError

FooterFails ==
  /\ AtFooter /\ FooterError # NoError
  /\ Fails(FooterError, After(IF FooterError = TrailingData THEN 3 ELSE 2))
  /\ UNCHANGED <<plainTotal, root>>

FooterVerified ==
  /\ AtFooter /\ FooterError = NoError
  /\ finalized' = TRUE /\ pos' = After(2)
  /\ UNCHANGED <<sourceVars, phase, openVars, payloadVars, terminalErr, callerVars, reply>>

-----------------------------------------------------------------------------
LoadChunk ==
  \/ ChunkLengthFails \/ ChunkBodyFails \/ ChunkNotAuthentic
  \/ ChunkOverflows \/ ChunkExceedsTotal \/ ChunkLoaded
  \/ FooterFails \/ FooterVerified

NewDecoder == NewDecoderFails \/ NewDecoderOpens

Read == ReadNothing \/ ReadAgain \/ \E n \in 1..MaxRead : ReadStarts(n)

Next == NewDecoder \/ Read \/ LoadChunk \/ ReadReturns \/ ReadEnds

Spec == Init /\ [][Next]_vars

(* The callers in the package (io.ReadAll, io.Copy) call Read with a       *)
(* non-empty buffer until it returns an error, and a call always returns.  *)
Fairness ==
  /\ WF_vars(NewDecoder)
  /\ WF_vars(\E n \in 1..MaxRead : ReadStarts(n))
  /\ WF_vars(LoadChunk \/ ReadReturns \/ ReadEnds)

FairSpec == Spec /\ Fairness
-----------------------------------------------------------------------------
(* Properties.                                                             *)

HashInput == Cells \cup [t : {"leaf"}, body : Seq(Cells)]

Errors == ErrorCode \cup {NoError, EOF, UnexpectedEOF, SourceError}

TypeOK ==
  /\ stream \in Seq(Cells) /\ tail \in Tails /\ optKey \in Keys /\ options \in Options
  /\ pos \in 0..Len(stream)
  /\ phase \in {"new", "rejected", "open", "reading"}
  /\ header \in Header /\ region \in Seq(Cells)
  /\ root \in [key : {NoKey} \cup (Seq(Nat) \X Nat), input : Seq(HashInput)]
  /\ chunkIndex \in Nat /\ plainTotal \in Nat
  /\ pending \in Seq(Cells) /\ delivered \in Seq(Cells)
  /\ terminalErr \in Errors /\ reply \in Errors
  /\ finalized \in BOOLEAN
  /\ want \in 0..MaxRead

(* A verified container is verified to its last cell: exactly ChunkCount   *)
(* chunks were accepted, they hold exactly TotalSize bytes, all of them    *)
(* were or will be returned by Read, and nothing follows the footer that   *)
(* the computed root was compared with.                                    *)
FinalizedIsWhole ==
  finalized =>
    /\ chunkIndex = header.chunkCount
    /\ Len(delivered) + Len(pending) = header.totalSize
    /\ pos = Len(stream) /\ tail = EOF
    /\ stream[pos - 1] = RootCell(root.key, root.input)
    /\ stream[pos] = MagicEnd

(* Per-chunk authentication comes before release: every chunk accepted so  *)
(* far opened under the caller's key, at its own index, under this header  *)
(* and this metadata.                                                      *)
LeafOf(i) == root.input[1 + Len(region) + i].body

AcceptedChunksAuthentic ==
  header.encrypted => \A i \in 1..chunkIndex :
    Opens(optKey, header.baseNonce, HeaderCell(header), region, i - 1, LeafOf(i))

(* The caps bound what one container can make the decoder do, whatever its *)
(* length fields say: cells read, cells held at once, cells released.      *)
WorkIsBounded ==
  /\ pos <= 2 + limits.maxMetaBytes + chunkIndex * (1 + limits.maxChunkLen)
              + (1 + limits.maxChunkLen) + 2
  /\ Len(pending) <= limits.maxChunkLen
  /\ chunkIndex <= limits.maxChunkCount
  /\ Len(delivered) + Len(pending) <= limits.maxTotalSize

(* A Read that returned io.EOF has verified the footer, or the stream was  *)
(* cut inside a chunk body exactly at a block of readIncrementally, whose  *)
(* io.EOF loadChunk passes on (decoder.go:170-173).                        *)
CutAtBlock ==
  /\ tail = EOF /\ chunkIndex < header.chunkCount
  /\ \E p \in DOMAIN stream : LET got == Len(stream) - p
                             IN  got < U32(stream[p]) /\ got % Block = 0

CleanEndIsExplained == reply = EOF => finalized \/ CutAtBlock

(* An error is final: once Read has returned one it releases nothing more, *)
(* reads nothing more from the source and keeps returning it.              *)
ErrorIsFinal ==
  [][terminalErr # NoError =>
       /\ terminalErr' = terminalErr /\ delivered' = delivered /\ pos' = pos
       /\ reply' \in {terminalErr, NoError}]_vars

(* The running total is the number of bytes released or about to be: it    *)
(* does not wrap around, however close to the largest uint64 it comes.     *)
TotalNeverWraps ==
  terminalErr = NoError => plainTotal = Len(delivered) + Len(pending)

(* Reading with a non-empty buffer ends, on every stream: in a clean end   *)
(* or in an error.                                                         *)
ReadingEnds == <>(phase = "rejected" \/ terminalErr # NoError \/ (finalized /\ reply = EOF))

(* The decoder is a reader that keeps the promise of UbcReader, but for    *)
(* the error of a chunk body cut short.                                    *)
Outcome ==
  IF phase = "rejected" THEN reply
  ELSE IF terminalErr # NoError THEN terminalErr
  ELSE IF finalized THEN NoError ELSE "open"

Reader == INSTANCE UbcReader WITH
  ReportsCutBody <- FALSE, Reference <- Decoded, input <- <<stream, optKey, limits>>,
  intact <- (tail = EOF), released <- delivered, outcome <- Outcome

ImplementsReader == Reader!ReaderSpec
=============================================================================
