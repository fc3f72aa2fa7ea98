----------------------------- MODULE PyDecoder ------------------------------
(***************************************************************************)
(* The streaming Decoder of sdk/python/ubc/streaming.py over a source that *)
(* may return less than was asked for, end, or raise OSError.              *)
(*                                                                         *)
(* A UbcError is kept and raised again by every later read; an OSError is  *)
(* not, so a caller may read again, and the decoder goes on with whatever  *)
(* the source gives next.  What a _read_exact had read when the source     *)
(* raised is lost, and the source has moved on by it.                      *)
(***************************************************************************)
EXTENDS OneShot

CONSTANTS
  Streams,      (* the streams a source may hold                            *)
  Keys,         (* DecodeOptions.key, NoKey for None                        *)
  Options,      (* the four caps of DecodeOptions                           *)
  MaxRead,      (* bound: the largest size passed to read                   *)
  ReadBlock,    (* _READ_BLOCK_SIZE, the size of read(-1)'s own reads       *)
  MaxFaults     (* bound: how often the source raises OSError               *)

Caps == [maxMetaBytes : Nat, maxChunkLen : Nat, maxChunkCount : Nat, maxTotalSize : Nat]

ASSUME PyAssumption ==
  /\ Streams \subseteq Seq(Cells) /\ Keys \subseteq Seq(Nat) /\ Options \subseteq Caps
  /\ MaxRead \in Nat \ {0} /\ ReadBlock \in Nat \ {0} /\ MaxFaults \in Nat

OSError == "OSError"
Empty   == "b''"       \* a read returned no bytes: the end

VARIABLES
  stream, key, options,
  pos,          \* cells taken from the source
  faults,       \* how often it has raised
  phase,        \* "new", "rejected" (no decoder), "open", "reading", "read all"
  want,         \* the size of the read in progress
  output,       \* what read(-1) has collected
  header, region, leaves,   \* _header, _metadata_raw, and what _root was fed since
  chunkIndex, plainTotal, pending, finalized, terminal,
  reply,        \* the exception of the last call, Empty, or NoError
  delivered,    \* what all the reads have returned
  dropped       \* what read(-1) had collected when it raised

sourceVars == <<stream, key, options>>
openVars   == <<header, region>>
loadVars   == <<leaves, chunkIndex, plainTotal>>
callVars   == <<want, output>>
outVars    == <<delivered, dropped>>
vars == <<sourceVars, pos, faults, phase, callVars, openVars, loadVars, pending,
          finalized, terminal, reply, outVars>>

Init ==
  /\ stream \in Streams /\ key \in Keys /\ options \in Options
  /\ pos = 0 /\ faults = 0 /\ phase = "new" /\ want = 0 /\ output = <<>>
  /\ header = PlainHeader(1, 0, FALSE) /\ region = <<>> /\ leaves = <<>>
  /\ chunkIndex = 0 /\ plainTotal = 0 /\ pending = <<>>
  /\ finalized = FALSE /\ terminal = NoError /\ reply = NoError
  /\ delivered = <<>> /\ dropped = <<>>

Available == Len(stream) - pos

(* Where the source may stand when it raises during a read of n cells.     *)
FaultAt(n) == {p \in pos..pos + n - 1 : p <= Len(stream) /\ faults < MaxFaults}

-----------------------------------------------------------------------------
(* Decoder.__init__, one call.                                             *)

(* _read_metadata_region: its length is read with no rule of its own, so   *)
(* that a missing one is ERR_TRUNCATED.                                    *)
MetadataError ==
  LET length == U32(stream[2])
  IN  IF Len(stream) < 2 THEN Truncated
      ELSE IF length = 0 \/ length > options.maxMetaBytes \/ 2 + length > Len(stream)
      THEN MetaMalformed
      ELSE IF ~ParseMetadata(SubSeq(stream, 2, 2 + length)).ok THEN MetaMalformed
      ELSE NoError

PrefixError ==
  IF stream = <<>> THEN Truncated
  ELSE IF ParseHeader(stream[1]) # NoError THEN ParseHeader(stream[1])
  ELSE IF stream[1].h.hasMetadata THEN MetadataError
  ELSE NoError

(* With a bug: the caps are looked at before the key.                      *)
OpenErrorCapsFirst ==
  LET h == stream[1].h
  IN  IF PrefixError # NoError THEN PrefixError
      ELSE IF h.chunkCount > options.maxChunkCount \/ h.totalSize > options.maxTotalSize
      THEN Truncated
      ELSE IF h.encrypted /\ Len(key) # KeyLen THEN MissingKey
      ELSE NoError

OpenError ==
  LET h == stream[1].h
  IN  IF PrefixError # NoError THEN PrefixError
      ELSE IF h.encrypted /\ Len(key) # KeyLen THEN MissingKey
      ELSE IF h.chunkCount > options.maxChunkCount \/ h.totalSize > options.maxTotalSize
      THEN Truncated
      ELSE NoError

Rejects(error) ==
  /\ phase' = "rejected" /\ reply' = error
  /\ UNCHANGED <<sourceVars, pos, callVars, openVars, loadVars, pending, finalized, terminal, outVars>>

InitRaises == phase = "new" /\ OpenError # NoError /\ Rejects(OpenError) /\ UNCHANGED faults

InitInterrupted ==
  /\ phase = "new" /\ faults < MaxFaults
  /\ Rejects(OSError) /\ faults' = faults + 1

InitOpens ==
  /\ phase = "new" /\ OpenError = NoError
  /\ phase' = "open" /\ header' = stream[1].h /\ region' = RegionOf(stream)
  /\ pos' = MetaEnd(stream)
  /\ UNCHANGED <<sourceVars, faults, callVars, loadVars, pending, finalized, terminal, reply, outVars>>

-----------------------------------------------------------------------------
(* read: sizes above zero, and -1 for everything.                          *)

ReadAgain ==
  /\ phase = "open" /\ terminal # NoError
  /\ reply' = terminal
  /\ UNCHANGED <<sourceVars, pos, faults, phase, callVars, openVars, loadVars, pending,
                 finalized, terminal, outVars>>

ReadStarts ==
  /\ phase = "open" /\ terminal = NoError
  /\ phase' = "reading" /\ want' \in 1..MaxRead
  /\ UNCHANGED <<sourceVars, pos, faults, output, openVars, loadVars, pending,
                 finalized, terminal, reply, outVars>>

ReadAllStarts ==
  /\ phase = "open" /\ terminal = NoError
  /\ phase' = "read all" /\ want' = ReadBlock /\ output' = <<>>
  /\ UNCHANGED <<sourceVars, pos, faults, openVars, loadVars, pending,
                 finalized, terminal, reply, outVars>>

InRead == phase \in {"reading", "read all"}

(* The part of the pending chunk a read takes.                             *)
Piece == SubSeq(pending, 1, Lesser(want, Len(pending)))

Returns(bytes) ==
  /\ delivered' = delivered \o bytes /\ output' = <<>>
  /\ phase' = "open" /\ want' = 0 /\ reply' = IF bytes = <<>> THEN Empty ELSE NoError
  /\ UNCHANGED dropped

ReadReturns ==
  /\ phase = "reading" /\ (pending = <<>> => finalized)
  /\ Returns(Piece)
  /\ pending' = SubSeq(pending, Len(Piece) + 1, Len(pending))
  /\ UNCHANGED <<sourceVars, pos, faults, openVars, loadVars, finalized, terminal>>

ReadAllCollects ==
  /\ phase = "read all" /\ pending # <<>>
  /\ output' = output \o Piece
  /\ pending' = SubSeq(pending, Len(Piece) + 1, Len(pending))
  /\ UNCHANGED <<sourceVars, pos, faults, phase, want, openVars, loadVars,
                 finalized, terminal, reply, outVars>>

ReadAllReturns ==
  /\ phase = "read all" /\ pending = <<>> /\ finalized
  /\ Returns(output)
  /\ UNCHANGED <<sourceVars, pos, faults, openVars, loadVars, pending, finalized, terminal>>

(* An exception leaves read: what read(-1) had collected goes with it.     *)
Raises(error) ==
  /\ reply' = error
  /\ phase' = "open" /\ want' = 0 /\ output' = <<>> /\ dropped' = dropped \o output
  /\ UNCHANGED <<sourceVars, openVars, chunkIndex, plainTotal, pending, finalized, delivered>>

(* With a bug: every exception leaves the decoder as it was.               *)
KeptNever(error) == NoError

Kept(error) == error

RaisesUbcError(error) == terminal' = Kept(error) /\ Raises(error) /\ UNCHANGED faults

-----------------------------------------------------------------------------
(* _load_next_chunk and _finalize, one way out each.                       *)

NeedsChunk == InRead /\ pending = <<>> /\ ~finalized

Loading == NeedsChunk /\ chunkIndex # header.chunkCount

AtFooter == NeedsChunk /\ chunkIndex = header.chunkCount

clen == U32(stream[pos + 1])

LengthReadable == Available >= 1 /\ clen <= options.maxChunkLen

Body == SubSeq(stream, pos + 2, pos + 1 + clen)

(* With a bug: the tag is not checked.                                     *)
Unauthenticated == TRUE

Authentic ==
  header.encrypted => Opens(key, header.baseNonce, stream[1], region, chunkIndex, Body)

Plain == IF header.encrypted THEN openChunk(Body) ELSE Body

(* What is wrong with the chunk the source has next.                       *)
LoadError ==
  IF ~LengthReadable \/ Available - 1 < clen THEN Truncated
  ELSE IF ~Authentic THEN ChunkAuth
  ELSE IF Len(Plain) > header.totalSize - plainTotal THEN RootMismatch
  ELSE NoError

Root == RootCell(IF header.encrypted THEN rootKey(key, header.baseNonce) ELSE NoKey,
                 <<stream[1]>> \o region \o leaves)

(* With a bug: the total is compared, the root is not.                     *)
RootUnchecked == plainTotal = header.totalSize

RootMatches == plainTotal = header.totalSize /\ stream[pos + 1] = Root

FooterError ==
  IF Available < 2 THEN Truncated
  ELSE IF stream[pos + 2] # MagicEnd THEN Truncated
  ELSE IF ~RootMatches THEN RootMismatch
  ELSE NoError

(* What one turn asks of the source: a length and a body; or the footer    *)
(* and, if that is right, one byte more.  It may raise before any cell.    *)
Asked ==
  IF AtFooter THEN IF FooterError = NoError THEN 3 ELSE 2
  ELSE IF LengthReadable THEN 1 + clen ELSE 1

SourceRaises ==
  /\ NeedsChunk
  /\ pos' \in FaultAt(Asked)
  /\ faults' = faults + 1
  /\ Raises(OSError) /\ UNCHANGED <<leaves, terminal>>

(* The root takes the body before it is authenticated.                     *)
LoadRaises ==
  /\ Loading /\ LoadError # NoError
  /\ leaves' = IF LoadError = Truncated THEN leaves ELSE Append(leaves, Leaf(Body))
  /\ pos' = Lesser(pos + Asked, Len(stream))
  /\ RaisesUbcError(LoadError)

ChunkLoaded ==
  /\ Loading /\ LoadError = NoError
  /\ leaves' = Append(leaves, Leaf(Body))
  /\ plainTotal' = plainTotal + Len(Plain)
  /\ chunkIndex' = chunkIndex + 1 /\ pending' = Plain
  /\ pos' = pos + Asked
  /\ UNCHANGED <<sourceVars, faults, phase, callVars, openVars, finalized, terminal, reply, outVars>>

FinalizeRaises ==
  /\ AtFooter
  /\ FooterError = NoError => Available > 2
  /\ pos' = Lesser(pos + Asked, Len(stream))
  /\ RaisesUbcError(IF FooterError = NoError THEN TrailingData ELSE FooterError)
  /\ UNCHANGED leaves

Finalizes ==
  /\ AtFooter /\ FooterError = NoError /\ Available = 2
  /\ finalized' = TRUE /\ pos' = pos + 2
  /\ UNCHANGED <<sourceVars, faults, phase, callVars, openVars, loadVars, pending,
                 terminal, reply, outVars>>

-----------------------------------------------------------------------------
Construct == InitRaises \/ InitInterrupted \/ InitOpens

Starts == ReadStarts \/ ReadAllStarts

Proceeds ==
  \/ ReadReturns \/ ReadAllCollects \/ ReadAllReturns
  \/ LoadRaises \/ ChunkLoaded \/ FinalizeRaises \/ Finalizes

Next == Construct \/ ReadAgain \/ Starts \/ SourceRaises \/ Proceeds

Spec == Init /\ [][Next]_vars

-----------------------------------------------------------------------------
(* Properties.                                                             *)

Reference == decodeBytes(stream, key, options)

(* All the plaintext accepted from the container so far, in order, if no   *)
(* read(-1) has lost any.                                                  *)
Accepted == delivered \o output \o pending

(* Until the source first raises the decoder is the streaming reader of    *)
(* UbcReader, which ends as the one-shot decoder ends; and after a         *)
(* UbcError it is one that has ended, whatever raised before or is raised  *)
(* later: no read returns anything more, or another error.  One answer has *)
(* another name, although "Each SDK [...] exposes the same identifier so   *)
(* callers can branch portably" (docs/API.md:135-136): a container cut     *)
(* right after a header that announces metadata is ERR_TRUNCATED here and  *)
(* ERR_META_MALFORMED there.  It is neither any other name nor that name   *)
(* for anything else.                                                      *)
CutAfterHeader == Len(stream) = 1 /\ stream[1].t = "header" /\ stream[1].h.hasMetadata

OneShotName(error) ==
  IF ~CutAfterHeader THEN error
  ELSE IF error = Truncated THEN MetaMalformed
  ELSE IF error = MetaMalformed THEN Truncated
  ELSE error

ReaderOutcome ==
  IF phase = "rejected" THEN OneShotName(reply)
  ELSE IF terminal # NoError THEN terminal
  ELSE IF reply = Empty THEN NoError
  ELSE "open"

Reader == INSTANCE UbcReader WITH
  ReportsCutBody <- TRUE, Reference <- Decoded, input <- <<stream, key, options>>, intact <- TRUE,
  released <- delivered, outcome <- ReaderOutcome

ImplementsReader ==
  /\ Reader!ReaderInit
  /\ [][UNCHANGED sourceVars /\ (faults' = 0 \/ terminal # NoError) =>
          Reader!ReaderNext]_(Reader!readerVars)
=============================================================================
