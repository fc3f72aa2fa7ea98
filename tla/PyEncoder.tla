----------------------------- MODULE PyEncoder ------------------------------
(***************************************************************************)
(* The streaming Encoder of sdk/python/ubc/streaming.py.  write appends to *)
(* a temporary file; close writes the container to the sink, piece by      *)
(* piece, and closes the file, which removes it.  A write to the file that *)
(* raises OSError may have stored a part of its data, and is not counted;  *)
(* the encoder stays open and takes further writes.                        *)
(***************************************************************************)
EXTENDS OneShot

CONSTANTS
  Buffers,      (* what a caller may pass to write                          *)
  MaxWrites,    (* bound: calls of write                                    *)
  Metadata,     (* the metadata a caller may ask for                        *)
  Encodings,    (* records [chunk_size, key, base_nonce], NoNonce for None  *)
  NoNonce,
  Randoms       (* what secrets.token_bytes may return                      *)

ASSUME PyEncoderAssumption ==
  /\ Buffers \subseteq Seq(NumCells) /\ MaxWrites \in Nat
  /\ Metadata \subseteq Seq([tag : 0..MaxU32, value : Seq(NumCells)])
  /\ Encodings \subseteq [chunk_size : 0..MaxU32, key : Seq(Nat), base_nonce : Nat \cup {NoNonce}]
  /\ Randoms \subseteq Nat /\ NoNonce \notin Nat

Failure    == "OSError"
ValueError == "ValueError"
StructError == "struct.error"

VARIABLES
  entries, encoding,
  encPhase,    \* "new", "refused", "idle", "closing", "finally"
  spool,       \* what the file holds, appended in order
  totalSize, closed,
  sink, pieces,  \* what the sink has, and what close still has to write
  outcome,     \* the exception close will raise, or NoError
  encReply,    \* the exception of the last call
  writes,
  accepted,    \* the data of the writes that returned
  base,        \* the base nonce close took
  torn         \* a write that raised had stored a part of its data

argVars  == <<entries, encoding>>
fileVars == <<spool, totalSize, accepted, torn, writes>>
encVars == <<argVars, encPhase, fileVars, closed, sink, pieces, outcome, encReply, base>>

EncInit ==
  /\ entries \in Metadata /\ encoding \in Encodings
  /\ encPhase = "new" /\ spool = <<>> /\ totalSize = 0 /\ closed = FALSE
  /\ sink = <<>> /\ pieces = <<>> /\ outcome = NoError /\ encReply = NoError
  /\ writes = 0 /\ accepted = <<>> /\ base = ZeroNonce /\ torn = FALSE

(* EncodeOptions.__post_init__, encode_metadata, TemporaryFile.            *)
OptionsError ==
  IF \/ encoding.chunk_size = 0
     \/ encoding.key # NoKey /\ Len(encoding.key) # KeyLen
     \/ encoding.key = NoKey /\ encoding.base_nonce # NoNonce
  THEN ReservedBits
  ELSE IF ~EncodeMetadata(entries).ok THEN MetaMalformed
  ELSE NoError

EncConstruct ==
  /\ encPhase = "new"
  /\ \E error \in IF OptionsError = NoError THEN {NoError, Failure} ELSE {OptionsError} :
       encReply' = error /\ encPhase' = IF error = NoError THEN "idle" ELSE "refused"
  /\ UNCHANGED <<argVars, fileVars, closed, sink, pieces, outcome, base>>

-----------------------------------------------------------------------------
(* write: all of the buffer, or an exception after a part of it.           *)

Writable == encPhase = "idle" /\ writes < MaxWrites /\ writes' = writes + 1

WriteRefused ==
  /\ Writable /\ closed
  /\ encReply' = ValueError
  /\ UNCHANGED <<argVars, encPhase, spool, totalSize, accepted, torn, closed, sink, pieces, outcome, base>>

WriteReturns(data) ==
  /\ Writable /\ ~closed
  /\ spool' = spool \o data /\ totalSize' = totalSize + Len(data)
  /\ accepted' = accepted \o data /\ encReply' = NoError
  /\ UNCHANGED <<argVars, encPhase, torn, closed, sink, pieces, outcome, base>>

WriteRaises(data) ==
  /\ Writable /\ ~closed
  /\ \E n \in 0..Len(data) : /\ spool' = spool \o SubSeq(data, 1, n)
                             /\ torn' = (torn \/ n > 0)
  /\ encReply' = Failure
  /\ UNCHANGED <<argVars, encPhase, totalSize, accepted, closed, sink, pieces, outcome, base>>

-----------------------------------------------------------------------------
(* close.                                                                  *)

Encrypted == encoding.key # NoKey

HeaderOf(nonce) ==
  IF Encrypted THEN EncryptedHeader(encoding.chunk_size, totalSize, entries # <<>>, nonce)
  ELSE PlainHeader(encoding.chunk_size, totalSize, entries # <<>>)

(* What is read back of the file: as much as was counted.                  *)
Spooled == SubSeq(spool, 1, totalSize)

(* The writes of _write_container, an empty one left out by _write_all.    *)
PiecesOf(nonce) ==
  LET head   == HeaderCell(HeaderOf(nonce))
      meta   == EncodeMetadata(entries).region
      plain  == ChunksOf(Spooled, encoding.chunk_size)
      bodies == [i \in DOMAIN plain |->
                   IF Encrypted THEN sealChunk(encoding.key, nonce, head, meta, i - 1, plain[i])
                   ELSE plain[i]]
      key    == IF Encrypted THEN rootKey(encoding.key, nonce) ELSE NoKey
  IN  <<<<head>>, meta>> \o FlattenSeq([i \in DOMAIN bodies |-> <<<<Num(Len(bodies[i]))>>, bodies[i]>>])
      \o <<<<RootCell(key, RootInput(head, meta, bodies))>>, <<MagicEnd>>>>

CloseRefused ==
  /\ encPhase = "idle" /\ closed
  /\ encReply' = ValueError
  /\ UNCHANGED <<argVars, encPhase, fileVars, closed, sink, pieces, outcome, base>>

Nonces ==
  IF ~Encrypted THEN {ZeroNonce}
  ELSE IF encoding.base_nonce # NoNonce THEN {encoding.base_nonce} ELSE Randoms

(* Header.to_bytes validates, and struct.pack takes no count that does not *)
(* fit its field.  A header it refuses leaves nothing written.             *)
HeaderError(h) ==
  IF validate(h) # NoError THEN validate(h)
  ELSE IF h.totalSize > MaxU64 THEN StructError
  ELSE NoError

CloseStarts ==
  /\ encPhase = "idle" /\ ~closed
  /\ closed' = TRUE /\ base' \in Nonces
  /\ outcome' = HeaderError(HeaderOf(base'))
  /\ IF outcome' = NoError THEN encPhase' = "closing" /\ pieces' = PiecesOf(base')
     ELSE encPhase' = "finally" /\ UNCHANGED pieces
  /\ UNCHANGED <<argVars, fileVars, sink, encReply>>

(* _write_all of the next piece, however many writes the sink makes of it. *)
PieceWritten ==
  /\ encPhase = "closing"
  /\ sink' = sink \o Head(pieces) /\ pieces' = Tail(pieces)
  /\ encPhase' = IF pieces' = <<>> THEN "finally" ELSE encPhase
  /\ UNCHANGED <<argVars, fileVars, closed, outcome, encReply, base>>

(* The sink raises, or takes nothing more; or seek or read of the file     *)
(* raises before the piece.                                                *)
PieceBreaks ==
  /\ encPhase = "closing"
  /\ \E n \in 0..Len(Head(pieces)) - 1 : sink' = sink \o SubSeq(Head(pieces), 1, n)
  /\ outcome' = Failure /\ encPhase' = "finally"
  /\ UNCHANGED <<argVars, fileVars, closed, pieces, encReply, base>>

(* With a bug: what goes wrong while writing does not leave close.         *)
FinalOutcomeLost(closing) == closing

FinalOutcome(closing) == IF closing # NoError THEN closing ELSE outcome

(* finally: the file is closed; an exception there takes the other's place.*)
CloseReturns ==
  /\ encPhase = "finally" /\ encPhase' = "idle"
  /\ \E closing \in {NoError, Failure} : outcome' = FinalOutcome(closing)
  /\ encReply' = outcome'
  /\ UNCHANGED <<argVars, fileVars, closed, sink, pieces, base>>

Close == CloseRefused \/ CloseStarts

Closing == PieceWritten \/ PieceBreaks \/ CloseReturns

Write == WriteRefused \/ \E data \in Buffers : WriteReturns(data) \/ WriteRaises(data)

EncNext == EncConstruct \/ Write \/ Close \/ Closing

EncSpec == EncInit /\ [][EncNext]_encVars
-----------------------------------------------------------------------------
(* Properties.                                                             *)

Closed == closed /\ encPhase = "idle" /\ outcome = NoError

ContainerOf(plain) ==
  IF Encrypted
  THEN EncodeEncryptedWithFixedNonce(plain, encoding.key, base, entries, encoding.chunk_size)
  ELSE EncodePlain(plain, entries, encoding.chunk_size)

(* However the writes went and wherever the sink stopped, it holds a       *)
(* prefix of one container, the one of the counted bytes of the file; and  *)
(* close returns only when it holds all of it.                             *)
SinkHoldsOneContainer ==
  closed /\ sink # <<>> =>
    /\ IsPrefix(sink, ContainerOf(Spooled).out)
    /\ Closed => sink = ContainerOf(Spooled).out

(* What close reported as written decodes to what the writes that returned *)
(* were given.                                                             *)
Uncapped == [maxMetaBytes |-> MaxU32, maxChunkLen |-> MaxU32, maxChunkCount |-> MaxU64,
           maxTotalSize |-> MaxU64]

SinkDecodes ==
  LET decoded == decodeBytes(sink, encoding.key, Uncapped)
  IN  decoded.err = NoError /\ decoded.plain = accepted

(* Not so in the code once a write that raised had stored a part of its    *)
(* data: "decode(encode(x)) == x for all inputs (lossless round-trip)"     *)
(* (docs/API.md:142), where write may be called repeatedly                 *)
(* (docs/API.md:30).                                                       *)
CloseIsLossless == Closed => SinkDecodes

(* And that is the only way: close is lossless unless a write that raised  *)
(* had stored a part of its data.                                          *)
LosslessUnlessTorn == ~torn => CloseIsLossless
=============================================================================
