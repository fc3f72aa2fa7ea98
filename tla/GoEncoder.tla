----------------------------- MODULE GoEncoder ------------------------------
(***************************************************************************)
(* The streaming encoder of sdk/go/encoder.go.  Write appends plaintext to *)
(* a temporary file, because the header holds counts that are known only   *)
(* at the end; Close writes the whole container to the sink, piece by      *)
(* piece, and removes the file.  Every write to the file or to the sink    *)
(* may stop anywhere with an error, and so may every other file operation. *)
(***************************************************************************)
EXTENDS OneShot

CONSTANTS
  Pieces,           (* the buffers a caller may pass to Write               *)
  MaxWrites,        (* bound: the number of calls to Write                  *)
  MetadataLists,    (* the metadata a caller may ask for                    *)
  EncodeOptions,    (* records [Key, ChunkSize, BaseNonce], NoNonce if none *)
  NoNonce,
  RandomNonces,     (* what rand.Read may return                            *)
  DefaultChunkSize

ASSUME EncoderAssumption ==
  /\ Pieces \subseteq Seq(NumCells)
  /\ MaxWrites \in Nat
  /\ MetadataLists \subseteq Seq([tag : 0..MaxU32, value : Seq(NumCells)])
  /\ EncodeOptions \subseteq
       [Key : Seq(Nat), ChunkSize : 0..MaxU32, BaseNonce : Nat \cup {NoNonce}]
  /\ RandomNonces \subseteq Nat /\ NoNonce \notin Nat
  /\ DefaultChunkSize \in 1..MaxU32

Failure == "i/o error"
ErrClosed == "encoder is closed"

VARIABLES
  entries, eoptions,   \* the arguments of NewEncoder, the default applied
  metadata,            \* e.metadata
  spool,               \* e.spool: does the file exist, what it holds
  totalSize, closed,
  sink,                \* what the sink has received
  accepted,            \* the bytes that Write has said it took
  writes,              \* calls to Write so far
  step,                \* what the encoder does next; "idle" between calls
  eheader, eroot, index,   \* the locals of Close
  closeErr,            \* Close's named result
  answer               \* the error of the last call that returned

argVars   == <<entries, eoptions, metadata>>
localVars == <<eheader, eroot, index>>
writeVars == <<totalSize, accepted, writes>>
encVars   == <<argVars, spool, closed, sink, writeVars, step, localVars, closeErr, answer>>

NoFile == [exists |-> FALSE, data |-> <<>>]

EncInit ==
  /\ entries \in MetadataLists /\ eoptions \in EncodeOptions
  /\ metadata = <<>> /\ spool = NoFile /\ totalSize = 0 /\ closed = FALSE
  /\ sink = <<>> /\ accepted = <<>> /\ writes = 0 /\ step = "new"
  /\ eheader = PlainHeader(1, 0, FALSE) /\ eroot = [key |-> NoKey, input |-> <<>>] /\ index = 0
  /\ closeErr = NoError /\ answer = NoError

NewEncoder ==
  /\ step = "new"
  /\ eoptions' = [eoptions EXCEPT !.ChunkSize = IF @ = 0 THEN DefaultChunkSize ELSE @]
  /\ LET meta == EncodeMetadata(entries)
         refuse(err) == /\ step' = "refused" /\ answer' = err
                        /\ UNCHANGED <<metadata, spool>>
     IN  IF Len(eoptions.Key) \notin {0, KeyLen} THEN refuse(ReservedBits)
         ELSE IF ~meta.ok THEN refuse(MetaMalformed)
         ELSE \/ refuse(Failure)              \* os.CreateTemp fails
              \/ /\ metadata' = meta.region
                 /\ spool' = [exists |-> TRUE, data |-> <<>>]
                 /\ step' = "idle" /\ answer' = NoError
  /\ UNCHANGED <<entries, closed, sink, writeVars, localVars, closeErr>>

-----------------------------------------------------------------------------
(* Write.  A short write to the file is an error, and its n bytes count.   *)

(* With bugs: a closed encoder takes plaintext; a short write counts in    *)
(* full.                                                                   *)
OpenAlways == TRUE
CountedInFull(p, n) == Len(p)

Open == ~closed
Counted(p, n) == n

TooMuch(p) == Len(p) > MaxU64 - totalSize

WriteRefused(p) ==
  /\ step = "idle" /\ (closed \/ TooMuch(p))
  /\ answer' = IF closed THEN ErrClosed ELSE ReservedBits
  /\ UNCHANGED <<accepted, spool, totalSize>>

WriteTakes(p, n) ==
  /\ step = "idle" /\ Open /\ ~TooMuch(p)
  /\ spool' = [spool EXCEPT !.data = @ \o SubSeq(p, 1, n)]
  /\ totalSize' = AddU64(totalSize, Counted(p, n))
  /\ accepted' = accepted \o SubSeq(p, 1, n)
  /\ answer' = IF n < Len(p) THEN Failure ELSE NoError

Write(p) ==
  /\ writes < MaxWrites /\ writes' = writes + 1
  /\ WriteRefused(p) \/ \E n \in 0..Len(p) : WriteTakes(p, n)
  /\ UNCHANGED <<argVars, closed, sink, step, localVars, closeErr>>

-----------------------------------------------------------------------------
(* Close.                                                                  *)

Goes(next) == step' = next /\ UNCHANGED closeErr

(* With a bug: the error is dropped.                                       *)
AbortsQuietly(err) == step' = "cleanup" /\ closeErr' = NoError

Aborts(err) == step' = "cleanup" /\ closeErr' = err

(* writeAll: all of the piece, or an error after a part of it.  Nothing is *)
(* written, and nothing can fail, if the piece is empty.                   *)
WriteBreaks(piece) ==
  \E n \in 0..Len(piece) - 1 : sink' = sink \o SubSeq(piece, 1, n) /\ Aborts(Failure)

WriteAll(piece, next) == (sink' = sink \o piece /\ Goes(next)) \/ WriteBreaks(piece)

CloseAgain ==
  /\ step = "idle" /\ closed
  /\ answer' = ErrClosed
  /\ UNCHANGED <<argVars, spool, closed, sink, writeVars, step, localVars, closeErr>>

chunkCount ==
  totalSize \div eoptions.ChunkSize + (IF totalSize % eoptions.ChunkSize # 0 THEN 1 ELSE 0)

CloseHeader(base) ==
  LET plain == [version |-> 1, encrypted |-> FALSE, hasMetadata |-> metadata # <<>>,
                reserved |-> FALSE, hashAlgo |-> HashSHA256, aeadAlgo |-> AEADNone,
                chunkSize |-> eoptions.ChunkSize, chunkCount |-> chunkCount,
                totalSize |-> totalSize, baseNonce |-> ZeroNonce]
  IN  IF eoptions.Key = NoKey THEN plain
      ELSE [plain EXCEPT !.encrypted = TRUE, !.hashAlgo = HashHMACSHA256,
                         !.aeadAlgo = AEADAESGCM, !.baseNonce = base]

BaseNonces ==
  IF eoptions.Key = NoKey THEN {ZeroNonce}
  ELSE IF eoptions.BaseNonce # NoNonce THEN {eoptions.BaseNonce} ELSE RandomNonces

(* The header is made and, if legal, the encoder goes on to write it.      *)
CloseStarts ==
  /\ step = "idle" /\ ~closed
  /\ closed' = TRUE
  /\ \/ \E base \in BaseNonces :
          /\ eheader' = CloseHeader(base)
          /\ IF validate(eheader') = NoError THEN Goes("header") ELSE Aborts(validate(eheader'))
     \/ /\ eoptions.Key # NoKey /\ eoptions.BaseNonce = NoNonce    \* rand.Read fails
        /\ Aborts(Failure) /\ UNCHANGED eheader
  /\ UNCHANGED <<argVars, spool, sink, writeVars, eroot, index, answer>>

CloseWritesHeader ==
  /\ step = "header"
  /\ WriteAll(<<HeaderCell(eheader)>>, "metadata")
  /\ UNCHANGED <<argVars, spool, closed, writeVars, localVars, answer>>

CloseWritesMetadata ==
  /\ step = "metadata"
  /\ WriteAll(metadata, "seek")
  /\ UNCHANGED <<argVars, spool, closed, writeVars, localVars, answer>>

(* With a bug: the metadata is left out of the root.                       *)
RootStartPlain == <<HeaderCell(eheader)>>

RootStart == <<HeaderCell(eheader)>> \o metadata

CloseSeeks ==
  /\ step = "seek"
  /\ eroot' = [key   |-> IF eheader.encrypted THEN rootKey(eoptions.Key, eheader.baseNonce) ELSE NoKey,
               input |-> RootStart]
  /\ Goes("chunks") \/ Aborts(Failure)
  /\ UNCHANGED <<argVars, spool, closed, sink, writeVars, eheader, index, answer>>

(* Chunk `index` is read back from where the last one ended.               *)
ChunkPlain ==
  LET start == index * eoptions.ChunkSize
  IN  SubSeq(spool.data, start + 1, start + Lesser(eoptions.ChunkSize, totalSize - start))

ChunkBody ==
  IF eheader.encrypted
  THEN sealChunk(eoptions.Key, eheader.baseNonce, HeaderCell(eheader), metadata, index, ChunkPlain)
  ELSE ChunkPlain

(* Failing to read it back, or to seal it, is like writing none of it.     *)
CloseWritesChunk ==
  /\ step = "chunks" /\ index < eheader.chunkCount
  /\ \/ /\ sink' = sink \o Framed(ChunkBody) /\ Goes("chunks")
        /\ index' = index + 1
        /\ eroot' = [eroot EXCEPT !.input = Append(@, Leaf(ChunkBody))]
     \/ WriteBreaks(Framed(ChunkBody)) /\ UNCHANGED <<index, eroot>>
  /\ UNCHANGED <<argVars, spool, closed, writeVars, eheader, answer>>

ChunksWritten == index = eheader.chunkCount

CloseWritesRoot ==
  /\ step = "chunks" /\ ChunksWritten
  /\ WriteAll(<<RootCell(eroot.key, eroot.input)>>, "magic")
  /\ UNCHANGED <<argVars, spool, closed, writeVars, localVars, answer>>

CloseWritesMagic ==
  /\ step = "magic"
  /\ WriteAll(<<MagicEnd>>, "cleanup")
  /\ UNCHANGED <<argVars, spool, closed, writeVars, localVars, answer>>

(* With a bug: a file that cannot be removed is left without a word.       *)
CleanupErrorOfClose(failed) == IF "close" \in failed THEN Failure ELSE NoError

CleanupError(failed) == IF failed # {} THEN Failure ELSE NoError

(* The deferred function: close and remove the file, keeping the first     *)
(* error of all.                                                           *)
CloseReturns ==
  /\ step = "cleanup" /\ step' = "idle"
  /\ \E failed \in SUBSET {"close", "remove"} :
       /\ spool' = IF "remove" \in failed THEN spool ELSE NoFile
       /\ closeErr' = IF closeErr = NoError THEN CleanupError(failed) ELSE closeErr
  /\ answer' = closeErr'
  /\ UNCHANGED <<argVars, closed, sink, writeVars, localVars>>

Close == CloseAgain \/ CloseStarts

Closing == \/ CloseWritesHeader \/ CloseWritesMetadata \/ CloseSeeks
           \/ CloseWritesChunk \/ CloseWritesRoot \/ CloseWritesMagic \/ CloseReturns

EncNext == NewEncoder \/ (\E p \in Pieces : Write(p)) \/ Close \/ Closing

EncSpec == EncInit /\ [][EncNext]_encVars
-----------------------------------------------------------------------------
(* Properties.                                                             *)

(* What the one-shot encoder makes of the accepted bytes.                  *)
OneShotContainer ==
  IF eoptions.Key = NoKey THEN EncodePlain(accepted, entries, eoptions.ChunkSize)
  ELSE EncodeEncryptedWithFixedNonce(accepted, eoptions.Key, eheader.baseNonce, entries,
                                     eoptions.ChunkSize)

(* At every moment, and wherever a write fails, the sink holds a prefix of *)
(* the container that the one-shot encoder makes of the accepted bytes,    *)
(* and nothing as long as more bytes may come.                             *)
SinkIsPrefix == sink # <<>> => closed /\ IsPrefix(sink, OneShotContainer.out)

(* Close says nil only after the whole container is in the sink and the    *)
(* plaintext is gone from the temporary directory, whatever failed on the  *)
(* way, the clean-up included; and options that the one-shot encoder       *)
(* refuses are refused.                                                    *)
CloseIsHonest ==
  closed /\ step = "idle" =>
    /\ closeErr = NoError => OneShotContainer.err = NoError /\ sink = OneShotContainer.out
    /\ closeErr = NoError => ~spool.exists
    /\ OneShotContainer.err # NoError => closeErr = OneShotContainer.err \/ closeErr = Failure

NoCap == [maxMetaBytes |-> MaxU32, maxChunkLen |-> MaxU32, maxChunkCount |-> MaxU64,
          maxTotalSize |-> MaxU64]

(* What Close reported as written decodes, under the same key, to exactly  *)
(* the bytes that Write reported as taken, and to the metadata in order.   *)
RoundTrip ==
  closed /\ step = "idle" /\ closeErr = NoError =>
    LET decoded == decodeBytes(sink, eoptions.Key, NoCap)
    IN  /\ decoded.err = NoError
        /\ decoded.plain = accepted
        /\ InTagOrder(decoded.entries, entries)

(* A closed encoder is closed: no later call adds to the sink, takes more  *)
(* plaintext or succeeds.                                                  *)
ClosedIsFinal ==
  [][closed /\ step = "idle" =>
       /\ sink' = sink /\ accepted' = accepted /\ spool' = spool
       /\ answer' = ErrClosed]_encVars
=============================================================================
