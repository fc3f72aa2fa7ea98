---------------------------- MODULE NodeEncoder -----------------------------
(***************************************************************************)
(* The streaming Encoder of sdk/node/src/index.ts: a Writable that spools  *)
(* plaintext in a temporary directory and writes the container to its sink *)
(* when it is ended.  Its functions are asynchronous: between two awaits   *)
(* of one of them the others go on, and destroy() may come at any moment.  *)
(* A step is what one function does up to its next await, with the result  *)
(* of the file operation it waited for.                                    *)
(*                                                                         *)
(* Node's own part, as the class uses it: _write calls do not overlap;     *)
(* _final comes after end() and the last of them; an error given to their  *)
(* callbacks, or the end of _final, destroys the stream; _destroy comes    *)
(* once, at once; a destroyed stream makes no more calls.  A FileHandle is *)
(* closed after the writes it has begun, and closing it twice is harmless. *)
(***************************************************************************)
EXTENDS UbcFormat

CONSTANTS
  Pieces,           (* the buffers a caller may write                       *)
  MaxWrites,        (* bound: the number of writes                          *)
  Entries,          (* the metadata                                         *)
  EncodeOptions     (* records [Key, ChunkSize, BaseNonce]                  *)

ASSUME NodeEncoderAssumption ==
  /\ Pieces \subseteq Seq(NumCells) /\ MaxWrites \in Nat
  /\ Entries \in Seq([tag : 0..MaxU32, value : Seq(NumCells)])
  /\ EncodeOptions \subseteq [Key : Seq(Nat), ChunkSize : 0..MaxU32, BaseNonce : Nat]

Failure    == "i/o error"
OutOfRange == "ERR_OUT_OF_RANGE"
Cancelled  == "cancelled"
ShortFile  == "UBC plaintext spool was truncated"

VARIABLES
  options,
  dir,          \* spoolPathPromise: "making", "made" or "failed"
  handle,       \* handlePromise: "opening" or "failed", else "open", "closed"
  spool,        \* [exists, data]: the directory; the file, also once removed
  totalSize,
  writing,      \* writeChunk: "idle", or what it waits for
  piece,        \* its argument
  ending,       \* finish: "none", what it waits for, or "returned"
  endError,     \* the error it is to throw
  reader,       \* the spool is open for reading
  header, root, index,
  cleaning,     \* cleanupPromise: "none", a step of cleanupSpool, or settled
  sink,
  writes, accepted,    \* the plaintext whose callbacks had no error
  ended, destroyed,    \* end() and destroy() were called
  error,        \* the error of the event "error"
  finished, closed     \* the events "finish" and "close"

spoolVars == <<dir, handle, spool>>
writeVars == <<totalSize, writing, piece, writes, accepted>>
localVars == <<header, root, index>>
endVars   == <<ending, endError, reader>>
doneVars  == <<destroyed, error, cleaning>>
userVars  == <<options, ended, closed, finished>>
encVars   == <<userVars, spoolVars, writeVars, localVars, endVars, doneVars, sink>>

EncInit ==
  /\ options \in EncodeOptions
  /\ dir = "making" /\ handle = "opening" /\ spool = [exists |-> FALSE, data |-> <<>>]
  /\ totalSize = 0 /\ writing = "idle" /\ piece = <<>> /\ writes = 0 /\ accepted = <<>>
  /\ ending = "none" /\ endError = NoError /\ reader = FALSE
  /\ header = PlainHeader(1, 0, FALSE) /\ root = [key |-> NoKey, input |-> <<>>] /\ index = 0
  /\ cleaning = "none" /\ sink = <<>>
  /\ ended = FALSE /\ destroyed = FALSE /\ error = NoError /\ finished = FALSE /\ closed = FALSE

-----------------------------------------------------------------------------
(* The temporary directory and the file in it.                             *)

MakesDir ==
  /\ dir = "making"
  /\ \/ dir' = "made" /\ spool' = [spool EXCEPT !.exists = TRUE] /\ UNCHANGED handle
     \/ dir' = "failed" /\ handle' = "failed" /\ UNCHANGED spool
  /\ UNCHANGED <<userVars, writeVars, localVars, endVars, sink, doneVars>>

OpensFile ==
  /\ dir = "made" /\ handle = "opening"
  /\ handle' \in {"open", "failed"}
  /\ UNCHANGED <<userVars, dir, spool, writeVars, localVars, endVars, sink, doneVars>>

(* cleanup(): the first caller starts it, all of them wait for the same.   *)
Cleans == cleaning' = IF cleaning = "none" THEN "handle" ELSE cleaning

(* With a bug: a cleanup that failed calls no callback.                    *)
CleanedWell == cleaning = "done"

Cleaned == cleaning \in {"done", "failed"}

(* With a bug: a file that is still being opened is not waited for.        *)
OpenedEver == TRUE

Opened == handle # "opening"

CleanupCloses ==
  /\ cleaning = "handle" /\ Opened
  /\ handle' = IF handle = "open" THEN "closed" ELSE handle
  /\ cleaning' = IF dir = "made" THEN "remove" ELSE "done"
  /\ UNCHANGED <<userVars, dir, spool, writeVars, localVars, endVars, sink, destroyed, error>>

CleanupRemoves ==
  /\ cleaning = "remove"
  /\ \/ cleaning' = "done" /\ spool' = [spool EXCEPT !.exists = FALSE]
     \/ cleaning' = "failed" /\ UNCHANGED spool
  /\ UNCHANGED <<userVars, dir, handle, writeVars, localVars, endVars, sink, destroyed, error>>

(* destroy(err) and the start of _destroy.                                 *)
Destroy(err) ==
  IF destroyed THEN UNCHANGED doneVars
  ELSE destroyed' = TRUE /\ error' = err /\ Cleans

-----------------------------------------------------------------------------
(* write() and writeChunk.                                                 *)

Writes(p) ==
  /\ writing = "idle" /\ ~ended /\ ~destroyed /\ writes < MaxWrites
  /\ writing' = "handle" /\ piece' = p /\ writes' = writes + 1
  /\ UNCHANGED <<userVars, spoolVars, totalSize, accepted, localVars, endVars, sink, doneVars>>

(* The file may take a part of the piece without an error; its whole       *)
(* length counts.                                                          *)
WriteSucceeds ==
  /\ writing = "handle" /\ handle = "open"
  /\ \E n \in 0..Len(piece) : spool' = [spool EXCEPT !.data = @ \o SubSeq(piece, 1, n)]
  /\ totalSize' = totalSize + Len(piece) /\ accepted' = accepted \o piece
  /\ writing' = "idle"
  /\ UNCHANGED <<userVars, dir, handle, piece, writes, localVars, endVars, sink, doneVars>>

WriteFails ==
  /\ writing = "handle" /\ handle # "opening"
  /\ writing' = "cleanup" /\ Cleans
  /\ UNCHANGED <<userVars, spoolVars, totalSize, piece, writes, accepted, localVars, endVars, sink,
                 destroyed, error>>

WriteReports ==
  /\ writing = "cleanup" /\ Cleaned
  /\ writing' = "idle" /\ Destroy(Failure)
  /\ UNCHANGED <<userVars, spoolVars, totalSize, piece, writes, accepted, localVars, endVars, sink>>

-----------------------------------------------------------------------------
(* end() and finish.                                                       *)

Ends ==
  /\ ~ended /\ ~destroyed /\ ended' = TRUE
  /\ UNCHANGED <<options, finished, closed, spoolVars, writeVars, localVars, endVars, sink, doneVars>>

encrypted == options.Key # NoKey

chunkCount == (totalSize + options.ChunkSize - 1) \div options.ChunkSize

HeaderOf ==
  IF encrypted
  THEN EncryptedHeader(options.ChunkSize, totalSize, Entries # <<>>, options.BaseNonce)
  ELSE PlainHeader(options.ChunkSize, totalSize, Entries # <<>>)

(* What is thrown before the first await, at last by writeBigUInt64LE, if  *)
(* the header has no room for the size.                                    *)
PlanError ==
  IF Len(options.Key) \notin {0, KeyLen} \/ options.ChunkSize = 0 THEN ReservedBits
  ELSE IF ~EncodeMetadata(Entries).ok THEN MetaMalformed
  ELSE IF validate(HeaderOf) # NoError THEN validate(HeaderOf)
  ELSE IF totalSize > MaxU64 THEN OutOfRange
  ELSE NoError

region == EncodeMetadata(Entries).region

(* The finally block: close the reader, if there is one, then clean up.    *)
EndThrows(err) ==
  /\ endError' = err
  /\ IF reader THEN ending' = "reader" /\ UNCHANGED cleaning ELSE ending' = "cleanup" /\ Cleans

Goes(next) == ending' = next /\ UNCHANGED <<endError, cleaning>>

EndStarts ==
  /\ ending = "none" /\ ended /\ writing = "idle" /\ ~destroyed
  /\ IF PlanError # NoError THEN EndThrows(PlanError) /\ UNCHANGED localVars
     ELSE /\ header' = HeaderOf
          /\ root' = [key   |-> IF encrypted THEN rootKey(options.Key, options.BaseNonce) ELSE NoKey,
                      input |-> <<HeaderCell(header')>> \o region]
          /\ Goes("handle") /\ UNCHANGED index
  /\ UNCHANGED <<userVars, spoolVars, writeVars, reader, sink, destroyed, error>>

EndClosesFile ==
  /\ ending = "handle" /\ handle # "opening"
  /\ \/ handle # "failed" /\ handle' = "closed" /\ Goes("open")
     \/ EndThrows(Failure) /\ UNCHANGED handle
  /\ UNCHANGED <<userVars, dir, spool, writeVars, localVars, reader, sink, destroyed, error>>

EndOpensReader ==
  /\ ending = "open"
  /\ \/ spool.exists /\ reader' = TRUE /\ Goes("header")
     \/ EndThrows(Failure) /\ UNCHANGED reader
  /\ UNCHANGED <<userVars, spoolVars, writeVars, localVars, sink, destroyed, error>>

(* writeTo: the sink takes all of it, or calls back an error.              *)
WriteTo(cells, next) ==
  \/ sink' = sink \o cells /\ Goes(next)
  \/ \E n \in 0..Len(cells) : sink' = sink \o SubSeq(cells, 1, n) /\ EndThrows(Failure)

EndWritesHeader ==
  /\ ending = "header" /\ WriteTo(<<HeaderCell(header)>> \o region, "chunks")
  /\ UNCHANGED <<userVars, spoolVars, writeVars, localVars, reader, destroyed, error>>

(* What is read for chunk `index`: as much as the file has.                *)
Plain ==
  LET start == index * options.ChunkSize
  IN  SubSeq(spool.data, start + 1,
             Lesser(start + Lesser(options.ChunkSize, totalSize - start), Len(spool.data)))

Body ==
  IF encrypted
  THEN sealChunk(options.Key, options.BaseNonce, HeaderCell(header), region, index, Plain)
  ELSE Plain

(* With a bug: a short read is not noticed.                                *)
ReadAnyhow == TRUE

ReadInFull ==
  Len(Plain) = Lesser(options.ChunkSize, totalSize - index * options.ChunkSize)
MoreChunks == index < header.chunkCount

EndWritesChunk ==
  /\ ending = "chunks" /\ MoreChunks
  /\ \/ /\ ReadInFull /\ sink' = sink \o Framed(Body) /\ Goes("chunks")
        /\ root' = [root EXCEPT !.input = Append(@, Leaf(Body))]
        /\ index' = index + 1
     \/ /\ \E n \in 0..Len(Framed(Body)) : sink' = sink \o SubSeq(Framed(Body), 1, n)
        /\ ReadInFull /\ EndThrows(Failure) /\ UNCHANGED <<root, index>>
     \/ EndThrows(ShortFile) /\ UNCHANGED <<sink, root, index>>
  /\ UNCHANGED <<userVars, spoolVars, writeVars, header, reader, destroyed, error>>

EndWritesFooter ==
  /\ ending = "chunks" /\ ~MoreChunks
  /\ WriteTo(<<RootCell(root.key, root.input), MagicEnd>>, "reader")
  /\ UNCHANGED <<userVars, spoolVars, writeVars, localVars, reader, destroyed, error>>

EndClosesReader ==
  /\ ending = "reader" /\ reader' = FALSE
  /\ ending' = "cleanup" /\ Cleans
  /\ endError' \in {endError, Failure}
  /\ UNCHANGED <<userVars, spoolVars, writeVars, localVars, sink, destroyed, error>>

(* A cleanup that fails replaces the error.  The callback of _final: the   *)
(* stream finishes, if it is not destroyed, and destroys itself.           *)
EndReturns ==
  /\ ending = "cleanup" /\ Cleaned /\ ending' = "returned"
  /\ LET err == IF cleaning = "failed" THEN Failure ELSE endError
     IN  /\ endError' = err /\ Destroy(err)
         /\ finished' = (err = NoError /\ ~destroyed)
  /\ UNCHANGED <<options, ended, closed, spoolVars, writeVars, localVars, reader, sink>>

-----------------------------------------------------------------------------
Destroys ==
  /\ ~destroyed /\ (\E err \in {NoError, Cancelled} : Destroy(err))
  /\ UNCHANGED <<userVars, spoolVars, writeVars, localVars, endVars, sink>>

(* The callback of _destroy: an error of the cleanup counts if there was   *)
(* none before.                                                            *)
Closes ==
  /\ destroyed /\ ~closed /\ Cleaned
  /\ closed' = TRUE
  /\ error' = IF error = NoError /\ cleaning = "failed" THEN Failure ELSE error
  /\ UNCHANGED <<options, ended, finished, spoolVars, writeVars, localVars, endVars, cleaning, sink, destroyed>>

Ending ==
  \/ EndStarts \/ EndClosesFile \/ EndOpensReader \/ EndWritesHeader
  \/ EndWritesChunk \/ EndWritesFooter \/ EndClosesReader \/ EndReturns

Writing == WriteSucceeds \/ WriteFails \/ WriteReports

Cleaning == CleanupCloses \/ CleanupRemoves

EncNext ==
  \/ MakesDir \/ OpensFile \/ Cleaning \/ (\E p \in Pieces : Writes(p)) \/ Writing
  \/ Ends \/ Ending \/ Destroys \/ Closes

EncSpec == EncInit /\ [][EncNext]_encVars

(* File operations and writes to the sink come back; no call of the user   *)
(* is assumed.                                                             *)
EncFairSpec ==
  /\ EncSpec
  /\ WF_encVars(MakesDir) /\ WF_encVars(OpensFile) /\ WF_encVars(Cleaning)
  /\ WF_encVars(Writing) /\ WF_encVars(Ending) /\ WF_encVars(Closes)

-----------------------------------------------------------------------------
(* Properties.                                                             *)

(* What the one-shot encoder makes of the accepted bytes.                  *)
OneShotContainer ==
  IF encrypted
  THEN EncodeEncryptedWithFixedNonce(accepted, options.Key, options.BaseNonce, Entries, options.ChunkSize)
  ELSE EncodePlain(accepted, Entries, options.ChunkSize)

(* "finish" means that the sink has the whole container of all that was    *)
(* accepted, although the spool may have taken less than it was given      *)
(* without saying so, and although the stream may be destroyed meanwhile;  *)
(* and then no error follows.                                              *)
FinishIsHonest ==
  finished => /\ OneShotContainer.err = NoError /\ sink = OneShotContainer.out
              /\ error = NoError

(* A stream that is closed has left no plaintext behind, wherever it was   *)
(* destroyed or failed: also if the directory was still being made.  If    *)
(* the directory could not be removed the stream says so.                  *)
SpoolIsRemoved ==
  closed => \/ ~spool.exists /\ dir # "making"
            \/ cleaning = "failed" /\ error # NoError

(* A stream that is ended or destroyed closes.                             *)
EncoderCloses == ended \/ destroyed ~> closed
=============================================================================
