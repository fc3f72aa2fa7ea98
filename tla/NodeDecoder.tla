---------------------------- MODULE NodeDecoder -----------------------------
(***************************************************************************)
(* The streaming Decoder of sdk/node/src/index.ts: a Transform stream.     *)
(*                                                                         *)
(* Node calls _transform with the next piece of input, _flush at its end   *)
(* and _read when the consumer wants output; each of them runs process(),  *)
(* which parses what is buffered and pushes plaintext.  JavaScript runs a  *)
(* call to its end, so while `running` is not "idle" nothing else happens; *)
(* a turn of the loop in process() is one step.                            *)
(*                                                                         *)
(* Node's own part is modelled from how the class uses it: a piece is      *)
(* passed to _transform only after the callback of the last one, _flush    *)
(* comes after the last callback, push() returns false when the readable   *)
(* buffer is full, _read is not called again before a push, a callback     *)
(* called while that buffer is full may be kept until the next _read, and  *)
(* an error given to a callback destroys the stream.  A destroyed stream   *)
(* makes no more calls, so what an exception leaves behind is not kept.    *)
(***************************************************************************)
EXTENDS OneShot

CONSTANTS
  Inputs,        (* records [stream, key, options]: what a caller may pass  *)
  Tails,         (* how a source may end                                    *)
  Defaults,      (* the DEFAULT_* caps                                      *)
  Unset,         (* an option that is undefined                             *)
  Pieces,        (* the sizes of the pieces a source may write              *)
  MinCapacity,   (* the capacity of the first slab: 4096 bytes              *)
  HighWaterMark  (* of the readable side                                    *)

Ends   == "end"      \* the source ends
Errs   == "error"    \* it emits an error
Closes == "close"    \* it is closed and emits neither

Caps == [maxMetaBytes : Nat, maxChunkLen : Nat, maxChunkCount : Nat, maxTotalSize : Nat]

Option == Nat \cup {Unset}

GivenCaps ==
  [maxMetaBytes : Option, maxChunkLen : Option, maxChunkCount : Option, maxTotalSize : Option]

ASSUME NodeDecoderAssumption ==
  /\ Inputs \subseteq [stream : Seq(Cells), key : Seq(Nat), options : GivenCaps]
  /\ Defaults \in Caps
  /\ Tails \subseteq {Ends, Errs, Closes}
  /\ Pieces \subseteq Nat \ {0} /\ \E n \in Pieces : \A m \in Pieces : m <= n
  /\ MinCapacity \in Nat \ {0} /\ HighWaterMark \in Nat \ {0}
  /\ Unset \notin Nat

VARIABLES
  input, tail,
  fed,               \* cells passed to _transform
  slab, slabStart, slabEnd, bufferedBytes,
  offsetState, header,
  region,            \* the metadata region, the preimage of metadataDigest
  chunkIndex, plainTotal, root,
  running,           \* the call in progress: "transform", "flush", "read"
  processing,        \* process() has not returned yet
  outputBackpressured,
  deferred,          \* the callback held: "none", "write" or "flush"
  writing,           \* Node waits for the callback of _transform or _flush
  kept,              \* Node has it and keeps it until the next _read
  readable,          \* plaintext pushed and not yet read
  reading,           \* _read was called, and nothing was pushed since
  taking,            \* what the read() that called _read will take
  ended,             \* the readable side has been ended: push(null)
  finished,          \* and the consumer has been told: the event "end"
  fault,             \* the last exception of process()
  error,             \* the error the stream was destroyed with
  delivered          \* what the consumer has read

inputVars == <<input, tail, fed>>
slabVars  == <<slab, slabStart, slabEnd, bufferedBytes>>
openVars  == <<header, region>>
chunkVars == <<chunkIndex, plainTotal>>
callVars  == <<running, processing>>
holdVars  == <<outputBackpressured, deferred, writing, kept>>
outVars   == <<readable, reading, taking, ended, finished, delivered>>
endVars   == <<fault, error>>
vars == <<inputVars, slabVars, offsetState, openVars, chunkVars, root, callVars, holdVars,
          outVars, endVars>>

stream == input.stream

limit(cap) == IF input.options[cap] = Unset THEN Defaults[cap] ELSE input.options[cap]

Init ==
  /\ input \in Inputs /\ tail \in Tails /\ fed = 0
  /\ slab = <<>> /\ slabStart = 0 /\ slabEnd = 0 /\ bufferedBytes = 0
  /\ offsetState = "header" /\ header = PlainHeader(1, 0, FALSE) /\ region = <<>>
  /\ chunkIndex = 0 /\ plainTotal = 0 /\ root = [key |-> NoKey, input |-> <<>>]
  /\ running = "idle" /\ processing = FALSE
  /\ outputBackpressured = FALSE /\ deferred = "none" /\ writing = FALSE /\ kept = FALSE
  /\ readable = <<>> /\ reading = FALSE /\ taking = 0 /\ delivered = <<>>
  /\ ended = FALSE /\ finished = FALSE
  /\ fault = NoError /\ error = NoError

Open == running = "idle" /\ error = NoError

-----------------------------------------------------------------------------
(* The slab: one buffer, bytes slabStart up to slabEnd of it in use.       *)

(* With a bug: the slab is taken to start at 0.                            *)
InUseFromStart == SubSeq(slab, 1, bufferedBytes)

InUse == SubSeq(slab, slabStart + 1, slabEnd)

Larger(a, b) == IF a > b THEN a ELSE b

(* Twice the capacity, and twice again until it is enough: after as many   *)
(* turns as bytes are required it is.                                      *)
Doubled(capacity, required) == IF capacity < required THEN 2 * capacity ELSE capacity

Capacity(required) ==
  LET after[i \in Nat] ==
        IF i = 0 THEN Larger(MinCapacity, Len(slab)) ELSE Doubled(after[i - 1], required)
  IN  after[required]

(* Slide down, or move to a larger slab.                                   *)
makeRoom(required) ==
  LET rest == IF required <= Len(slab) THEN SubSeq(slab, bufferedBytes + 1, Len(slab))
              ELSE [i \in 1..Capacity(required) - bufferedBytes |-> Junk]
  IN  [slab |-> InUse \o rest, start |-> 0, end |-> bufferedBytes]

enqueue(piece) ==
  LET n    == Len(piece)
      room == IF slabEnd + n > Len(slab) THEN makeRoom(bufferedBytes + n)
              ELSE [slab |-> slab, start |-> slabStart, end |-> slabEnd]
  IN  /\ slab' = [i \in DOMAIN room.slab |->
                    IF i \in room.end + 1..room.end + n THEN piece[i - room.end] ELSE room.slab[i]]
      /\ slabStart' = room.start /\ slabEnd' = room.end + n
      /\ bufferedBytes' = bufferedBytes + n

peek(n) == SubSeq(slab, slabStart + 1, slabStart + n)

(* consume and advance: an empty slab starts again at 0.                   *)
consume(n) ==
  /\ bufferedBytes' = bufferedBytes - n
  /\ slabStart' = IF bufferedBytes' = 0 THEN 0 ELSE slabStart + n
  /\ slabEnd' = IF bufferedBytes' = 0 THEN 0 ELSE slabEnd
  /\ UNCHANGED slab

(* A length field is buffered, and with it as many cells as it says.       *)
length == U32(slab[slabStart + 1])
HasLength == bufferedBytes >= 1

Oversized(cap) == length > limit(cap)

HasRecord == HasLength /\ bufferedBytes >= length + 1

-----------------------------------------------------------------------------
(* process(), one turn at a time.                                          *)

RecordReady(cap) == HasLength /\ (Oversized(cap) \/ HasRecord)

(* There is input, or reason, for another turn; else process() returns.    *)
Ready ==
  \/ offsetState = "header" /\ HasLength
  \/ offsetState = "metadata" /\ RecordReady("maxMetaBytes")
  \/ offsetState = "payload" /\ (chunkIndex = header.chunkCount \/ RecordReady("maxChunkLen"))
  \/ offsetState = "footer" /\ bufferedBytes >= 2

Processing(state) == processing /\ Ready /\ offsetState = state

Heard == running # "read" \/ deferred # "none"

(* An exception reaches the callback: the one of _transform or _flush, or, *)
(* in _read, the one that is held, if there is one.                        *)
Throws(err) ==
  /\ fault' = err
  /\ error' = IF Heard THEN err ELSE error
  /\ running' = "idle" /\ processing' = FALSE
  /\ deferred' = IF running = "read" THEN "none" ELSE deferred
  /\ writing' = FALSE /\ taking' = 0
  /\ UNCHANGED <<inputVars, slabVars, offsetState, openVars, chunkVars, root,
                 outputBackpressured, kept, readable, reading, ended, finished, delivered>>

processVars == <<inputVars, callVars, holdVars, outVars, endVars>>

(* initializePayload: the key, then the caps on the counts.                *)
InitFault(h) ==
  IF h.encrypted /\ Len(input.key) # KeyLen THEN MissingKey
  ELSE IF h.chunkCount > limit("maxChunkCount") \/ h.totalSize > limit("maxTotalSize")
  THEN Truncated
  ELSE NoError

RootOf(h, meta) ==
  [key   |-> IF h.encrypted THEN rootKey(input.key, h.baseNonce) ELSE NoKey,
   input |-> <<HeaderCell(h)>> \o meta]

HeaderFault ==
  LET cell == slab[slabStart + 1]
  IN  IF ParseHeader(cell) # NoError THEN ParseHeader(cell)
      ELSE IF cell.h.hasMetadata THEN NoError ELSE InitFault(cell.h)

ParsesHeader ==
  /\ Processing("header")
  /\ \/ HeaderFault # NoError /\ Throws(HeaderFault)
     \/ /\ HeaderFault = NoError
        /\ header' = slab[slabStart + 1].h /\ consume(1)
        /\ IF header'.hasMetadata THEN offsetState' = "metadata" /\ UNCHANGED root
           ELSE offsetState' = "payload" /\ root' = RootOf(header', <<>>)
        /\ UNCHANGED <<region, chunkVars, processVars>>

MetadataFault ==
  IF Oversized("maxMetaBytes") \/ ~ParseMetadata(peek(length + 1)).ok THEN MetaMalformed
  ELSE InitFault(header)

ParsesMetadata ==
  /\ Processing("metadata")
  /\ \/ MetadataFault # NoError /\ Throws(MetadataFault)
     \/ /\ MetadataFault = NoError
        /\ region' = peek(length + 1) /\ consume(length + 1)
        /\ root' = RootOf(header, region') /\ offsetState' = "payload"
        /\ UNCHANGED <<header, chunkVars, processVars>>

ReachesFooter ==
  /\ Processing("payload") /\ chunkIndex = header.chunkCount
  /\ offsetState' = "footer"
  /\ UNCHANGED <<slabVars, openVars, chunkVars, root, processVars>>

ChunkDue == Processing("payload") /\ chunkIndex # header.chunkCount

body == Tail(peek(length + 1))

plain == IF header.encrypted THEN openChunk(body) ELSE body

ExceedsTotal == plainTotal + Len(plain) > header.totalSize

ChunkFault ==
  IF Oversized("maxChunkLen") THEN Truncated
  ELSE IF /\ header.encrypted
          /\ ~Opens(input.key, header.baseNonce, HeaderCell(header), region, chunkIndex, body)
  THEN ChunkAuth
  ELSE IF ExceedsTotal THEN RootMismatch
  ELSE NoError

ChunkThrows ==
  /\ ChunkDue /\ ChunkFault # NoError /\ Throws(ChunkFault)

(* What push() returns.                                                    *)
Wanted(buffered) == Len(buffered) < HighWaterMark \/ buffered = <<>>

(* With a bug: what push() returns is not looked at.                       *)
ContinuesAnyway(buffered) == TRUE

Continues(buffered) == Wanted(buffered)

PushesChunk ==
  /\ ChunkDue /\ ChunkFault = NoError
  /\ consume(length + 1)
  /\ root' = [root EXCEPT !.input = Append(@, Leaf(body))]
  /\ plainTotal' = plainTotal + Len(plain) /\ chunkIndex' = chunkIndex + 1
  /\ readable' = readable \o plain /\ reading' = FALSE
  /\ processing' = Continues(readable')
  /\ outputBackpressured' = (outputBackpressured \/ ~Continues(readable'))
  /\ UNCHANGED <<inputVars, offsetState, openVars, running, deferred, writing, kept,
                 taking, ended, finished, delivered, endVars>>

FooterFault ==
  LET footer == peek(2)
  IN  IF footer[2] # MagicEnd THEN Truncated
      ELSE IF plainTotal # header.totalSize \/ footer[1] # RootCell(root.key, root.input)
      THEN RootMismatch
      ELSE IF bufferedBytes > 2 THEN TrailingData
      ELSE NoError

ChecksFooter ==
  /\ Processing("footer")
  /\ \/ FooterFault # NoError /\ Throws(FooterFault)
     \/ /\ FooterFault = NoError
        /\ consume(2) /\ offsetState' = "done"
        /\ UNCHANGED <<openVars, chunkVars, root, processVars>>

Pauses ==
  /\ processing /\ ~Ready
  /\ processing' = FALSE
  /\ UNCHANGED <<inputVars, slabVars, offsetState, openVars, chunkVars, root, running,
                 holdVars, outVars, endVars>>

process == \/ ParsesHeader \/ ParsesMetadata \/ ReachesFooter \/ ChunkThrows \/ PushesChunk
           \/ ChecksFooter \/ Pauses

-----------------------------------------------------------------------------
(* The calls Node makes.                                                   *)

stateVars == <<offsetState, openVars, chunkVars, root>>

Transforms(n) ==
  /\ Open /\ ~writing /\ ~ended
  /\ fed < Len(stream) /\ fed' = fed + n /\ fed' <= Len(stream)
  /\ IF offsetState = "done"
     THEN /\ fault' = TrailingData /\ error' = TrailingData
          /\ UNCHANGED <<slabVars, callVars, writing>>
     ELSE /\ enqueue(SubSeq(stream, fed + 1, fed'))
          /\ running' = "transform" /\ processing' = TRUE /\ writing' = TRUE
          /\ UNCHANGED endVars
  /\ UNCHANGED <<input, tail, stateVars, outputBackpressured, deferred, kept, outVars>>

Flushes ==
  /\ Open /\ ~writing /\ ~ended
  /\ fed = Len(stream) /\ tail = Ends
  /\ running' = "flush" /\ processing' = TRUE /\ writing' = TRUE
  /\ UNCHANGED <<inputVars, slabVars, stateVars, outputBackpressured, deferred, kept, outVars,
                 endVars>>

(* The handler newDecoder puts on the source destroys the decoder.         *)
SourceFails ==
  /\ Open /\ ~ended /\ tail = Errs
  /\ error' = "source error"
  /\ UNCHANGED <<inputVars, slabVars, stateVars, callVars, holdVars, outVars, fault>>

(* read(): takes up to n of what is buffered.  When that leaves less than  *)
(* the mark it calls _read first, so that what _read pushes is added to    *)
(* what is still there.                                                    *)
ReadDue(n) == ~reading /\ ~ended /\ (readable = <<>> \/ Len(readable) - n < HighWaterMark)

Takes(n) ==
  /\ delivered' = delivered \o SubSeq(readable, 1, n)
  /\ readable' = SubSeq(readable, n + 1, Len(readable))

ReadsBuffered(n) ==
  /\ Open /\ ~ReadDue(n) /\ n > 0 /\ Takes(n)
  /\ UNCHANGED <<inputVars, slabVars, stateVars, callVars, holdVars, reading, taking, ended,
                 finished, endVars>>

CallsRead(n) ==
  /\ Open /\ ReadDue(n)
  /\ reading' = TRUE /\ taking' = n
  /\ running' = "read" /\ processing' = outputBackpressured
  /\ outputBackpressured' = FALSE
  /\ UNCHANGED <<inputVars, slabVars, stateVars, deferred, writing, kept, readable, ended,
                 finished, delivered, endVars>>

EmitsEnd ==
  /\ Open /\ ended /\ readable = <<>> /\ ~finished
  /\ finished' = TRUE
  /\ UNCHANGED <<inputVars, slabVars, stateVars, callVars, holdVars, readable, reading, taking,
                 ended, delivered, endVars>>

Consumes == \E n \in 0..Len(readable) : ReadsBuffered(n) \/ CallsRead(n)

-----------------------------------------------------------------------------
(* What each call does after process(): finishOrDefer, or in _read the     *)
(* release of the callback that is held.                                   *)

Returning(call) == running = call /\ ~processing /\ running' = "idle" /\ UNCHANGED processing

(* With a bug: the state is not looked at.                                 *)
UnfinishedErrorTruncated == IF offsetState = "done" THEN NoError ELSE Truncated

(* The error of a flush before the footer, whichever call finds it.        *)
UnfinishedError ==
  IF offsetState = "done" THEN NoError
  ELSE IF offsetState = "metadata" THEN MetaMalformed ELSE Truncated

Fails(err) == fault' = err /\ error' = err

(* With a bug: the callback is called although output is blocked.          *)
BlockedNever == FALSE

Blocked == outputBackpressured

Defers(which) ==
  /\ IF deferred # "none" THEN Fails("already deferred") ELSE UNCHANGED endVars
  /\ deferred' = which
  /\ UNCHANGED <<writing, kept, ended>>

FlushAnswered ==
  /\ writing' = FALSE
  /\ IF UnfinishedError # NoError THEN Fails(UnfinishedError) /\ UNCHANGED ended
     ELSE ended' = TRUE /\ UNCHANGED endVars

(* Transform keeps a callback that is called while the readable buffer is  *)
(* full, unless nothing was pushed in the meantime.                        *)
KeepsCallback == IF Len(readable) < HighWaterMark THEN {FALSE} ELSE BOOLEAN

TransformReturns ==
  /\ Returning("transform")
  /\ IF Blocked THEN Defers("write")
     ELSE kept' \in KeepsCallback /\ writing' = kept' /\ UNCHANGED <<deferred, ended, endVars>>
  /\ UNCHANGED <<inputVars, slabVars, stateVars, outputBackpressured, readable, reading, taking,
                 finished, delivered>>

FlushReturns ==
  /\ Returning("flush")
  /\ IF Blocked THEN Defers("flush")
     ELSE FlushAnswered /\ UNCHANGED <<deferred, kept>>
  /\ UNCHANGED <<inputVars, slabVars, stateVars, outputBackpressured, readable, reading, taking,
                 finished, delivered>>

(* With a bug: the callback is taken and not called.                       *)
ForgetsCallback == deferred' = "none" /\ UNCHANGED <<kept, writing, ended, endVars>>

(* releaseDeferredCallback; if Transform keeps the callback, its own _read *)
(* (super._read), which is called next, calls it.                          *)
ReleasesCallback ==
  /\ deferred' = "none" /\ kept' = FALSE
  /\ IF deferred = "flush" THEN FlushAnswered
     ELSE /\ writing' = (IF deferred = "write" \/ kept THEN FALSE ELSE writing)
          /\ UNCHANGED <<ended, endVars>>

ReadReturns ==
  /\ Returning("read") /\ taking' = 0 /\ Takes(taking)
  /\ IF outputBackpressured THEN UNCHANGED <<deferred, writing, kept, ended, endVars>>
     ELSE ReleasesCallback
  /\ UNCHANGED <<inputVars, slabVars, stateVars, outputBackpressured, reading, finished>>

(* verifyStream: its loop reads the decoder to the end or to its error.    *)
verifyStream ==
  IF error # NoError THEN error ELSE IF finished THEN NoError ELSE "open"

-----------------------------------------------------------------------------
Calls   == (\E n \in Pieces : Transforms(n)) \/ Flushes
Returns == TransformReturns \/ FlushReturns \/ ReadReturns

Next == Calls \/ SourceFails \/ Consumes \/ EmitsEnd \/ process \/ Returns

Spec == Init /\ [][Next]_vars

(* JavaScript runs a call to its end; a source goes on writing while the   *)
(* last piece has been called back, and ends or fails; the consumer (pipe, *)
(* for await) goes on reading.                                             *)
Fairness ==
  WF_vars(Calls) /\ WF_vars(SourceFails) /\ WF_vars(Consumes)
  /\ WF_vars(EmitsEnd) /\ WF_vars(process \/ Returns)

FairSpec == Spec /\ Fairness
-----------------------------------------------------------------------------
(* Properties.                                                             *)

(* However the input is cut into pieces, the slab holds the input that     *)
(* process() has not consumed, in order and complete: nothing is lost when *)
(* it slides down, grows or starts again at 0.                             *)
SlabHoldsInput ==
  /\ bufferedBytes = slabEnd - slabStart
  /\ SubSeq(slab, slabStart + 1, slabEnd) = SubSeq(stream, fed - bufferedBytes + 1, fed)

(* The metadata region, a chunk with its length, or the footer.            *)
LongestRecord == Larger(2, 1 + Larger(limit("maxMetaBytes"), limit("maxChunkLen")))

LongestPiece == CHOOSE p \in Pieces : \A q \in Pieces : q <= p

(* A slow consumer holds the source back, whatever the source has: no more *)
(* plaintext is buffered than the mark and one chunk more, no more input   *)
(* than one record and one piece, and the slab is at most twice that.      *)
BuffersAreBounded ==
  /\ running # "read" => Len(readable) < HighWaterMark + limit("maxChunkLen")
  /\ bufferedBytes < LongestRecord + LongestPiece
  /\ error = NoError /\ ~outputBackpressured /\ running = "idle" => bufferedBytes < LongestRecord
  /\ Len(slab) <= MinCapacity \/ Len(slab) < 2 * (LongestRecord + LongestPiece)

(* Each callback is called once: none is held while another is, one is     *)
(* held exactly while output is blocked, Node waits for a callback exactly *)
(* while there is one to be called, and the end of the input never finds   *)
(* output blocked.                                                         *)
CallbacksBalance ==
  error = NoError /\ running = "idle" =>
    /\ writing <=> (deferred # "none" \/ kept)
    /\ ~(deferred # "none" /\ kept) /\ deferred # "flush"
    /\ outputBackpressured <=> deferred # "none"

(* With a consumer that reads, the stream ends or is destroyed, unless its *)
(* source closes without an end or an error.                               *)
StreamEnds == <>(error # NoError \/ finished \/ tail = Closes)

(* A Decoder is a reader that keeps the promise of UbcReader in full: what *)
(* the consumer reads and how the stream ends is what decodeBytes gives,   *)
(* however the input is cut and whenever the consumer reads.               *)
limits == [cap \in DOMAIN Defaults |-> limit(cap)]

Reader == INSTANCE UbcReader WITH
  ReportsCutBody <- TRUE, Reference <- Decoded, input <- <<stream, input.key, limits>>,
  intact <- (tail # Errs), released <- delivered, outcome <- verifyStream

ImplementsReader == Reader!ReaderSpec
=============================================================================
