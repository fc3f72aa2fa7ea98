-------------------------- MODULE GoDecoderProofs ---------------------------
(***************************************************************************)
(* What the decoder of sdk/go does on every stream, for every key, all     *)
(* caps and every block size: its invariants, that it is the streaming     *)
(* reader of UbcReader, that the entry points built on it return what the  *)
(* one-shot decoder returns, and that the SDK reproduces the vectors.      *)
(***************************************************************************)
EXTENDS UbcConformance, GoOriginals, UbcFormatProofs

-----------------------------------------------------------------------------
(* The hash input after a body: its leaf goes at the end.                  *)
LEMMA LeafAppended ==
  ASSUME NEW input \in Seq(HashInput), NEW body \in Seq(Cells)
  PROVE  /\ Append(input, Leaf(body)) \in Seq(HashInput)
         /\ Len(Append(input, Leaf(body))) = Len(input) + 1
         /\ Append(input, Leaf(body))[Len(input) + 1] = Leaf(body)
         /\ \A i \in 1..Len(input) : Append(input, Leaf(body))[i] = input[i]
  <1>1. Leaf(body) \in HashInput
    BY DEF HashInput, Leaf
  <1>. QED
    BY <1>1, AppendProperties

-----------------------------------------------------------------------------
(* What the pieces of the actions are, in a state of the right types.      *)

LEMMA LimitsType ==
  TypeOK =>
    /\ limits.maxMetaBytes \in Nat /\ limits.maxChunkLen \in Nat
    /\ limits.maxChunkCount \in Nat /\ limits.maxTotalSize \in Nat
  <1>. HAVE TypeOK
  <1>1. options \in Caps /\ Defaults \in Caps
    BY DecoderAssumption DEF TypeOK
  <1>. QED
    BY <1>1 DEF limits, limitsFor, Caps

LEMMA StreamFacts ==
  TypeOK =>
    /\ Len(stream) \in Nat /\ pos \in 0..Len(stream) /\ Available \in Nat
    /\ \A i \in 1..Len(stream) : stream[i] \in Cells
    /\ \A n \in Nat : After(n) \in 0..Len(stream)
  <1>. HAVE TypeOK
  <1>1. Len(stream) \in Nat /\ pos \in 0..Len(stream)
    BY LenProperties DEF TypeOK
  <1>2. \A i \in 1..Len(stream) : stream[i] \in Cells
    BY ElementOfSeq DEF TypeOK
  <1>. QED
    BY <1>1, <1>2 DEF Available, After, Lesser

LEMMA BodyFacts ==
  TypeOK /\ LengthReadable /\ Available - 1 >= clen =>
    /\ clen \in Nat /\ clen <= limits.maxChunkLen
    /\ Body \in Seq(Cells) /\ Len(Body) = clen
    /\ After(1 + clen) = pos + 1 + clen
  <1>. HAVE TypeOK /\ LengthReadable /\ Available - 1 >= clen
  <1>1. Len(stream) \in Nat /\ pos \in Nat /\ pos <= Len(stream)
    BY StreamFacts
  <1>2. Len(stream) - pos >= 1 /\ clen <= limits.maxChunkLen /\ Len(stream) - pos - 1 >= clen
    BY DEF LengthReadable, Available
  <1>3. pos + 1 \in 1..Len(stream)
    BY <1>1, <1>2
  <1>4. clen \in Nat
    BY <1>3, StreamFacts, CellFacts DEF clen
  <1>. DEFINE first == pos + 2
              last  == pos + 1 + clen
  <1>5. /\ first \in Nat /\ last \in Nat /\ first >= 1 /\ last <= Len(stream)
        /\ (IF first <= last THEN last - first + 1 ELSE 0) = clen
    BY <1>1, <1>2, <1>4
  <1>6. stream \in Seq(Cells)
    BY DEF TypeOK
  <1>7. Body = SubSeq(stream, first, last)
    BY DEF Body
  <1>8. After(1 + clen) = pos + 1 + clen
    BY <1>1, <1>2, <1>4 DEF After, Lesser
  <1>. HIDE DEF first, last
  <1>9. Body \in Seq(Cells) /\ Len(Body) = clen
    BY <1>5, <1>6, <1>7, PartOf
  <1>. QED
    BY <1>2, <1>4, <1>8, <1>9

LEMMA PlainFacts ==
  TypeOK /\ LengthReadable /\ Available - 1 >= clen /\ Authentic =>
    /\ PlainOf(Body) \in Seq(Cells)
    /\ Len(PlainOf(Body)) \in Nat /\ Len(PlainOf(Body)) <= clen
  <1>. HAVE TypeOK /\ LengthReadable /\ Available - 1 >= clen /\ Authentic
  <1>1. Body \in Seq(Cells) /\ Len(Body) = clen /\ clen \in Nat
    BY BodyFacts
  <1>2. CASE header.encrypted
    <2>1. Len(Body) >= TagLen
      BY <1>2 DEF Authentic, Opens
    <2>2. openChunk(Body) \in Seq(Cells) /\ Len(openChunk(Body)) = Len(Body) - TagLen
      BY <1>1, <2>1, OpenedChunk
    <2>3. Len(Body) - TagLen \in Nat /\ Len(Body) - TagLen <= clen
      BY <1>1, <2>1 DEF TagLen
    <2>. QED
      BY <1>2, <2>2, <2>3 DEF PlainOf
  <1>3. CASE ~header.encrypted
    BY <1>1, <1>3 DEF PlainOf
  <1>. QED
    BY <1>2, <1>3

LEMMA ErrorTypes ==
  /\ OpenError \in Errors /\ FooterError \in Errors
  /\ \A n : tail \in {EOF, SourceError} => IncrementalError(n) \in Errors \ {NoError}
  <1>1. HeaderError \in Errors
    BY DEF HeaderError, ParseHeader, validate, Errors, ErrorCode
  <1>2. PrefixError(limits.maxMetaBytes) \in Errors
    BY <1>1 DEF PrefixError, Errors, ErrorCode, RegionLegal
  <1>3. OpenError \in Errors
    BY <1>2 DEF OpenError, Errors, ErrorCode, OverCaps
  <1>4. FooterError \in Errors
    BY DEF FooterError, Errors, ErrorCode, HasTrailing
  <1>5. \A n : tail \in {EOF, SourceError} => IncrementalError(n) \in Errors \ {NoError}
    BY DEF IncrementalError, Errors, EOF, UnexpectedEOF, SourceError, NoError
  <1>. QED
    BY <1>3, <1>4, <1>5

(* What NewDecoder takes from the prefix of a stream it accepts.           *)
LEMMA PrefixFacts ==
  TypeOK /\ OpenError = NoError =>
    /\ Len(stream) >= 1 /\ stream[1] \in Cells
    /\ stream[1] = HeaderCell(stream[1].h) /\ stream[1].h \in Header
    /\ stream[1].h.chunkCount <= limits.maxChunkCount
    /\ stream[1].h.totalSize <= limits.maxTotalSize
    /\ stream[1].h.hasMetadata => RegionReadable(limits.maxMetaBytes) /\ Region \in Seq(Cells)
  <1>. HAVE TypeOK /\ OpenError = NoError
  <1>1. Len(stream) \in Nat /\ (stream # <<>> => Len(stream) >= 1) /\ stream \in Seq(Cells)
    BY EmptySeq, StreamFacts DEF TypeOK
  <1>2. PrefixError(limits.maxMetaBytes) = NoError
    BY DEF OpenError, OverCaps
  <1>3. HeaderError = NoError
    BY <1>2 DEF PrefixError, RegionLegal
  <1>4. stream # <<>> /\ stream[1].t = "header"
    BY <1>3 DEF HeaderError, ParseHeader, Truncated, BadMagic, NoError
  <1>5. stream[1] \in Cells
    BY <1>1, <1>4, StreamFacts
  <1>6. stream[1] \in HeaderCells
    BY <1>4, <1>5 DEF Cells, HeaderCells, NumCells, CtCells, TagCells, RootCells, MagicEnd, Junk
  <1>7. stream[1] = HeaderCell(stream[1].h) /\ stream[1].h \in Header
    BY <1>6 DEF HeaderCells, HeaderCell
  <1>8. stream[1].h \in Header => /\ stream[1].h.chunkCount \in Nat
                                 /\ stream[1].h.totalSize \in Nat
    BY WidthAssumption DEF Header
  <1>9. /\ ~(stream[1].h.chunkCount > limits.maxChunkCount)
        /\ ~(stream[1].h.totalSize > limits.maxTotalSize)
    BY <1>2 DEF OpenError, MissingKey, Truncated, NoError, OverCaps
  <1>10. ASSUME stream[1].h.hasMetadata
         PROVE  RegionReadable(limits.maxMetaBytes) /\ Region \in Seq(Cells)
    <2>1. RegionReadable(limits.maxMetaBytes)
      BY <1>2, <1>10 DEF PrefixError, MetaMalformed, NoError, RegionLegal
    <2>2. Len(stream) >= 2 /\ 2 + U32(stream[2]) <= Len(stream)
      BY <2>1 DEF RegionReadable
    <2>3. 2 \in 1..Len(stream)
      BY <1>1, <2>2
    <2>4. stream[2] \in Cells
      BY <2>3, StreamFacts
    <2>5. U32(stream[2]) \in Nat
      BY <2>4, CellFacts
    <2>6. 2 + U32(stream[2]) \in Nat
      BY <2>5
    <2>. QED
      BY <1>1, <2>1, <2>2, <2>6, PartOf DEF Region
  <1>11. /\ limits.maxChunkCount \in Nat /\ limits.maxTotalSize \in Nat
    BY LimitsType
  <1>12. /\ stream[1].h.chunkCount <= limits.maxChunkCount
         /\ stream[1].h.totalSize <= limits.maxTotalSize
    BY <1>7, <1>8, <1>9, <1>11
  <1>. QED
    BY <1>1, <1>4, <1>5, <1>7, <1>10, <1>12

LEMMA PrefixEndType == TypeOK => PrefixEnd(limits.maxMetaBytes) \in 0..Len(stream)
  <1>. HAVE TypeOK
  <1>1. Len(stream) \in Nat /\ \A i \in 1..Len(stream) : stream[i] \in Cells
    BY StreamFacts
  <1>2. Len(stream) >= 2 => U32(stream[2]) \in Nat
    BY <1>1, CellFacts
  <1>3. RegionEnd(limits.maxMetaBytes) \in 0..Len(stream)
    BY <1>1, <1>2 DEF RegionEnd, Lesser
  <1>4. Lesser(1, Len(stream)) \in 0..Len(stream)
    BY <1>1 DEF Lesser
  <1>. QED
    BY <1>3, <1>4 DEF PrefixEnd

-----------------------------------------------------------------------------
(* Type correctness, one lemma per group of actions.                       *)

LEMMA NewDecoderTypes == TypeOK /\ NewDecoder => TypeOK'
  <1>. HAVE TypeOK /\ NewDecoder
  <1>1. pos' \in 0..Len(stream)
    BY PrefixEndType DEF NewDecoder, NewDecoderFails, NewDecoderOpens
  <1>2. CASE NewDecoderFails
    BY <1>1, <1>2, ErrorTypes
    DEF TypeOK, NewDecoderFails, sourceVars, openVars, payloadVars, endVars, callerVars
  <1>3. CASE NewDecoderOpens
    <2>1. header' \in Header /\ stream[1] \in Cells
      BY <1>3, PrefixFacts DEF NewDecoderOpens
    <2>2. region' \in Seq(Cells)
      BY <1>3, PrefixFacts, EmptySeq DEF NewDecoderOpens
    <2>3. <<stream[1]>> \in Seq(HashInput) /\ region' \in Seq(HashInput)
      <3>1. Cells \subseteq HashInput
        BY DEF HashInput
      <3>. QED
        BY <2>1, <2>2, <3>1, SeqMonotonic
    <2>4. <<stream[1]>> \o region' \in Seq(HashInput)
      BY <2>3, ConcatProperties
    <2>5. rootKey(optKey, header'.baseNonce) \in Seq(Nat) \X Nat
      BY <2>1, DecoderAssumption DEF rootKey, Header, TypeOK
    <2>6. root' \in [key : {NoKey} \cup (Seq(Nat) \X Nat), input : Seq(HashInput)]
      BY <1>3, <2>4, <2>5 DEF NewDecoderOpens
    <2>7. reply' \in Errors
      BY <1>3 DEF NewDecoderOpens, Errors
    <2>. QED
      BY <1>1, <1>3, <2>1, <2>2, <2>6, <2>7
      DEF TypeOK, NewDecoderOpens, sourceVars, endVars, callerVars
  <1>. QED
    BY <1>2, <1>3 DEF NewDecoder

LEMMA ReadTypes == TypeOK /\ (Read \/ ReadReturns \/ ReadEnds) => TypeOK'
  <1>. HAVE TypeOK /\ (Read \/ ReadReturns \/ ReadEnds)
  <1>. USE DEF sourceVars, openVars, payloadVars, endVars, callerVars
  <1>1. NoError \in Errors /\ EOF \in Errors
    BY DEF Errors
  <1>2. CASE ReadNothing
    BY <1>1, <1>2 DEF TypeOK, ReadNothing
  <1>3. CASE ReadAgain
    BY <1>3 DEF TypeOK, ReadAgain, Terminated
  <1>4. ASSUME NEW n \in 1..MaxRead, ReadStarts(n)
        PROVE  TypeOK'
    BY <1>4, DecoderAssumption DEF TypeOK, ReadStarts, Terminated
  <1>5. CASE ReadReturns
    <2>. DEFINE n == Lesser(want, Len(pending))
    <2>1. Len(pending) \in Nat /\ want \in Nat /\ pending \in Seq(Cells) /\ delivered \in Seq(Cells)
      BY LenProperties, DecoderAssumption DEF TypeOK
    <2>2. n \in 0..Len(pending)
      BY <2>1 DEF Lesser
    <2>3. /\ SubSeq(pending, 1, n) \in Seq(Cells)
          /\ SubSeq(pending, n + 1, Len(pending)) \in Seq(Cells)
      BY <2>1, <2>2, PendingSplits
    <2>4. delivered' \in Seq(Cells) /\ pending' \in Seq(Cells)
      BY <1>5, <2>1, <2>3, ConcatProperties DEF ReadReturns, Copied
    <2>5. 0 \in 0..MaxRead
      BY DecoderAssumption
    <2>. QED
      BY <1>1, <1>5, <2>4, <2>5 DEF TypeOK, ReadReturns, Copied
  <1>6. CASE ReadEnds
    BY <1>1, <1>6, DecoderAssumption DEF TypeOK, ReadEnds, Ended, EndReply
  <1>. QED
    BY <1>2, <1>3, <1>4, <1>5, <1>6 DEF Read

(* A failed load keeps an error that Read can keep and return.             *)
LEMMA FailTypes ==
  ASSUME TypeOK, NEW err \in Errors, NEW end \in 0..Len(stream), Fails(err, end),
         plainTotal' \in Nat,
         root' \in [key : {NoKey} \cup (Seq(Nat) \X Nat), input : Seq(HashInput)]
  PROVE  TypeOK'
  BY DecoderAssumption DEF TypeOK, Fails, sourceVars, openVars

LEMMA BodyReadTypes ==
  TypeOK /\ BodyRead =>
    /\ root' \in [key : {NoKey} \cup (Seq(Nat) \X Nat), input : Seq(HashInput)]
    /\ root'.key = root.key /\ root'.input = Append(root.input, Leaf(Body))
    /\ Len(PlainOf(Body)) \in Nat /\ plainTotal \in Nat => AddU64(plainTotal, Len(PlainOf(Body))) \in Nat
  <1>. HAVE TypeOK /\ BodyRead
  <1>1. Body \in Seq(Cells)
    BY BodyFacts DEF BodyRead
  <1>2. root.input \in Seq(HashInput) /\ root \in [key : {NoKey} \cup (Seq(Nat) \X Nat), input : Seq(HashInput)]
    BY DEF TypeOK
  <1>3. Append(root.input, Leaf(Body)) \in Seq(HashInput)
    BY <1>1, <1>2, LeafAppended
  <1>4. root' = [root EXCEPT !.input = Append(root.input, Leaf(Body))]
    BY DEF BodyRead
  <1>5. ASSUME NEW n \in Nat, plainTotal \in Nat
        PROVE  AddU64(plainTotal, n) \in Nat
    BY <1>5, WidthAssumption DEF AddU64
  <1>. QED
    BY <1>2, <1>3, <1>4, <1>5

LEMMA LoadTypes == TypeOK /\ LoadChunk => TypeOK'
  <1>. HAVE TypeOK /\ LoadChunk
  <1>. DEFINE RootType == root' \in [key : {NoKey} \cup (Seq(Nat) \X Nat), input : Seq(HashInput)]
  <1>1. /\ Truncated \in Errors /\ ChunkAuth \in Errors /\ RootMismatch \in Errors
        /\ Len(stream) \in 0..Len(stream) /\ After(1) \in 0..Len(stream)
    BY StreamFacts DEF Errors, ErrorCode
  <1>2. root \in [key : {NoKey} \cup (Seq(Nat) \X Nat), input : Seq(HashInput)] /\ plainTotal \in Nat
    BY DEF TypeOK
  <1>3. CASE ChunkLengthFails
    BY <1>1, <1>2, <1>3, FailTypes, Zenon DEF ChunkLengthFails
  <1>4. CASE ChunkBodyFails
    <2>1. IncrementalError(Available - 1) \in Errors
      BY ErrorTypes, DecoderAssumption DEF TypeOK
    <2>. QED
      BY <1>1, <1>2, <1>4, <2>1, FailTypes, Zenon DEF ChunkBodyFails
  <1>5. ASSUME BodyRead
        PROVE  RootType /\ After(1 + clen) \in 0..Len(stream)
    <2>1. clen \in Nat
      BY <1>5, BodyFacts DEF BodyRead
    <2>2. 1 + clen \in Nat
      BY <2>1
    <2>. QED
      BY <1>5, <2>2, StreamFacts, BodyReadTypes
  <1>6. CASE ChunkNotAuthentic
    BY <1>1, <1>2, <1>5, <1>6, FailTypes, Zenon DEF ChunkNotAuthentic
  <1>7. CASE ChunkOverflows
    BY <1>1, <1>2, <1>5, <1>7, FailTypes, Zenon DEF ChunkOverflows
  <1>8. ASSUME BodyRead, Authentic
        PROVE  PlainOf(Body) \in Seq(Cells) /\ AddU64(plainTotal, Len(PlainOf(Body))) \in Nat
    BY <1>2, <1>8, PlainFacts, BodyReadTypes DEF BodyRead
  <1>9. CASE ChunkExceedsTotal
    BY <1>1, <1>5, <1>8, <1>9, FailTypes, Zenon DEF ChunkExceedsTotal
  <1>10. CASE ChunkLoaded
    <2>1. BodyRead /\ Authentic
      BY <1>10 DEF ChunkLoaded
    <2>2. RootType /\ pos' \in 0..Len(stream) /\ pending' \in Seq(Cells) /\ plainTotal' \in Nat
      BY <1>5, <1>8, <1>10, <2>1 DEF ChunkLoaded
    <2>. QED
      BY <1>10, <2>2 DEF TypeOK, ChunkLoaded, sourceVars, openVars, endVars, callerVars
  <1>11. CASE FooterFails
    <2>1. FooterError \in Errors /\ After(IF FooterError = TrailingData THEN 3 ELSE 2) \in 0..Len(stream)
      BY ErrorTypes, StreamFacts
    <2>. QED
      BY <1>2, <1>11, <2>1, FailTypes, Zenon DEF FooterFails
  <1>12. CASE FooterVerified
    <2>1. After(2) \in 0..Len(stream)
      BY StreamFacts
    <2>. QED
      BY <1>12, <2>1 DEF TypeOK, FooterVerified, sourceVars, openVars, payloadVars, callerVars
  <1>. QED
    BY <1>3, <1>4, <1>6, <1>7, <1>9, <1>10, <1>11, <1>12 DEF LoadChunk

LEMMA InitTypes == Init => TypeOK
  <1>. HAVE Init
  <1>1. NoHeader \in Header
    BY WidthAssumption DEF NoHeader, Header
  <1>2. stream \in Seq(Cells)
    BY DecoderAssumption DEF Init
  <1>3. Len(stream) \in Nat /\ 0 \in 0..Len(stream)
    BY <1>2, LenProperties
  <1>4. <<>> \in Seq(Cells) /\ <<>> \in Seq(HashInput) /\ 0 \in 0..MaxRead
    BY EmptySeq, DecoderAssumption
  <1>. QED
    BY <1>1, <1>2, <1>3, <1>4 DEF Init, TypeOK, Errors

LEMMA StepTypes == TypeOK /\ [Next]_vars => TypeOK'
  <1>. HAVE TypeOK /\ [Next]_vars
  <1>1. CASE UNCHANGED vars
    BY <1>1 DEF TypeOK, vars, sourceVars, openVars, payloadVars, endVars, callerVars
  <1>. QED
    BY <1>1, NewDecoderTypes, ReadTypes, LoadTypes DEF Next

(* The decoder's state is well formed on every stream, with every key and  *)
(* every cap a caller passes.                                              *)
THEOREM TypeCorrect == Spec => []TypeOK
  BY InitTypes, StepTypes, PTL DEF Spec

-----------------------------------------------------------------------------
(* The inductive invariant.                                                *)

Unopened == phase \in {"new", "rejected"}

(* Nothing happens before NewDecoder has succeeded, a Read in progress has *)
(* not failed, and a failed decoder holds no plaintext back.               *)
PhasesInv ==
  /\ Unopened => /\ chunkIndex = 0 /\ plainTotal = 0 /\ pending = <<>> /\ delivered = <<>>
                 /\ terminalErr = NoError /\ ~finalized
  /\ phase = "new" => pos = 0
  /\ phase = "reading" => terminalErr = NoError
  /\ terminalErr # NoError => pending = <<>> /\ ~finalized

(* The root input is the header, the metadata region and one leaf for each *)
(* chunk accepted; only a chunk that was refused leaves one more.          *)
HashInv ==
  ~Unopened =>
    /\ Len(root.input) >= 1 + Len(region) + chunkIndex
    /\ terminalErr = NoError => Len(root.input) = 1 + Len(region) + chunkIndex

(* The header's counts are within the caps, and what was accepted is       *)
(* within the header's counts.                                             *)
CountsInv ==
  /\ ~Unopened => /\ header.chunkCount <= limits.maxChunkCount
                  /\ header.totalSize <= limits.maxTotalSize
                  /\ chunkIndex <= header.chunkCount
                  /\ Len(delivered) + Len(pending) <= header.totalSize
  /\ Len(pending) <= limits.maxChunkLen

(* How far the source was read before the footer or an error.              *)
PositionInv ==
  /\ terminalErr = NoError /\ ~finalized =>
       pos <= 2 + limits.maxMetaBytes + chunkIndex * (1 + limits.maxChunkLen)
  /\ pos <= 2 + limits.maxMetaBytes + chunkIndex * (1 + limits.maxChunkLen)
              + (1 + limits.maxChunkLen) + 2

DecoderInv ==
  /\ TypeOK /\ PhasesInv /\ HashInv /\ CountsInv /\ PositionInv
  /\ TotalNeverWraps /\ FinalizedIsWhole /\ AcceptedChunksAuthentic

-----------------------------------------------------------------------------
(* What the steps do, as far as the invariant is concerned.                *)

sourceFixed == UNCHANGED <<stream, tail, optKey, options>>

(* Every way loadChunk fails: the error is kept and returned, nothing is   *)
(* released, and io.EOF is only what a body cut at a block gives.          *)
FailedLoad ==
  /\ NeedsChunk
  /\ terminalErr' \in Errors \ {NoError} /\ reply' = terminalErr'
  /\ terminalErr' = EOF => /\ tail = EOF /\ chunkIndex # header.chunkCount
                           /\ LengthReadable /\ Available - 1 < clen
                           /\ (Available - 1) % Block = 0
  /\ phase' = "open"
  /\ pos' <= pos + (1 + limits.maxChunkLen) + 2
  /\ UNCHANGED root \/ BodyRead
  /\ UNCHANGED <<stream, tail, optKey, options, header, region, chunkIndex, pending,
                 finalized, delivered>>

LEMMA FailsTo ==
  ASSUME TypeOK, NeedsChunk, NEW err \in Errors \ {NoError, EOF}, NEW end \in Nat,
         Fails(err, end), end <= pos + (1 + limits.maxChunkLen) + 2, UNCHANGED root \/ BodyRead
  PROVE  FailedLoad
  BY DEF FailedLoad, Fails, sourceVars, openVars

LEMMA LoadKinds == TypeOK /\ LoadChunk => ChunkLoaded \/ FooterVerified \/ FailedLoad
  <1>. HAVE TypeOK /\ LoadChunk
  <1>1. /\ Truncated \in Errors \ {NoError, EOF} /\ ChunkAuth \in Errors \ {NoError, EOF}
        /\ RootMismatch \in Errors \ {NoError, EOF}
    BY DEF Errors, ErrorCode, Truncated, ChunkAuth, RootMismatch, NoError, EOF
  <1>2. pos \in Nat /\ Len(stream) \in Nat /\ pos <= Len(stream) /\ limits.maxChunkLen \in Nat
    BY StreamFacts, LimitsType
  <1>3. ASSUME NEW n \in Nat, n <= limits.maxChunkLen + 3
        PROVE  After(n) \in Nat /\ After(n) <= pos + (1 + limits.maxChunkLen) + 2
    BY <1>2, <1>3 DEF After, Lesser
  <1>4. After(1) \in Nat /\ After(1) <= pos + (1 + limits.maxChunkLen) + 2
    BY <1>2, <1>3
  <1>5. ASSUME BodyRead
        PROVE  After(1 + clen) \in Nat /\ After(1 + clen) <= pos + (1 + limits.maxChunkLen) + 2
    <2>1. clen \in Nat /\ clen <= limits.maxChunkLen
      BY <1>5, BodyFacts DEF BodyRead
    <2>2. 1 + clen \in Nat /\ 1 + clen <= limits.maxChunkLen + 3
      BY <1>2, <2>1
    <2>. QED
      BY <1>3, <2>2
  <1>6. ASSUME BodyRead PROVE NeedsChunk
    BY <1>6 DEF BodyRead, Loading
  <1>7. CASE ChunkLengthFails
    BY <1>1, <1>4, <1>7, FailsTo, Zenon DEF ChunkLengthFails, Loading
  <1>8. CASE ChunkBodyFails
    <2>1. IncrementalError(Available - 1) \in Errors \ {NoError}
      BY ErrorTypes, DecoderAssumption DEF TypeOK
    <2>2. LengthReadable /\ Available - 1 < clen /\ NeedsChunk /\ chunkIndex # header.chunkCount
      BY <1>8 DEF ChunkBodyFails, Loading
    <2>3. clen \in Nat /\ clen <= limits.maxChunkLen
      <3>1. Available \in Nat /\ Available >= 1 /\ Available = Len(stream) - pos
        BY <2>2, StreamFacts DEF LengthReadable, Available
      <3>2. pos + 1 \in 1..Len(stream)
        BY <1>2, <3>1
      <3>3. stream[pos + 1] \in Cells
        BY <3>2, StreamFacts
      <3>. QED
        BY <2>2, <3>3, CellFacts DEF clen, LengthReadable
    <2>4. Len(stream) <= pos + (1 + limits.maxChunkLen) + 2
      BY <1>2, <2>2, <2>3 DEF Available
    <2>5. ASSUME IncrementalError(Available - 1) = EOF
          PROVE  tail = EOF /\ (Available - 1) % Block = 0
      BY <2>5, DecoderAssumption DEF IncrementalError, EOF, UnexpectedEOF, SourceError, TypeOK
    <2>. QED
      BY <1>8, <2>1, <2>2, <2>4, <2>5
      DEF ChunkBodyFails, Fails, FailedLoad, sourceVars, openVars
  <1>9. CASE ChunkNotAuthentic
    BY <1>1, <1>5, <1>6, <1>9, FailsTo, Zenon DEF ChunkNotAuthentic
  <1>10. CASE ChunkOverflows
    BY <1>1, <1>5, <1>6, <1>10, FailsTo, Zenon DEF ChunkOverflows
  <1>11. CASE ChunkExceedsTotal
    BY <1>1, <1>5, <1>6, <1>11, FailsTo, Zenon DEF ChunkExceedsTotal
  <1>12. CASE FooterFails
    <2>1. FooterError \in Errors \ {NoError, EOF}
      BY <1>12 DEF FooterFails, FooterError, Errors, ErrorCode, Truncated, RootMismatch,
                   TrailingData, NoError, EOF, HasTrailing
    <2>. DEFINE n == IF FooterError = TrailingData THEN 3 ELSE 2
    <2>2. n \in Nat /\ n <= limits.maxChunkLen + 3
      BY <1>2
    <2>3. After(n) \in Nat /\ After(n) <= pos + (1 + limits.maxChunkLen) + 2
      BY <1>3, <2>2
    <2>4. NeedsChunk /\ Fails(FooterError, After(n)) /\ UNCHANGED root
      BY <1>12 DEF FooterFails, AtFooter
    <2>. QED
      BY <2>1, <2>3, <2>4, FailsTo, Zenon
  <1>. QED
    BY <1>7, <1>8, <1>9, <1>10, <1>11, <1>12 DEF LoadChunk

(* The chunk that was read and accepted.                                   *)
LEMMA LoadedFacts ==
  TypeOK /\ ChunkLoaded =>
    /\ Len(pending') \in Nat /\ Len(pending') <= clen /\ clen \in Nat
    /\ clen <= limits.maxChunkLen
    /\ plainTotal' = plainTotal + Len(pending') /\ plainTotal' <= header.totalSize
    /\ pos' = pos + 1 + clen
    /\ chunkIndex' = chunkIndex + 1 /\ chunkIndex # header.chunkCount
    /\ pending = <<>> /\ ~finalized /\ phase = "reading" /\ phase' = "reading"
    /\ UNCHANGED <<stream, tail, optKey, options, header, region, terminalErr,
                   finalized, want, delivered, reply>>
  <1>. HAVE TypeOK /\ ChunkLoaded
  <1>1. BodyRead /\ Authentic
    BY DEF ChunkLoaded
  <1>2. TypeOK /\ LengthReadable /\ Available - 1 >= clen /\ Authentic
    BY <1>1 DEF BodyRead
  <1>3. /\ clen \in Nat /\ clen <= limits.maxChunkLen /\ After(1 + clen) = pos + 1 + clen
    BY <1>2, BodyFacts
  <1>4. Len(PlainOf(Body)) \in Nat /\ Len(PlainOf(Body)) <= clen
    BY <1>2, PlainFacts
  <1>5. plainTotal \in Nat
    BY DEF TypeOK
  <1>6. ASSUME NEW n \in Nat, ~Overflows(n)
        PROVE  AddU64(plainTotal, n) = plainTotal + n
    BY <1>5, <1>6, WidthAssumption DEF Overflows, AddU64
  <1>7. plainTotal' = plainTotal + Len(PlainOf(Body))
    BY <1>4, <1>6 DEF ChunkLoaded
  <1>8. pending' = PlainOf(Body)
    BY DEF ChunkLoaded
  <1>9. phase = "reading" /\ pending = <<>> /\ ~finalized /\ chunkIndex # header.chunkCount
    BY <1>1 DEF BodyRead, Loading, NeedsChunk
  <1>. QED
    BY <1>3, <1>4, <1>7, <1>8, <1>9
    DEF ChunkLoaded, sourceVars, openVars, endVars, callerVars

(* Everything a step can be.                                               *)
Quiet ==
  /\ phase = "open" /\ reply' \in {NoError, terminalErr}
  /\ UNCHANGED <<stream, tail, optKey, options, pos, phase, header, region, root,
                 chunkIndex, plainTotal, pending, terminalErr, finalized, want, delivered>>

LEMMA StepKinds ==
  TypeOK /\ [Next]_vars =>
    \/ NewDecoderFails \/ NewDecoderOpens
    \/ Quiet \/ \E n \in 1..MaxRead : ReadStarts(n)
    \/ ReadReturns \/ ReadEnds \/ ChunkLoaded \/ FooterVerified \/ FailedLoad
    \/ UNCHANGED vars
  <1>. HAVE TypeOK /\ [Next]_vars
  <1>1. ReadNothing => Quiet
    BY DEF ReadNothing, Quiet, sourceVars, openVars, payloadVars, endVars, callerVars
  <1>2. ReadAgain => Quiet
    BY DEF ReadAgain, Quiet, sourceVars, openVars, payloadVars, endVars, callerVars, Terminated
  <1>. QED
    BY <1>1, <1>2, LoadKinds DEF Next, NewDecoder, Read

(* The source and the caller's caps do not change.                         *)
LEMMA SourceFixed ==
  TypeOK /\ [Next]_vars => /\ stream' = stream /\ tail' = tail /\ optKey' = optKey
                           /\ options' = options /\ limits' = limits
  <1>. HAVE TypeOK /\ [Next]_vars
  <1>1. stream' = stream /\ tail' = tail /\ optKey' = optKey /\ options' = options
    BY StepKinds, LoadedFacts
    DEF NewDecoderFails, NewDecoderOpens, Quiet, ReadStarts, ReadReturns, ReadEnds,
        FooterVerified, FailedLoad, vars, sourceVars, Terminated, Copied, Ended, EndReply
  <1>. QED
    BY <1>1 DEF limits

-----------------------------------------------------------------------------
(* The invariant is inductive: one lemma per part.                         *)

LEMMA InitInv == Init => DecoderInv
  <1>. HAVE Init
  <1>1. TypeOK
    BY InitTypes
  <1>2. Len(pending) = 0 /\ Len(delivered) = 0
    BY DEF Init
  <1>3. /\ limits.maxMetaBytes \in Nat /\ limits.maxChunkLen \in Nat
    BY <1>1, LimitsType
  <1>4. PhasesInv /\ HashInv /\ TotalNeverWraps /\ FinalizedIsWhole /\ AcceptedChunksAuthentic
    BY <1>2 DEF Init, PhasesInv, Unopened, HashInv, TotalNeverWraps, FinalizedIsWhole,
                AcceptedChunksAuthentic, NoHeader
  <1>5. CountsInv
    BY <1>2, <1>3 DEF Init, CountsInv, Unopened
  <1>6. PositionInv
    BY <1>3 DEF Init, PositionInv
  <1>. QED
    BY <1>1, <1>4, <1>5, <1>6 DEF DecoderInv

LEMMA PhasesStep == TypeOK /\ PhasesInv /\ [Next]_vars => PhasesInv'
  <1>. HAVE TypeOK /\ PhasesInv /\ [Next]_vars
  <1>. USE DEF PhasesInv, Unopened, sourceVars, openVars, payloadVars, endVars, callerVars
  <1>1. CASE NewDecoderFails
    BY <1>1 DEF NewDecoderFails
  <1>2. CASE NewDecoderOpens
    BY <1>2 DEF NewDecoderOpens
  <1>3. CASE Quiet \/ UNCHANGED vars
    BY <1>3 DEF Quiet, vars
  <1>4. ASSUME NEW n \in 1..MaxRead, ReadStarts(n) PROVE PhasesInv'
    BY <1>4 DEF ReadStarts, Terminated
  <1>5. CASE ReadReturns \/ ReadEnds
    BY <1>5 DEF ReadReturns, ReadEnds, Copied, Ended, EndReply
  <1>6. CASE ChunkLoaded
    BY <1>6, LoadedFacts
  <1>7. CASE FooterVerified
    BY <1>7 DEF FooterVerified, AtFooter, NeedsChunk
  <1>8. CASE FailedLoad
    BY <1>8 DEF FailedLoad, NeedsChunk
  <1>. QED
    BY <1>1, <1>2, <1>3, <1>4, <1>5, <1>6, <1>7, <1>8, StepKinds, Zenon

LEMMA HashStep == TypeOK /\ PhasesInv /\ HashInv /\ [Next]_vars => HashInv'
  <1>. HAVE TypeOK /\ PhasesInv /\ HashInv /\ [Next]_vars
  <1>. USE DEF HashInv, Unopened, sourceVars, openVars, payloadVars, endVars, callerVars
  <1>1. /\ root.input \in Seq(HashInput) /\ Len(root.input) \in Nat
        /\ Len(region) \in Nat /\ chunkIndex \in Nat
    BY LenProperties DEF TypeOK
  <1>2. CASE NewDecoderFails
    BY <1>2 DEF NewDecoderFails
  <1>3. CASE NewDecoderOpens
    <2>1. /\ root'.input = <<stream[1]>> \o region'
          /\ chunkIndex' = chunkIndex /\ phase = "new"
      BY <1>3 DEF NewDecoderOpens
    <2>2. region' \in Seq(Cells) /\ stream[1] \in Cells
      BY <1>3, PrefixFacts, EmptySeq DEF NewDecoderOpens
    <2>3. <<stream[1]>> \in Seq(Cells) /\ Len(<<stream[1]>>) = 1
      BY <2>2
    <2>4. Len(root'.input) = 1 + Len(region') /\ Len(region') \in Nat
      BY <2>1, <2>2, <2>3, ConcatProperties, LenProperties
    <2>. QED
      BY <2>1, <2>4 DEF PhasesInv
  <1>4. CASE Quiet \/ UNCHANGED vars
    BY <1>4 DEF Quiet, vars
  <1>5. ASSUME NEW n \in 1..MaxRead, ReadStarts(n) PROVE HashInv'
    BY <1>5 DEF ReadStarts, Terminated
  <1>6. CASE ReadReturns \/ ReadEnds
    BY <1>6 DEF ReadReturns, ReadEnds, Copied, Ended, EndReply
  <1>7. ASSUME BodyRead
        PROVE  Len(root'.input) = Len(root.input) + 1
    <2>1. Body \in Seq(Cells) /\ root'.input = Append(root.input, Leaf(Body))
      BY <1>7, BodyFacts, BodyReadTypes DEF BodyRead
    <2>. QED
      BY <1>1, <2>1, LeafAppended
  <1>8. CASE ChunkLoaded
    <2>1. BodyRead
      BY <1>8 DEF ChunkLoaded
    <2>2. /\ phase = "reading" /\ terminalErr = NoError
          /\ UNCHANGED <<phase, region, terminalErr>> /\ chunkIndex' = chunkIndex + 1
      BY <1>8, LoadedFacts DEF PhasesInv
    <2>3. Len(root'.input) = Len(root.input) + 1
      BY <1>7, <2>1
    <2>. QED
      BY <1>1, <2>2, <2>3
  <1>9. CASE FooterVerified
    BY <1>9 DEF FooterVerified, AtFooter, NeedsChunk
  <1>10. CASE FailedLoad
    <2>1. /\ phase = "reading" /\ phase' = "open" /\ terminalErr' # NoError
          /\ UNCHANGED <<region, chunkIndex>>
          /\ UNCHANGED root \/ BodyRead
      BY <1>10 DEF FailedLoad, NeedsChunk
    <2>2. Len(root'.input) >= Len(root.input)
      BY <1>1, <1>7, <2>1
    <2>3. Len(root'.input) \in Nat
      BY <1>1, <1>7, <2>1
    <2>. QED
      BY <1>1, <2>1, <2>2, <2>3
  <1>. QED
    BY <1>2, <1>3, <1>4, <1>5, <1>6, <1>8, <1>9, <1>10, StepKinds, Zenon

(* What a Read returns moves from what is pending to what is delivered.    *)
LEMMA ReturnedFacts ==
  TypeOK /\ ReadReturns =>
    /\ Len(delivered') + Len(pending') = Len(delivered) + Len(pending)
    /\ Len(pending') \in Nat /\ Len(pending') <= Len(pending)
  <1>. HAVE TypeOK /\ ReadReturns
  <1>. DEFINE n == Lesser(want, Len(pending))
              d == SubSeq(pending, 1, n)
              r == SubSeq(pending, n + 1, Len(pending))
  <1>1. Len(pending) \in Nat /\ want \in Nat /\ pending \in Seq(Cells) /\ delivered \in Seq(Cells)
    BY LenProperties, DecoderAssumption DEF TypeOK
  <1>2. n \in 0..Len(pending)
    BY <1>1 DEF Lesser
  <1>3. d \in Seq(Cells) /\ r \in Seq(Cells) /\ Len(d) + Len(r) = Len(pending)
    BY <1>1, <1>2, PendingSplits
  <1>4. Len(d) \in Nat /\ Len(r) \in Nat /\ Len(delivered) \in Nat
    BY <1>1, <1>3, LenProperties
  <1>5. delivered' = delivered \o d /\ pending' = r
    BY DEF ReadReturns, Copied
  <1>. HIDE DEF n, d, r
  <1>6. Len(delivered \o d) = Len(delivered) + Len(d)
    BY <1>1, <1>3, ConcatProperties
  <1>7. \A a, b, c \in Nat : b + c = Len(pending) => /\ (a + b) + c = a + Len(pending)
                                                  /\ c <= Len(pending)
    BY <1>1
  <1>8. Len(d) + Len(r) = Len(pending)
    BY <1>3
  <1>9. /\ (Len(delivered) + Len(d)) + Len(r) = Len(delivered) + Len(pending)
        /\ Len(r) <= Len(pending)
    BY <1>4, <1>7, <1>8, Zenon
  <1>. QED
    BY <1>4, <1>5, <1>6, <1>9, Zenon

LEMMA TotalStep ==
  TypeOK /\ PhasesInv /\ TotalNeverWraps /\ [Next]_vars => TotalNeverWraps'
  <1>. HAVE TypeOK /\ PhasesInv /\ TotalNeverWraps /\ [Next]_vars
  <1>. USE DEF TotalNeverWraps, sourceVars, openVars, payloadVars, endVars, callerVars
  <1>1. CASE NewDecoderFails \/ NewDecoderOpens
    BY <1>1 DEF NewDecoderFails, NewDecoderOpens
  <1>2. CASE Quiet \/ UNCHANGED vars
    BY <1>2 DEF Quiet, vars
  <1>3. ASSUME NEW n \in 1..MaxRead, ReadStarts(n) PROVE TotalNeverWraps'
    BY <1>3 DEF ReadStarts, Terminated
  <1>4. CASE ReadReturns
    BY <1>4, ReturnedFacts DEF ReadReturns, Copied
  <1>5. CASE ReadEnds \/ FooterVerified
    BY <1>5 DEF ReadEnds, FooterVerified, Ended, EndReply
  <1>6. CASE ChunkLoaded
    <2>1. /\ plainTotal' = plainTotal + Len(pending') /\ terminalErr = NoError
          /\ delivered' = delivered /\ pending = <<>> /\ Len(pending') \in Nat
      BY <1>6, LoadedFacts DEF PhasesInv
    <2>2. plainTotal = Len(delivered) + 0 /\ Len(delivered) \in Nat
      BY <2>1, LenProperties DEF TypeOK
    <2>. QED
      BY <2>1, <2>2
  <1>7. CASE FailedLoad
    BY <1>7 DEF FailedLoad
  <1>. QED
    BY <1>1, <1>2, <1>3, <1>4, <1>5, <1>6, <1>7, StepKinds, Zenon

LEMMA CountsStep ==
  TypeOK /\ PhasesInv /\ TotalNeverWraps /\ CountsInv /\ [Next]_vars => CountsInv'
  <1>. HAVE TypeOK /\ PhasesInv /\ TotalNeverWraps /\ CountsInv /\ [Next]_vars
  <1>. USE DEF CountsInv, Unopened, sourceVars, openVars, payloadVars, endVars, callerVars
  <1>1. limits' = limits /\ options' = options
    BY SourceFixed
  <1>2. /\ limits.maxChunkLen \in Nat /\ limits.maxChunkCount \in Nat
        /\ limits.maxTotalSize \in Nat
    BY LimitsType
  <1>3. Len(pending) \in Nat /\ Len(delivered) \in Nat /\ chunkIndex \in Nat
    BY LenProperties DEF TypeOK
  <1>4. CASE NewDecoderFails
    BY <1>1, <1>4 DEF NewDecoderFails
  <1>5. CASE NewDecoderOpens
    <2>1. /\ header' = stream[1].h /\ UNCHANGED <<chunkIndex, pending, delivered>>
          /\ phase = "new" /\ OpenError = NoError
      BY <1>5 DEF NewDecoderOpens
    <2>2. /\ header' \in Header /\ header'.chunkCount <= limits.maxChunkCount
          /\ header'.totalSize <= limits.maxTotalSize
      BY <2>1, PrefixFacts
    <2>3. header'.chunkCount \in Nat /\ header'.totalSize \in Nat
      BY <2>2, WidthAssumption DEF Header
    <2>4. chunkIndex = 0 /\ Len(delivered) = 0 /\ Len(pending) = 0
      BY <2>1, EmptySeq DEF PhasesInv
    <2>. QED
      BY <1>1, <1>2, <2>1, <2>2, <2>3, <2>4
  <1>6. CASE Quiet \/ UNCHANGED vars
    BY <1>1, <1>6 DEF Quiet, vars
  <1>7. ASSUME NEW n \in 1..MaxRead, ReadStarts(n) PROVE CountsInv'
    BY <1>1, <1>7 DEF ReadStarts, Terminated
  <1>8. CASE ReadReturns
    <2>1. /\ Len(delivered') + Len(pending') = Len(delivered) + Len(pending)
          /\ Len(pending') \in Nat /\ Len(pending') <= Len(pending)
      BY <1>8, ReturnedFacts
    <2>2. UNCHANGED <<header, chunkIndex>> /\ phase = "reading" /\ phase' = "open"
      BY <1>8 DEF ReadReturns, Copied
    <2>3. Len(pending') <= limits.maxChunkLen
      BY <1>2, <1>3, <2>1
    <2>. QED
      BY <1>1, <2>1, <2>2, <2>3
  <1>9. CASE ReadEnds \/ FooterVerified
    BY <1>1, <1>9 DEF ReadEnds, FooterVerified, NeedsChunk, AtFooter, Ended, EndReply
  <1>10. CASE ChunkLoaded
    <2>1. /\ Len(pending') \in Nat /\ Len(pending') <= clen /\ clen \in Nat
          /\ clen <= limits.maxChunkLen /\ chunkIndex' = chunkIndex + 1
          /\ chunkIndex # header.chunkCount /\ plainTotal' <= header.totalSize
          /\ UNCHANGED <<header, phase, delivered, terminalErr>> /\ phase = "reading"
      BY <1>10, LoadedFacts
    <2>2. terminalErr' = NoError
      BY <2>1 DEF PhasesInv
    <2>3. plainTotal' = Len(delivered') + Len(pending')
      BY <2>2, TotalStep DEF TotalNeverWraps
    <2>4. header.chunkCount \in Nat
      BY WidthAssumption DEF TypeOK, Header
    <2>5. chunkIndex' <= header.chunkCount
      BY <1>3, <2>1, <2>4
    <2>6. Len(pending') <= limits.maxChunkLen
      BY <1>2, <2>1
    <2>. QED
      BY <1>1, <2>1, <2>3, <2>5, <2>6
  <1>11. CASE FailedLoad
    BY <1>1, <1>11 DEF FailedLoad, NeedsChunk
  <1>. QED
    BY <1>4, <1>5, <1>6, <1>7, <1>8, <1>9, <1>10, <1>11, StepKinds, Zenon

(* The prefix is within the metadata cap.                                  *)
LEMMA PrefixBounded ==
  TypeOK => PrefixEnd(limits.maxMetaBytes) <= 2 + limits.maxMetaBytes
  <1>. HAVE TypeOK
  <1>1. Len(stream) \in Nat /\ limits.maxMetaBytes \in Nat
    BY StreamFacts, LimitsType
  <1>2. Len(stream) >= 2 => U32(stream[2]) \in Nat
    <2>1. Len(stream) >= 2 => 2 \in 1..Len(stream)
      BY <1>1
    <2>. QED
      BY <2>1, StreamFacts, CellFacts
  <1>3. RegionEnd(limits.maxMetaBytes) <= 2 + limits.maxMetaBytes
    BY <1>1, <1>2 DEF RegionEnd, Lesser
  <1>4. Lesser(1, Len(stream)) <= 2 + limits.maxMetaBytes
    BY <1>1 DEF Lesser
  <1>. QED
    BY <1>3, <1>4 DEF PrefixEnd

(* One more chunk is one more length field and one more body.              *)
LEMMA OneMoreChunk ==
  ASSUME NEW k \in Nat, NEW c \in Nat
  PROVE  /\ (c + 1) * (1 + k) = c * (1 + k) + (1 + k)
         /\ c * (1 + k) \in Nat /\ 0 * (1 + k) = 0
  OBVIOUS

LEMMA PositionStep ==
  TypeOK /\ PhasesInv /\ PositionInv /\ [Next]_vars => PositionInv'
  <1>. HAVE TypeOK /\ PhasesInv /\ PositionInv /\ [Next]_vars
  <1>. USE DEF sourceVars, openVars, payloadVars, endVars, callerVars
  <1>. DEFINE k == limits.maxChunkLen
              m == limits.maxMetaBytes
              reach == chunkIndex * (1 + k)
              Early == pos <= 2 + m + reach
              Late  == pos <= 2 + m + reach + (1 + k) + 2
  <1>1. limits' = limits
    BY SourceFixed
  <1>2. k \in Nat /\ m \in Nat /\ chunkIndex \in Nat /\ pos \in Nat
    BY LimitsType, StreamFacts DEF TypeOK
  <1>3. reach \in Nat /\ (chunkIndex + 1) * (1 + k) = reach + (1 + k) /\ 0 * (1 + k) = 0
    BY <1>2, OneMoreChunk
  <1>4. (terminalErr = NoError /\ ~finalized => Early) /\ Late
    BY DEF PositionInv
  <1>5. ASSUME UNCHANGED <<pos, chunkIndex, terminalErr, finalized>>
        PROVE  PositionInv'
    BY <1>1, <1>4, <1>5 DEF PositionInv
  <1>6. CASE NewDecoder
    <2>1. /\ pos' = PrefixEnd(limits.maxMetaBytes) /\ chunkIndex' = chunkIndex
          /\ phase = "new"
      BY <1>6 DEF NewDecoder, NewDecoderFails, NewDecoderOpens
    <2>2. chunkIndex = 0
      BY <2>1 DEF PhasesInv, Unopened
    <2>3. pos' <= 2 + m /\ pos' \in Nat
      <3>1. pos' \in 0..Len(stream) /\ Len(stream) \in Nat
        BY <2>1, PrefixEndType, StreamFacts
      <3>. QED
        BY <2>1, <3>1, PrefixBounded
    <2>4. chunkIndex' * (1 + k) = 0
      BY <1>3, <2>1, <2>2
    <2>5. pos' <= 2 + m + 0 /\ pos' <= 2 + m + 0 + (1 + k) + 2
      BY <1>2, <2>3
    <2>. QED
      BY <1>1, <2>4, <2>5 DEF PositionInv
  <1>7. CASE Quiet \/ ReadReturns \/ ReadEnds \/ UNCHANGED vars
    BY <1>5, <1>7 DEF Quiet, ReadReturns, ReadEnds, vars, Copied, Ended, EndReply
  <1>8. ASSUME NEW n \in 1..MaxRead, ReadStarts(n) PROVE PositionInv'
    BY <1>5, <1>8 DEF ReadStarts, Terminated
  <1>9. CASE ChunkLoaded
    <2>1. /\ pos' = pos + 1 + clen /\ clen \in Nat /\ clen <= k
          /\ chunkIndex' = chunkIndex + 1 /\ ~finalized /\ phase = "reading"
      BY <1>9, LoadedFacts
    <2>2. Early
      BY <1>4, <2>1 DEF PhasesInv
    <2>3. chunkIndex' * (1 + k) = reach + (1 + k)
      BY <1>3, <2>1
    <2>. HIDE DEF reach, k, m
    <2>4. pos' <= 2 + m + (reach + (1 + k)) /\ pos' <= 2 + m + (reach + (1 + k)) + (1 + k) + 2
      BY <1>2, <1>3, <2>1, <2>2
    <2>5. pos' <= 2 + m + chunkIndex' * (1 + k) /\ pos' <= 2 + m + chunkIndex' * (1 + k) + (1 + k) + 2
      BY <2>3, <2>4
    <2>. QED
      BY <1>1, <2>5 DEF PositionInv, k, m
  <1>10. CASE FooterVerified
    <2>1. /\ NeedsChunk /\ pos' = After(2) /\ finalized' /\ chunkIndex' = chunkIndex
      BY <1>10 DEF FooterVerified, AtFooter
    <2>2. Early
      BY <1>4, <2>1 DEF NeedsChunk, PhasesInv
    <2>3. After(2) <= pos + 2
      BY StreamFacts DEF After, Lesser
    <2>. HIDE DEF reach, k, m
    <2>4. pos' \in Nat
      BY <2>1, StreamFacts
    <2>5. pos' <= 2 + m + reach + (1 + k) + 2
      BY <1>2, <1>3, <2>1, <2>2, <2>3, <2>4
    <2>. QED
      BY <1>1, <2>1, <2>5 DEF PositionInv, k, m, reach
  <1>11. CASE FailedLoad
    <2>1. /\ NeedsChunk /\ pos' <= pos + (1 + k) + 2 /\ terminalErr' # NoError
          /\ chunkIndex' = chunkIndex
      BY <1>11 DEF FailedLoad
    <2>2. Early
      BY <1>4, <2>1 DEF NeedsChunk, PhasesInv
    <2>3. pos' \in Nat
      BY LoadTypes, StepTypes, LenProperties DEF TypeOK
    <2>. HIDE DEF reach, k, m
    <2>4. pos' <= 2 + m + reach + (1 + k) + 2
      BY <1>2, <1>3, <2>1, <2>2, <2>3
    <2>. QED
      BY <1>1, <2>1, <2>4 DEF PositionInv, k, m, reach
  <1>. QED
    BY <1>6, <1>7, <1>8, <1>9, <1>10, <1>11, StepKinds, Zenon DEF NewDecoder

LEMMA FinalStep ==
  TypeOK /\ PhasesInv /\ TotalNeverWraps /\ FinalizedIsWhole /\ [Next]_vars => FinalizedIsWhole'
  <1>. HAVE TypeOK /\ PhasesInv /\ TotalNeverWraps /\ FinalizedIsWhole /\ [Next]_vars
  <1>. USE DEF FinalizedIsWhole, sourceVars, openVars, payloadVars, endVars, callerVars
  <1>1. CASE NewDecoder
    BY <1>1 DEF NewDecoder, NewDecoderFails, NewDecoderOpens, PhasesInv, Unopened
  <1>2. CASE Quiet \/ UNCHANGED vars
    BY <1>2 DEF Quiet, vars
  <1>3. ASSUME NEW n \in 1..MaxRead, ReadStarts(n) PROVE FinalizedIsWhole'
    BY <1>3 DEF ReadStarts, Terminated
  <1>4. CASE ReadReturns
    BY <1>4, ReturnedFacts DEF ReadReturns, Copied
  <1>5. CASE ReadEnds
    BY <1>5 DEF ReadEnds, Ended, EndReply
  <1>6. CASE ChunkLoaded
    BY <1>6, LoadedFacts
  <1>7. CASE FooterVerified
    <2>1. NeedsChunk /\ chunkIndex = header.chunkCount /\ FooterError = NoError
      BY <1>7 DEF FooterVerified, AtFooter
    <2>2. FooterFramed /\ RootMatches /\ ~(Available > 2) /\ tail = EOF
      BY <2>1 DEF FooterError, Truncated, RootMismatch, TrailingData, NoError, HasTrailing
    <2>3. /\ plainTotal = header.totalSize /\ stream[pos + 1] = RootCell(root.key, root.input)
          /\ Available >= 2 /\ stream[pos + 2] = MagicEnd
      BY <2>2 DEF RootMatches, FooterFramed
    <2>4. plainTotal = Len(delivered) + Len(pending)
      BY <2>1 DEF NeedsChunk, PhasesInv, TotalNeverWraps
    <2>5. After(2) = pos + 2 /\ After(2) = Len(stream) /\ After(2) - 1 = pos + 1
      <3>1. Len(stream) \in Nat /\ pos \in Nat
        BY StreamFacts
      <3>2. ~(Len(stream) - pos > 2) /\ Len(stream) - pos >= 2
        BY <2>2, <2>3 DEF Available
      <3>3. pos + 2 = Len(stream) /\ pos + 2 - 1 = pos + 1
        BY <3>1, <3>2
      <3>4. \A a, b \in Nat : a = b => Lesser(a, b) = a
        BY DEF Lesser
      <3>5. pos + 2 \in Nat
        BY <3>1
      <3>6. After(2) = pos + 2
        BY <3>1, <3>3, <3>4, <3>5, Zenon DEF After
      <3>7. After(2) - 1 = pos + 1
        BY <3>1, <3>6
      <3>. QED
        BY <3>3, <3>6, <3>7
    <2>6. /\ pos' = After(2)
          /\ UNCHANGED <<stream, tail, header, chunkIndex, delivered, pending, root>>
      BY <1>7 DEF FooterVerified
    <2>7. pos' = pos + 2 /\ pos' - 1 = pos + 1 /\ pos' = Len(stream)
      <3>1. \A q : q = After(2) => q = pos + 2 /\ q - 1 = pos + 1 /\ q = Len(stream)
        BY <2>5, Zenon
      <3>. QED
        BY <2>6, <3>1, Zenon
    <2>. QED
      BY <2>1, <2>2, <2>3, <2>4, <2>6, <2>7
  <1>8. CASE FailedLoad
    BY <1>8 DEF FailedLoad, NeedsChunk
  <1>. QED
    BY <1>1, <1>2, <1>3, <1>4, <1>5, <1>6, <1>7, <1>8, StepKinds, Zenon DEF NewDecoder

LEMMA AuthenticStep ==
  TypeOK /\ PhasesInv /\ HashInv /\ AcceptedChunksAuthentic /\ [Next]_vars
    => AcceptedChunksAuthentic'
  <1>. HAVE TypeOK /\ PhasesInv /\ HashInv /\ AcceptedChunksAuthentic /\ [Next]_vars
  <1>. USE DEF sourceVars, openVars, payloadVars, endVars, callerVars
  <1>1. /\ root.input \in Seq(HashInput) /\ Len(root.input) \in Nat
        /\ Len(region) \in Nat /\ chunkIndex \in Nat
    BY LenProperties DEF TypeOK
  <1>2. CASE NewDecoder
    <2>1. chunkIndex' = 0
      BY <1>2 DEF NewDecoder, NewDecoderFails, NewDecoderOpens, PhasesInv, Unopened
    <2>. QED
      BY <2>1 DEF AcceptedChunksAuthentic
  <1>3. ASSUME UNCHANGED <<optKey, header, region, root, chunkIndex>>
        PROVE  AcceptedChunksAuthentic'
    BY <1>3 DEF AcceptedChunksAuthentic, LeafOf
  <1>4. CASE Quiet \/ ReadReturns \/ ReadEnds \/ FooterVerified \/ UNCHANGED vars
    BY <1>3, <1>4 DEF Quiet, ReadReturns, ReadEnds, FooterVerified, vars, Copied, Ended, EndReply
  <1>5. ASSUME NEW n \in 1..MaxRead, ReadStarts(n) PROVE AcceptedChunksAuthentic'
    BY <1>3, <1>5 DEF ReadStarts, Terminated
  <1>6. ASSUME BodyRead, phase = "reading"
        PROVE  /\ \A i \in 1..chunkIndex : root'.input[1 + Len(region) + i].body = LeafOf(i)
               /\ root'.input[1 + Len(region) + (chunkIndex + 1)].body = Body
    <2>1. Body \in Seq(Cells) /\ root'.input = Append(root.input, Leaf(Body))
      BY <1>6, BodyFacts, BodyReadTypes DEF BodyRead
    <2>2. Len(root.input) = 1 + Len(region) + chunkIndex
      BY <1>6 DEF HashInv, Unopened, PhasesInv
    <2>3. /\ \A i \in 1..Len(root.input) : root'.input[i] = root.input[i]
          /\ root'.input[Len(root.input) + 1] = Leaf(Body)
      BY <1>1, <2>1, LeafAppended
    <2>4. ASSUME NEW i \in 1..chunkIndex
          PROVE  1 + Len(region) + i \in 1..Len(root.input)
      BY <1>1, <2>2
    <2>5. 1 + Len(region) + (chunkIndex + 1) = Len(root.input) + 1
      BY <1>1, <2>2
    <2>6. ASSUME NEW i \in 1..chunkIndex
          PROVE  root'.input[1 + Len(region) + i].body = LeafOf(i)
      BY <2>3, <2>4 DEF LeafOf
    <2>7. root'.input[1 + Len(region) + (chunkIndex + 1)].body = Body
      BY <2>3, <2>5 DEF Leaf
    <2>. QED
      BY <2>6, <2>7
  <1>7. CASE ChunkLoaded
    <2>1. BodyRead /\ Authentic
      BY <1>7 DEF ChunkLoaded
    <2>2. /\ phase = "reading" /\ chunkIndex' = chunkIndex + 1
          /\ UNCHANGED <<optKey, header, region>>
      BY <1>7, LoadedFacts
    <2>3. ASSUME header.encrypted, NEW i \in 1..chunkIndex'
          PROVE  Opens(optKey, header.baseNonce, HeaderCell(header), region, i - 1,
                       root'.input[1 + Len(region) + i].body)
      <3>1. CASE i \in 1..chunkIndex
        BY <1>6, <2>1, <2>2, <2>3, <3>1 DEF AcceptedChunksAuthentic
      <3>2. CASE i = chunkIndex + 1
        <4>1. i - 1 = chunkIndex
          BY <1>1, <3>2
        <4>2. Opens(optKey, header.baseNonce, HeaderCell(header), region, chunkIndex, Body)
          BY <2>1, <2>3 DEF Authentic
        <4>3. root'.input[1 + Len(region) + i].body = Body
          BY <1>6, <2>1, <2>2, <3>2
        <4>. QED
          BY <4>1, <4>2, <4>3
      <3>. QED
        BY <1>1, <2>2, <3>1, <3>2
    <2>. QED
      BY <2>2, <2>3 DEF AcceptedChunksAuthentic, LeafOf
  <1>8. CASE FailedLoad
    <2>1. /\ phase = "reading" /\ UNCHANGED <<optKey, header, region, chunkIndex>>
          /\ UNCHANGED root \/ BodyRead
      BY <1>8 DEF FailedLoad, NeedsChunk
    <2>2. CASE UNCHANGED root
      BY <1>3, <2>1, <2>2
    <2>3. CASE BodyRead
      BY <1>6, <2>1, <2>3 DEF AcceptedChunksAuthentic, LeafOf
    <2>. QED
      BY <2>1, <2>2, <2>3
  <1>. QED
    BY <1>2, <1>4, <1>5, <1>7, <1>8, StepKinds, Zenon DEF NewDecoder

LEMMA StepInv == DecoderInv /\ [Next]_vars => DecoderInv'
  BY StepTypes, PhasesStep, HashStep, TotalStep, CountsStep, PositionStep, FinalStep,
     AuthenticStep, Zenon DEF DecoderInv

LEMMA InvHolds == Spec => []DecoderInv
  BY InitInv, StepInv, PTL DEF Spec

-----------------------------------------------------------------------------
(* The theorems.                                                           *)

(* When the footer has been verified, exactly ChunkCount chunks holding    *)
(* TotalSize bytes were accepted and the source holds nothing more, however *)
(* the stream, the header's counts and the caps are chosen.                *)
THEOREM Whole == Spec => []FinalizedIsWhole
  BY InvHolds, PTL DEF DecoderInv

(* No byte of an encrypted container is accepted before its chunk has      *)
(* opened under the caller's key at its own index.                         *)
THEOREM Authenticated == Spec => []AcceptedChunksAuthentic
  BY InvHolds, PTL DEF DecoderInv

(* The running uint64 total is the true total, whatever its width.         *)
THEOREM TotalExact == Spec => []TotalNeverWraps
  BY InvHolds, PTL DEF DecoderInv

(* The caps bound the cells read, held and released, whatever the length   *)
(* fields of the stream say.                                               *)
THEOREM Bounded == Spec => []WorkIsBounded
  <1>1. DecoderInv => WorkIsBounded
    <2>. HAVE DecoderInv
    <2>. DEFINE total == Len(delivered) + Len(pending)
    <2>1. TypeOK /\ PhasesInv /\ CountsInv /\ PositionInv
      BY DEF DecoderInv
    <2>2. /\ limits.maxChunkCount \in Nat /\ limits.maxTotalSize \in Nat
      BY <2>1, LimitsType
    <2>3. /\ chunkIndex \in Nat /\ total \in Nat
          /\ header.chunkCount \in Nat /\ header.totalSize \in Nat
      <3>1. chunkIndex \in Nat /\ pending \in Seq(Cells) /\ delivered \in Seq(Cells)
        BY <2>1 DEF TypeOK
      <3>2. Len(pending) \in Nat /\ Len(delivered) \in Nat
        BY <3>1, LenProperties
      <3>3. header.chunkCount \in Nat /\ header.totalSize \in Nat
        BY <2>1, WidthAssumption DEF TypeOK, Header
      <3>. QED
        BY <3>1, <3>2, <3>3
    <2>4. CASE Unopened
      <3>1. chunkIndex = 0 /\ Len(pending) = 0 /\ Len(delivered) = 0
        BY <2>1, <2>4, EmptySeq DEF PhasesInv
      <3>. QED
        BY <2>1, <2>2, <3>1 DEF WorkIsBounded, PositionInv, CountsInv
    <2>5. CASE ~Unopened
      <3>1. /\ header.chunkCount <= limits.maxChunkCount
            /\ header.totalSize <= limits.maxTotalSize
            /\ chunkIndex <= header.chunkCount /\ total <= header.totalSize
        BY <2>1, <2>5 DEF CountsInv
      <3>. HIDE DEF total
      <3>2. chunkIndex <= limits.maxChunkCount /\ total <= limits.maxTotalSize
        BY <2>2, <2>3, <3>1
      <3>. QED
        BY <2>1, <3>2 DEF WorkIsBounded, PositionInv, CountsInv, total
    <2>. QED
      BY <2>4, <2>5
  <1>. QED
    BY <1>1, InvHolds, PTL

(* An error is final: nothing is read, released or forgotten after it.     *)
THEOREM ErrorFinal == Spec => ErrorIsFinal
  <1>. DEFINE Kept == terminalErr # NoError =>
                        /\ terminalErr' = terminalErr /\ delivered' = delivered /\ pos' = pos
                        /\ reply' \in {terminalErr, NoError}
  <1>1. DecoderInv /\ [Next]_vars => [Kept]_vars
    <2>. HAVE DecoderInv /\ [Next]_vars
    <2>. SUFFICES ASSUME terminalErr # NoError
                  PROVE  Kept \/ UNCHANGED vars
      BY Zenon
    <2>1. TypeOK /\ PhasesInv
      BY DEF DecoderInv
    <2>2. phase = "open"
      BY <2>1 DEF TypeOK, PhasesInv, Unopened
    <2>3. pending = <<>>
      BY <2>1 DEF PhasesInv
    <2>4. Quiet \/ UNCHANGED vars
      BY <2>1, <2>2, StepKinds, LoadedFacts
      DEF NewDecoderFails, NewDecoderOpens, ReadStarts, ReadReturns, ReadEnds,
          FooterVerified, AtFooter, NeedsChunk, FailedLoad, Terminated, Copied, Ended, EndReply
    <2>. QED
      BY <2>4 DEF Quiet
  <1>. QED
    BY <1>1, InvHolds, PTL DEF Spec, ErrorIsFinal

-----------------------------------------------------------------------------
(* Where an io.EOF comes from.                                             *)

EndInv ==
  /\ reply = EOF => finalized \/ terminalErr = EOF
  /\ terminalErr = EOF => CutAtBlock

LEMMA ErrorCodesAreNotEOF ==
  TypeOK => OpenError # EOF
  <1>1. HeaderError # EOF
    BY DEF HeaderError, ParseHeader, validate, Truncated, BadMagic, UnsupportedVer,
           UnsupportedAlgo, ReservedBits, NoError, EOF
  <1>2. PrefixError(limits.maxMetaBytes) # EOF
    BY <1>1 DEF PrefixError, MetaMalformed, NoError, EOF, RegionLegal
  <1>. QED
    BY <1>2 DEF OpenError, MissingKey, Truncated, NoError, EOF, OverCaps

LEMMA EndStep == DecoderInv /\ EndInv /\ [Next]_vars => EndInv'
  <1>. HAVE DecoderInv /\ EndInv /\ [Next]_vars
  <1>. USE DEF EndInv, sourceVars, openVars, payloadVars, endVars, callerVars
  <1>1. TypeOK /\ PhasesInv /\ CountsInv
    BY DEF DecoderInv
  <1>2. ASSUME UNCHANGED <<stream, tail, header, chunkIndex>>, CutAtBlock
        PROVE  CutAtBlock'
    BY <1>2 DEF CutAtBlock
  <1>3. CASE NewDecoder
    <2>1. UNCHANGED terminalErr /\ terminalErr = NoError /\ reply' = OpenError
      BY <1>1, <1>3 DEF NewDecoder, NewDecoderFails, NewDecoderOpens, PhasesInv, Unopened
    <2>. QED
      BY <1>1, <2>1, ErrorCodesAreNotEOF DEF EOF, NoError
  <1>4. CASE Quiet \/ UNCHANGED vars
    BY <1>2, <1>4 DEF Quiet, vars, EOF, NoError
  <1>5. ASSUME NEW n \in 1..MaxRead, ReadStarts(n) PROVE EndInv'
    BY <1>2, <1>5 DEF ReadStarts, Terminated
  <1>6. CASE ReadReturns \/ ReadEnds
    BY <1>2, <1>6 DEF ReadReturns, ReadEnds, EOF, NoError, Copied, Ended, EndReply
  <1>7. CASE ChunkLoaded
    <2>1. UNCHANGED <<terminalErr, finalized, reply>> /\ terminalErr = NoError
      BY <1>1, <1>7, LoadedFacts DEF PhasesInv
    <2>. QED
      BY <2>1 DEF EOF, NoError
  <1>8. CASE FooterVerified
    BY <1>2, <1>8 DEF FooterVerified
  <1>9. CASE FailedLoad
    <2>1. ASSUME terminalErr' = EOF
          PROVE  CutAtBlock'
      <3>1. /\ tail = EOF /\ chunkIndex # header.chunkCount /\ LengthReadable
            /\ Available - 1 < clen /\ (Available - 1) % Block = 0 /\ phase = "reading"
        BY <1>9, <2>1 DEF FailedLoad, NeedsChunk
      <3>2. chunkIndex <= header.chunkCount /\ chunkIndex \in Nat /\ header.chunkCount \in Nat
        BY <1>1, <3>1, WidthAssumption DEF CountsInv, Unopened, TypeOK, Header
      <3>3. chunkIndex < header.chunkCount
        BY <3>1, <3>2
      <3>. DEFINE p == pos + 1
      <3>4. p \in DOMAIN stream /\ Len(stream) - p = Available - 1
        <4>1. Len(stream) \in Nat /\ pos \in Nat /\ Len(stream) - pos >= 1
          BY <1>1, <3>1, StreamFacts DEF LengthReadable, Available
        <4>2. p \in 1..Len(stream) /\ Len(stream) - p = Len(stream) - pos - 1
          BY <4>1
        <4>3. DOMAIN stream = 1..Len(stream)
          BY <1>1, LenProperties DEF TypeOK
        <4>. QED
          BY <4>2, <4>3 DEF Available
      <3>5. clen = U32(stream[p])
        BY DEF clen
      <3>6. Len(stream) - p < U32(stream[p]) /\ (Len(stream) - p) % Block = 0
        BY <3>1, <3>4, <3>5, Zenon
      <3>7. CutAtBlock
        BY <3>1, <3>3, <3>4, <3>6, Zenon DEF CutAtBlock
      <3>. QED
        BY <1>2, <1>9, <3>7 DEF FailedLoad
    <2>. QED
      BY <1>9, <2>1 DEF FailedLoad
  <1>. QED
    BY <1>1, <1>3, <1>4, <1>5, <1>6, <1>7, <1>8, <1>9, StepKinds, Zenon DEF NewDecoder

(* An io.EOF from Read means that the footer was verified or that the      *)
(* stream was cut inside a body at a block of readIncrementally: the one   *)
(* way a truncated container ends like a whole one.                        *)
THEOREM EndExplained == Spec => []CleanEndIsExplained
  <1>1. Init => EndInv
    BY DEF Init, EndInv, NoError, EOF
  <1>2. EndInv => CleanEndIsExplained
    BY DEF EndInv, CleanEndIsExplained
  <1>. QED
    BY <1>1, <1>2, EndStep, InvHolds, PTL DEF Spec

-----------------------------------------------------------------------------
(* The refinement.  First, NewDecoder and decodeBytes agree on the prefix. *)

LEMMA RegionsAgree ==
  ASSUME TypeOK, Len(stream) >= 1, NEW cap \in Nat
  PROVE  /\ RegionLegal(cap) <=> parse_metadata(stream, cap).ok
         /\ RegionLegal(cap) => parse_metadata(stream, cap) = ParseMetadata(Region)
  <1>. DEFINE n == U32(stream[2])
  <1>1. Len(stream) \in Nat /\ cap \in Nat /\ stream \in Seq(Cells)
    BY StreamFacts DEF TypeOK
  <1>2. ~Malformed.ok
    BY DEF Malformed
  <1>3. CASE Len(stream) < 2
    BY <1>1, <1>2, <1>3 DEF RegionLegal, RegionReadable, parse_metadata
  <1>4. CASE Len(stream) >= 2
    <2>1. stream[2] \in Cells /\ n \in Nat
      <3>1. 2 \in 1..Len(stream)
        BY <1>1, <1>4
      <3>. QED
        BY <3>1, StreamFacts, CellFacts
    <2>2. CASE n > cap \/ n > Len(stream) - 2
      BY <1>1, <1>2, <1>4, <2>1, <2>2 DEF RegionLegal, RegionReadable, parse_metadata
    <2>3. CASE n <= cap /\ n <= Len(stream) - 2 /\ n # 0
      <3>1. RegionReadable(cap)
        BY <1>1, <1>4, <2>1, <2>3 DEF RegionReadable
      <3>2. parse_metadata(stream, cap) = ParseMetadata(Region)
        BY <1>1, <1>4, <2>1, <2>3 DEF parse_metadata, Region
      <3>. QED
        BY <2>1, <2>3, <3>1, <3>2 DEF RegionLegal
    <2>4. CASE n <= cap /\ n <= Len(stream) - 2 /\ n = 0
      <3>1. Region = SubSeq(stream, 2, 2)
        BY <2>4 DEF Region
      <3>2. Len(Region) = 1 /\ Region[1] = stream[2]
        <4>1. 2 \in Nat /\ 2 >= 1 /\ 2 <= Len(stream)
          BY <1>4
        <4>2. Len(SubSeq(stream, 2, 2)) = 1 /\ SubSeq(stream, 2, 2)[1] = stream[2]
          BY <1>1, <4>1, PartOf
        <4>. QED
          BY <3>1, <4>2
      <3>3. ParseMetadata(Region) = Malformed
        BY <2>4, <3>2 DEF ParseMetadata
      <3>4. parse_metadata(stream, cap) = Malformed
        BY <1>4, <2>4 DEF parse_metadata
      <3>. QED
        BY <1>2, <3>3, <3>4 DEF RegionLegal
    <2>. QED
      BY <1>1, <2>1, <2>2, <2>3, <2>4
  <1>. QED
    BY <1>1, <1>3, <1>4

LEMMA PrefixesAgree ==
  TypeOK => /\ \A cap \in Nat : PrefixError(cap) = inspectError(stream, cap)
            /\ OpenError = PreambleError(stream, optKey, limits)
  <1>. HAVE TypeOK
  <1>1. Len(stream) \in Nat /\ (stream # <<>> => Len(stream) >= 1) /\ stream \in Seq(Cells)
    BY EmptySeq, StreamFacts DEF TypeOK
  <1>2. \A cap \in Nat : PrefixError(cap) = inspectError(stream, cap)
    BY <1>1, RegionsAgree DEF PrefixError, HeaderError, inspectError, Truncated, NoError
  <1>3. limits.maxMetaBytes \in Nat
    BY LimitsType
  <1>. QED
    BY <1>2, <1>3 DEF OpenError, PreambleError, OverCaps

LEMMA OpenedFacts ==
  TypeOK /\ OpenError = NoError =>
    /\ MetaEnd(stream) \in 1..Len(stream) /\ PrefixEnd(limits.maxMetaBytes) = MetaEnd(stream)
    /\ RegionOf(stream) \in Seq(Cells)
    /\ RegionOf(stream) = IF stream[1].h.hasMetadata THEN Region ELSE <<>>
    /\ stream[1].h.chunkCount \in Nat /\ stream[1].h.totalSize \in 0..MaxU64
  <1>. HAVE TypeOK /\ OpenError = NoError
  <1>1. /\ Len(stream) >= 1 /\ Len(stream) \in Nat /\ stream \in Seq(Cells)
        /\ stream[1].h \in Header
        /\ stream[1].h.hasMetadata => RegionReadable(limits.maxMetaBytes) /\ Region \in Seq(Cells)
    BY PrefixFacts, StreamFacts DEF TypeOK
  <1>2. stream[1].h.chunkCount \in Nat /\ stream[1].h.totalSize \in 0..MaxU64
    BY <1>1, WidthAssumption DEF Header
  <1>3. HeaderError = NoError
    BY DEF OpenError, PrefixError, NoError, Truncated, MissingKey
  <1>4. CASE stream[1].h.hasMetadata
    <2>1. Len(stream) >= 2 /\ U32(stream[2]) <= limits.maxMetaBytes /\ 2 + U32(stream[2]) <= Len(stream)
      BY <1>1, <1>4 DEF RegionReadable
    <2>2. U32(stream[2]) \in Nat /\ limits.maxMetaBytes \in Nat
      <3>1. 2 \in 1..Len(stream)
        BY <1>1, <2>1
      <3>. QED
        BY <3>1, StreamFacts, CellFacts, LimitsType
    <2>. DEFINE n == U32(stream[2])
                l == Len(stream)
                c == limits.maxMetaBytes
    <2>3. RegionEnd(c) = IF l < 2 \/ n > c THEN Lesser(2, l) ELSE Lesser(2 + n, l)
      BY DEF RegionEnd
    <2>4. MetaEnd(stream) = 2 + n /\ PrefixEnd(c) = RegionEnd(c)
      BY <1>3, <1>4 DEF MetaEnd, PrefixEnd
    <2>5. l \in Nat /\ n \in Nat /\ c \in Nat /\ l >= 2 /\ n <= c /\ 2 + n <= l
      BY <1>1, <2>1, <2>2
    <2>6. RegionOf(stream) = Region
      BY <2>4 DEF RegionOf, Region
    <2>. HIDE DEF n, l, c
    <2>7. MetaEnd(stream) \in 1..l /\ PrefixEnd(c) = MetaEnd(stream)
      BY <2>3, <2>4, <2>5 DEF Lesser
    <2>. QED
      BY <1>1, <1>2, <1>4, <2>6, <2>7 DEF l, c
  <1>5. CASE ~stream[1].h.hasMetadata
    <2>1. MetaEnd(stream) = 1 /\ PrefixEnd(limits.maxMetaBytes) = Lesser(1, Len(stream))
      BY <1>5 DEF MetaEnd, PrefixEnd
    <2>2. Lesser(1, Len(stream)) = 1
      BY <1>1 DEF Lesser
    <2>3. RegionOf(stream) = <<>>
      BY <1>1, <2>1 DEF RegionOf
    <2>. QED
      BY <1>1, <1>2, <1>5, <2>1, <2>2, <2>3, EmptySeq
  <1>. QED
    BY <1>4, <1>5

-----------------------------------------------------------------------------
(* Then, the chunk loop: the decoder stands where the loop of decodeBytes  *)
(* does after the same number of chunks.                                   *)

decoded == decodeBytes(stream, optKey, limits)

Turned == AfterTurns(stream, optKey, limits, chunkIndex)

TurnError == ChunkError(stream, optKey, limits, chunkIndex, Turned.offset, Len(Turned.plain))

LEMMA LoopFacts ==
  ASSUME TypeOK, OpenError = NoError
  PROVE  /\ PreambleError(stream, optKey, limits) = NoError
         /\ chunkIndex \in Nat /\ stream[1].h.chunkCount \in Nat
         /\ stream \in Seq(Cells) /\ MetaEnd(stream) \in 0..Len(stream)
         /\ TurnShape(stream, Turned)
         /\ Walk(stream, optKey, limits)
              = AfterTurns(stream, optKey, limits, stream[1].h.chunkCount)
         /\ AfterTurns(stream, optKey, limits, chunkIndex + 1)
              = Turn(stream, optKey, limits, Turned, chunkIndex)
  <1>1. /\ PreambleError(stream, optKey, limits) = NoError
        /\ chunkIndex \in Nat /\ stream[1].h.chunkCount \in Nat /\ stream \in Seq(Cells)
    BY PrefixesAgree, OpenedFacts DEF TypeOK
  <1>2. MetaEnd(stream) \in 0..Len(stream)
    BY OpenedFacts, StreamFacts
  <1>3. TurnShape(stream, Turned)
    BY <1>1, <1>2, TurnsShaped DEF Turned
  <1>4. Walk(stream, optKey, limits)
          = AfterTurns(stream, optKey, limits, stream[1].h.chunkCount)
    BY WalkIsAfterTurns
  <1>5. AfterTurns(stream, optKey, limits, chunkIndex + 1)
          = Turn(stream, optKey, limits, Turned, chunkIndex)
    BY <1>1, AfterTurnsValues DEF Turned
  <1>. QED
    BY <1>1, <1>2, <1>3, <1>4, <1>5

LEMMA DecodedBegins ==
  ASSUME TypeOK, OpenError = NoError, chunkIndex <= stream[1].h.chunkCount
  PROVE  Begins(Turned.plain, decoded.plain, Cells)
  <1>1. decoded.plain = AfterTurns(stream, optKey, limits, stream[1].h.chunkCount).plain
    BY LoopFacts, DecodedChunks DEF decoded
  <1>2. Begins(Turned.plain, AfterTurns(stream, optKey, limits, stream[1].h.chunkCount).plain, Cells)
    BY LoopFacts, TurnsBegin DEF Turned
  <1>. QED
    BY <1>1, <1>2

(* A chunk the loop refuses is the end of it.                              *)
LEMMA DecodedStops ==
  ASSUME TypeOK, OpenError = NoError, chunkIndex < stream[1].h.chunkCount,
         Turned.err = NoError, TurnError # NoError
  PROVE  decoded.err = TurnError /\ decoded.inBody = CutInBody(stream, limits, Turned.offset)
  <1>. DEFINE next == AfterTurns(stream, optKey, limits, chunkIndex + 1)
              last == AfterTurns(stream, optKey, limits, stream[1].h.chunkCount)
  <1>1. next = [Turned EXCEPT !.err = TurnError, !.inBody = CutInBody(stream, limits, Turned.offset)]
    BY LoopFacts DEF Turn, TurnError
  <1>2. next.err = TurnError /\ next.inBody = CutInBody(stream, limits, Turned.offset)
    BY <1>1, LoopFacts DEF TurnShape
  <1>3. /\ chunkIndex + 1 \in Nat /\ stream[1].h.chunkCount \in Nat
        /\ chunkIndex + 1 <= stream[1].h.chunkCount
    BY LoopFacts
  <1>4. last = next
    BY <1>2, <1>3, ErrorsStay
  <1>5. decoded.err = last.err /\ decoded.inBody = last.inBody
    BY <1>2, <1>4, LoopFacts, DecodedChunks DEF decoded
  <1>. QED
    BY <1>2, <1>4, <1>5

(* After the last chunk, the footer decides.                               *)
LEMMA DecodedEnds ==
  ASSUME TypeOK, OpenError = NoError, chunkIndex = stream[1].h.chunkCount, Turned.err = NoError
  PROVE  decoded.err = EndError(stream, optKey, Turned) /\ decoded.plain = Turned.plain
  BY LoopFacts, DecodedChunks DEF decoded, Turned

-----------------------------------------------------------------------------
(* The invariant that ties the two.                                        *)

Follows ==
  /\ OpenError = NoError
  /\ header = stream[1].h /\ region = RegionOf(stream)
  /\ Turned.err = NoError
  /\ Turned.plain = delivered \o pending
  /\ ~finalized => Turned.offset = pos
  /\ root.input = <<stream[1]>> \o region \o Turned.leaves
  /\ root.key = IF header.encrypted THEN rootKey(optKey, header.baseNonce) ELSE NoKey

FollowInv ==
  /\ finalized => pending = <<>>
  /\ phase = "reading" => want \in 1..MaxRead
  /\ ~Unopened /\ terminalErr = NoError => Follows

(* What loadChunk finds wrong with a chunk, in the order of its checks.    *)
LoadError ==
  IF ~LengthReadable \/ Available - 1 < clen THEN Truncated
  ELSE IF ~Authentic THEN ChunkAuth
  ELSE IF plainTotal + Len(PlainOf(Body)) > header.totalSize THEN RootMismatch
  ELSE NoError

LEMMA ChunkErrorsAgree ==
  ASSUME TypeOK, PhasesInv, TotalNeverWraps, Follows, Loading
  PROVE  /\ TurnError = LoadError
         /\ LengthReadable /\ Available - 1 < clen => CutInBody(stream, limits, Turned.offset)
  <1>. DEFINE l == Len(stream)
              c == U32(stream[pos + 1])
              cap == limits.maxChunkLen
              body == SubSeq(stream, pos + 2, pos + 1 + c)
              h == stream[1].h
              tag == IF h.encrypted THEN TagLen ELSE 0
  <1>1. /\ pending = <<>> /\ ~finalized /\ terminalErr = NoError /\ phase = "reading"
    BY DEF Loading, NeedsChunk, PhasesInv
  <1>2. Turned.offset = pos /\ header = h /\ HeaderCell(header) = stream[1]
        /\ region = RegionOf(stream)
    BY <1>1, PrefixFacts DEF Follows
  <1>3. /\ Len(Turned.plain) = plainTotal /\ plainTotal \in Nat
    <2>1. delivered \in Seq(Cells) /\ Len(pending) = 0 /\ plainTotal \in Nat
      BY <1>1 DEF TypeOK
    <2>2. delivered \o pending = delivered
      BY <1>1, <2>1, ConcatEmptySeq
    <2>3. plainTotal = Len(delivered) + Len(pending)
      BY <1>1 DEF TotalNeverWraps
    <2>4. Len(delivered) \in Nat
      BY <2>1, LenProperties
    <2>5. plainTotal = Len(delivered)
      BY <2>1, <2>3, <2>4
    <2>. QED
      BY <2>1, <2>2, <2>5 DEF Follows
  <1>4. l \in Nat /\ pos \in Nat /\ cap \in Nat /\ (l - pos >= 1 => c \in Nat)
    <2>1. l \in Nat /\ pos \in Nat /\ cap \in Nat
      BY StreamFacts, LimitsType
    <2>2. ASSUME l - pos >= 1 PROVE c \in Nat
      <3>1. pos + 1 \in 1..l
        BY <2>1, <2>2
      <3>. QED
        BY <3>1, StreamFacts, CellFacts
    <2>. QED
      BY <2>1, <2>2
  <1>5. /\ LengthReadable <=> l - pos >= 1 /\ c <= cap
        /\ Available = l - pos /\ clen = c /\ Body = body
    BY DEF LengthReadable, Available, clen, Body
  <1>6. Authentic <=> (h.encrypted => Opens(optKey, h.baseNonce, stream[1], RegionOf(stream), chunkIndex, body))
    BY <1>2, <1>5 DEF Authentic
  <1>7. TurnError = IF l - pos < 1 THEN Truncated
                    ELSE IF c > cap \/ c > l - pos - 1 THEN Truncated
                    ELSE IF ~Authentic THEN ChunkAuth
                    ELSE IF plainTotal + Len(body) - tag > h.totalSize THEN RootMismatch
                    ELSE NoError
    <2>1. TurnError = ChunkError(stream, optKey, limits, chunkIndex, pos, plainTotal)
      BY <1>2, <1>3 DEF TurnError
    <2>. HIDE DEF TurnError, Authentic
    <2>. QED
      BY <1>6, <2>1 DEF ChunkError
  <1>8. ASSUME l - pos >= 1, c <= cap, l - pos - 1 >= c, Authentic
        PROVE  plainTotal + Len(body) - tag = plainTotal + Len(PlainOf(Body))
    <2>1. Body \in Seq(Cells) /\ Len(Body) = c
      BY <1>5, <1>8, BodyFacts
    <2>2. c \in Nat
      BY <1>4, <1>8
    <2>3. Len(PlainOf(Body)) = c - tag
      <3>1. CASE h.encrypted
        <4>1. Len(Body) >= TagLen
          BY <1>2, <1>8, <3>1 DEF Authentic, Opens
        <4>. QED
          BY <1>2, <2>1, <3>1, <4>1, OpenedChunk DEF PlainOf
      <3>2. CASE ~h.encrypted
        BY <1>2, <2>1, <2>2, <3>2 DEF PlainOf
      <3>. QED
        BY <3>1, <3>2
    <2>4. tag \in Nat
      BY DEF TagLen
    <2>. HIDE DEF tag
    <2>. QED
      BY <1>3, <1>5, <2>1, <2>2, <2>3, <2>4
  <1>9. ASSUME l - pos >= 1, c <= cap, c > l - pos - 1
        PROVE  CutInBody(stream, limits, Turned.offset)
    BY <1>2, <1>9 DEF CutInBody
  <1>. HIDE DEF l, c, cap, body, h, tag
  <1>10. header.totalSize = h.totalSize
    BY <1>2
  <1>11. TurnError = LoadError
    BY <1>4, <1>5, <1>7, <1>8, <1>10 DEF LoadError
  <1>12. LengthReadable /\ Available - 1 < clen => CutInBody(stream, limits, Turned.offset)
    BY <1>4, <1>5, <1>9
  <1>. QED
    BY <1>11, <1>12

LEMMA FootersAgree ==
  ASSUME TypeOK, PhasesInv, CountsInv, TotalNeverWraps, Follows, AtFooter
  PROVE  /\ decoded.plain = delivered
         /\ tail = EOF => decoded.err = FooterError
         /\ FooterError = NoError => decoded.err = NoError
  <1>. DEFINE l == Len(stream)
  <1>1. /\ pending = <<>> /\ ~finalized /\ terminalErr = NoError /\ phase = "reading"
        /\ chunkIndex = header.chunkCount
    BY DEF AtFooter, NeedsChunk, PhasesInv
  <1>. DEFINE cell == RootCell(IF stream[1].h.encrypted
                               THEN rootKey(optKey, stream[1].h.baseNonce) ELSE NoKey,
                               <<stream[1]>> \o RegionOf(stream) \o Turned.leaves)
  <1>2. /\ Turned.offset = pos /\ header = stream[1].h
        /\ cell = RootCell(root.key, root.input)
    <2>. HIDE DEF Turned
    <2>1. /\ Turned.offset = pos /\ header = stream[1].h /\ region = RegionOf(stream)
          /\ root.key = IF header.encrypted THEN rootKey(optKey, header.baseNonce) ELSE NoKey
          /\ root.input = <<stream[1]>> \o region \o Turned.leaves
      BY <1>1, Zenon DEF Follows
    <2>. QED
      BY <2>1
  <1>3. Turned.plain = delivered /\ Len(delivered) = plainTotal
    <2>1. delivered \in Seq(Cells) /\ Len(pending) = 0
      BY <1>1 DEF TypeOK
    <2>2. delivered \o pending = delivered
      BY <1>1, <2>1, ConcatEmptySeq
    <2>3. plainTotal = Len(delivered) + Len(pending)
      BY <1>1 DEF TotalNeverWraps
    <2>4. Len(delivered) \in Nat
      BY <2>1, LenProperties
    <2>. QED
      BY <2>1, <2>2, <2>3, <2>4 DEF Follows
  <1>4. decoded.err = EndError(stream, optKey, Turned) /\ decoded.plain = delivered
    BY <1>1, <1>2, <1>3, DecodedEnds DEF Follows
  <1>. DEFINE end == IF l - pos < 2 THEN Truncated
                     ELSE IF stream[pos + 2] # MagicEnd THEN Truncated
                     ELSE IF plainTotal # header.totalSize
                             \/ stream[pos + 1] # RootCell(root.key, root.input) THEN RootMismatch
                     ELSE IF l - pos # 2 THEN TrailingData
                     ELSE NoError
  <1>5. EndError(stream, optKey, Turned) = end
    <2>1. EndError(stream, optKey, Turned)
            = IF l - Turned.offset < 2 THEN Truncated
              ELSE IF stream[Turned.offset + 2] # MagicEnd THEN Truncated
              ELSE IF Len(Turned.plain) # stream[1].h.totalSize
                      \/ stream[Turned.offset + 1] # cell THEN RootMismatch
              ELSE IF l - Turned.offset # 2 THEN TrailingData
              ELSE NoError
      BY DEF EndError
    <2>. HIDE DEF cell, l
    <2>. QED
      BY <1>2, <1>3, <2>1
  <1>6. FooterError = IF l - pos < 2 \/ stream[pos + 2] # MagicEnd THEN Truncated
                      ELSE IF plainTotal # header.totalSize
                              \/ stream[pos + 1] # RootCell(root.key, root.input) THEN RootMismatch
                      ELSE IF l - pos > 2 THEN TrailingData
                      ELSE IF tail # EOF THEN Truncated
                      ELSE NoError
    <2>1. l \in Nat /\ pos \in Nat
      BY StreamFacts
    <2>2. (Available >= 2 <=> ~(l - pos < 2)) /\ Available = l - pos
      BY <2>1 DEF Available
    <2>. HIDE DEF l
    <2>. QED
      BY <2>2 DEF FooterError, FooterFramed, RootMatches, HasTrailing
  <1>7. l \in Nat /\ pos \in Nat
    BY StreamFacts
  <1>. HIDE DEF l
  <1>8. tail = EOF => end = FooterError
    BY <1>6, <1>7
  <1>9. FooterError = NoError => end = NoError
    BY <1>6, <1>7 DEF Truncated, RootMismatch, TrailingData, NoError
  <1>. QED
    BY <1>4, <1>5, <1>8, <1>9

LEMMA FollowsKept ==
  ASSUME Follows,
         UNCHANGED <<stream, tail, optKey, options, header, region, root, chunkIndex>>,
         delivered' \o pending' = delivered \o pending,
         ~finalized' => ~finalized /\ pos' = pos
  PROVE  Follows'
  <1>1. limits' = limits /\ OpenError' = OpenError
    BY DEF limits, OpenError, PrefixError, HeaderError, RegionLegal, RegionReadable, Region, OverCaps
  <1>2. Turned' = Turned
    BY <1>1 DEF Turned
  <1>. HIDE DEF Turned
  <1>. QED
    BY <1>1, <1>2 DEF Follows

LEMMA FollowsLoaded ==
  ASSUME TypeOK, PhasesInv, CountsInv, TotalNeverWraps, Follows, ChunkLoaded
  PROVE  Follows'
  <1>1. BodyRead /\ Authentic /\ Loading /\ LengthReadable /\ Available - 1 >= clen
    BY DEF ChunkLoaded, BodyRead
  <1>2. /\ pos' = pos + 1 + clen /\ chunkIndex' = chunkIndex + 1
        /\ pending = <<>> /\ ~finalized /\ plainTotal' = plainTotal + Len(pending')
        /\ plainTotal' <= header.totalSize
        /\ UNCHANGED <<stream, tail, optKey, options, header, region, delivered>>
        /\ pending' = PlainOf(Body) /\ finalized' = finalized
    BY LoadedFacts DEF ChunkLoaded
  <1>3. limits' = limits /\ OpenError' = OpenError
    BY <1>2 DEF limits, OpenError, PrefixError, HeaderError, RegionLegal, RegionReadable, Region, OverCaps
  <1>4. TurnError = NoError
    <2>1. TurnError = LoadError
      BY <1>1, ChunkErrorsAgree
    <2>2. clen \in Nat /\ Available \in Nat
      BY <1>1, BodyFacts, StreamFacts
    <2>3. ~(Available - 1 < clen)
      BY <1>1, <2>2
    <2>4. plainTotal \in Nat /\ header.totalSize \in Nat
      BY WidthAssumption DEF TypeOK, Header
    <2>5. Len(PlainOf(Body)) \in Nat
      BY <1>1, PlainFacts
    <2>6. ~(plainTotal + Len(PlainOf(Body)) > header.totalSize)
      BY <1>2, <2>4, <2>5
    <2>. QED
      BY <1>1, <2>1, <2>3, <2>6 DEF LoadError
  <1>5. /\ OpenError = NoError /\ header = stream[1].h /\ region = RegionOf(stream)
        /\ Turned.err = NoError /\ Turned.plain = delivered \o pending /\ Turned.offset = pos
        /\ root.input = <<stream[1]>> \o region \o Turned.leaves
        /\ root.key = IF header.encrypted THEN rootKey(optKey, header.baseNonce) ELSE NoKey
    BY <1>2 DEF Follows
  <1>6. TakesChunk(stream, optKey, limits, chunkIndex, Turned)
    <2>1. stream \in Seq(Cells) /\ TurnShape(stream, Turned)
      BY <1>5, LoopFacts
    <2>2. ChunkError(stream, optKey, limits, chunkIndex, Turned.offset, Len(Turned.plain)) = NoError
      BY <1>4 DEF TurnError
    <2>. QED
      BY <1>5, <2>1, <2>2, GoodTurn, Zenon
  <1>7. TurnBody(stream, pos) = Body /\ TurnOpened(stream, pos) = PlainOf(Body)
        /\ U32(stream[pos + 1]) = clen
    BY <1>5 DEF TurnBody, TurnOpened, Body, PlainOf, clen
  <1>8. Turned' = Turn(stream, optKey, limits, Turned, chunkIndex)
    <2>1. Turned' = AfterTurns(stream, optKey, limits, chunkIndex + 1)
      BY <1>2, <1>3 DEF Turned
    <2>. QED
      BY <1>5, <2>1, LoopFacts
  <1>9. /\ Turned'.err = NoError /\ Turned'.offset = pos + 1 + clen
        /\ Turned'.plain = Turned.plain \o PlainOf(Body)
        /\ Turned'.leaves = Append(Turned.leaves, Leaf(Body))
    BY <1>5, <1>6, <1>7, <1>8 DEF TakesChunk
  <1>. HIDE DEF Turned
  <1>10. delivered \o pending = delivered
    BY <1>2, ConcatEmptySeq DEF TypeOK
  <1>11. Turned'.plain = delivered' \o pending'
    BY <1>2, <1>5, <1>9, <1>10
  <1>12. root'.input = Append(root.input, Leaf(Body)) /\ root'.key = root.key
    BY <1>1, BodyReadTypes
  <1>13. root'.input = <<stream[1]>> \o region \o Turned'.leaves
    <2>. DEFINE a == <<stream[1]>> \o region
    <2>1. Cells \subseteq HashInput /\ [t : {"leaf"}, body : Seq(Cells)] \subseteq HashInput
      BY DEF HashInput
    <2>2. Turned.leaves \in Seq([t : {"leaf"}, body : Seq(Cells)])
      BY <1>5, LoopFacts DEF TurnShape
    <2>3. Turned.leaves \in Seq(HashInput)
      BY <2>1, <2>2, SeqMonotonic
    <2>4. region \in Seq(HashInput) /\ <<stream[1]>> \in Seq(HashInput)
      <3>1. stream[1] \in Cells /\ region \in Seq(Cells)
        BY <1>5, PrefixFacts DEF TypeOK
      <3>. QED
        BY <2>1, <3>1, SeqMonotonic
    <2>5. a \in Seq(HashInput)
      BY <2>4, ConcatProperties
    <2>6. Leaf(Body) \in HashInput
      <3>1. Body \in Seq(Cells)
        BY <1>1, BodyFacts
      <3>. QED
        BY <2>1, <3>1 DEF Leaf
    <2>7. \A p \in Seq(HashInput), q \in Seq(HashInput), x \in HashInput :
             Append(p \o q, x) = p \o Append(q, x)
      <3>. SUFFICES ASSUME NEW p \in Seq(HashInput), NEW q \in Seq(HashInput), NEW x \in HashInput
                    PROVE  Append(p \o q, x) = p \o Append(q, x)
        OBVIOUS
      <3>1. <<x>> \in Seq(HashInput) /\ p \o q \in Seq(HashInput)
        BY ConcatProperties
      <3>2. Append(p \o q, x) = (p \o q) \o <<x>> /\ Append(q, x) = q \o <<x>>
        BY <3>1, AppendIsConcat
      <3>. QED
        BY <3>1, <3>2, ConcatAssociative
    <2>8. Append(a \o Turned.leaves, Leaf(Body)) = a \o Append(Turned.leaves, Leaf(Body))
      BY <2>3, <2>5, <2>6, <2>7, Zenon
    <2>. HIDE DEF a
    <2>9. root.input = a \o Turned.leaves
      BY <1>5, Zenon DEF a
    <2>10. root'.input = a \o Turned'.leaves
      BY <1>9, <1>12, <2>8, <2>9
    <2>. QED
      BY <2>10 DEF a
  <1>. QED
    BY <1>2, <1>3, <1>5, <1>9, <1>11, <1>12, <1>13 DEF Follows

LEMMA FollowsOpened ==
  ASSUME TypeOK, PhasesInv, NewDecoderOpens
  PROVE  Follows'
  <1>1. /\ OpenError = NoError /\ pos' = PrefixEnd(limits.maxMetaBytes) /\ header' = stream[1].h
        /\ region' = IF header'.hasMetadata THEN Region ELSE <<>>
        /\ root'.key = IF header'.encrypted THEN rootKey(optKey, header'.baseNonce) ELSE NoKey
        /\ root'.input = <<stream[1]>> \o region'
        /\ UNCHANGED <<stream, tail, optKey, options, chunkIndex, plainTotal, pending, delivered, finalized>>
        /\ chunkIndex = 0 /\ pending = <<>> /\ delivered = <<>>
    BY DEF NewDecoderOpens, sourceVars, endVars, callerVars, PhasesInv, Unopened
  <1>2. limits' = limits /\ OpenError' = OpenError
    BY <1>1 DEF limits, OpenError, PrefixError, HeaderError, RegionLegal, RegionReadable, Region, OverCaps
  <1>3. Turned' = Start(stream)
    <2>1. Turned' = AfterTurns(stream, optKey, limits, 0)
      BY <1>1, <1>2 DEF Turned
    <2>. QED
      BY <2>1, AfterTurnsValues
  <1>4. pos' = MetaEnd(stream) /\ region' = RegionOf(stream) /\ region' \in Seq(Cells)
    BY <1>1, OpenedFacts
  <1>5. /\ Turned'.err = NoError /\ Turned'.offset = MetaEnd(stream)
        /\ Turned'.plain = <<>> /\ Turned'.leaves = <<>>
    BY <1>3 DEF Start
  <1>. HIDE DEF Turned
  <1>6. delivered' \o pending' = <<>>
    BY <1>1
  <1>7. root'.input = <<stream[1]>> \o region' \o <<>>
    <2>1. <<stream[1]>> \in Seq(Cells) /\ region' \in Seq(Cells)
      BY <1>1, <1>4, PrefixFacts
    <2>2. <<stream[1]>> \o region' \in Seq(Cells)
      BY <2>1, ConcatProperties
    <2>. QED
      BY <1>1, <2>2, ConcatEmptySeq
  <1>. QED
    BY <1>1, <1>2, <1>4, <1>5, <1>6, <1>7 DEF Follows

LEMMA FollowInit == Init => FollowInv
  BY DEF Init, FollowInv, Unopened

LEMMA FollowStep == DecoderInv /\ FollowInv /\ [Next]_vars => FollowInv'
  <1>. HAVE DecoderInv /\ FollowInv /\ [Next]_vars
  <1>0. TypeOK /\ PhasesInv /\ CountsInv /\ TotalNeverWraps /\ TypeOK'
    BY StepTypes DEF DecoderInv
  <1>. USE DEF sourceVars, openVars, payloadVars, endVars, callerVars
  <1>1. CASE NewDecoderFails
    BY <1>0, <1>1 DEF NewDecoderFails, FollowInv, Unopened, PhasesInv
  <1>2. CASE NewDecoderOpens
    <2>1. Follows'
      BY <1>0, <1>2, FollowsOpened
    <2>. QED
      BY <1>0, <1>2, <2>1 DEF NewDecoderOpens, FollowInv, Unopened, PhasesInv
  <1>3. CASE Quiet \/ UNCHANGED vars
    <2>1. UNCHANGED <<stream, tail, optKey, options, pos, phase, header, region, root,
                      chunkIndex, pending, terminalErr, finalized, want, delivered>>
      BY <1>3 DEF Quiet, vars
    <2>2. Follows => Follows'
      BY <2>1, FollowsKept
    <2>. QED
      BY <2>1, <2>2 DEF FollowInv, Unopened
  <1>4. ASSUME NEW n \in 1..MaxRead, ReadStarts(n) PROVE FollowInv'
    <2>1. /\ UNCHANGED <<stream, tail, optKey, options, pos, header, region, root,
                         chunkIndex, pending, terminalErr, finalized, delivered>>
          /\ phase = "open" /\ phase' = "reading" /\ want' = n
      BY <1>4 DEF ReadStarts
    <2>2. Follows => Follows'
      BY <2>1, FollowsKept
    <2>. QED
      BY <2>1, <2>2 DEF FollowInv, Unopened
  <1>5. CASE ReadReturns
    <2>1. /\ UNCHANGED <<stream, tail, optKey, options, pos, header, region, root,
                         chunkIndex, terminalErr, finalized>>
          /\ phase = "reading" /\ phase' = "open" /\ pending # <<>>
          /\ delivered' = delivered \o SubSeq(pending, 1, Copied)
          /\ pending' = SubSeq(pending, Copied + 1, Len(pending))
      BY <1>5 DEF ReadReturns
    <2>2. delivered' \o pending' = delivered \o pending
      <3>. DEFINE n == Copied
                  a == SubSeq(pending, 1, n)
                  b == SubSeq(pending, n + 1, Len(pending))
      <3>1. Len(pending) \in Nat /\ want \in Nat /\ pending \in Seq(Cells) /\ delivered \in Seq(Cells)
        BY <1>0, LenProperties, DecoderAssumption DEF TypeOK
      <3>2. n \in 0..Len(pending)
        BY <3>1 DEF Copied, Lesser
      <3>. HIDE DEF n
      <3>3. a \in Seq(Cells) /\ b \in Seq(Cells)
        BY <3>1, <3>2, PendingSplits
      <3>4. a \o b = pending
        <4>1. 1 \in 1..Len(pending) + 1 /\ n \in 1 - 1..Len(pending) /\ Len(pending) \in n..Len(pending)
          BY <3>1, <3>2
        <4>2. a \o b = SubSeq(pending, 1, Len(pending))
          BY <3>1, <4>1, ConcatAdjacentSubSeq
        <4>. QED
          BY <3>1, <4>2, SubSeqFull
      <3>. HIDE DEF a, b
      <3>5. (delivered \o a) \o b = delivered \o (a \o b)
        BY <3>1, <3>3, ConcatAssociative
      <3>. QED
        BY <2>1, <3>4, <3>5 DEF a, b, n
    <2>3. Follows => Follows'
      BY <2>1, <2>2, FollowsKept
    <2>4. ~finalized
      BY <2>1 DEF FollowInv
    <2>. QED
      BY <2>1, <2>3, <2>4 DEF FollowInv, Unopened
  <1>6. CASE ReadEnds
    <2>1. /\ UNCHANGED <<stream, tail, optKey, options, pos, header, region, root,
                         chunkIndex, pending, terminalErr, finalized, delivered>>
          /\ phase = "reading" /\ phase' = "open"
      BY <1>6 DEF ReadEnds
    <2>2. Follows => Follows'
      BY <2>1, FollowsKept
    <2>. QED
      BY <2>1, <2>2 DEF FollowInv, Unopened
  <1>7. CASE ChunkLoaded
    <2>1. /\ phase = "reading" /\ phase' = "reading" /\ ~finalized /\ ~finalized'
          /\ UNCHANGED <<want, terminalErr>>
      BY <1>0, <1>7, LoadedFacts
    <2>2. Follows
      BY <1>0, <2>1 DEF FollowInv, Unopened, PhasesInv
    <2>3. Follows'
      BY <1>0, <1>7, <2>2, FollowsLoaded
    <2>. QED
      BY <2>1, <2>3 DEF FollowInv
  <1>8. CASE FooterVerified
    <2>1. /\ UNCHANGED <<stream, tail, optKey, options, phase, header, region, root,
                         chunkIndex, pending, terminalErr, delivered, want>>
          /\ phase = "reading" /\ pending = <<>> /\ finalized'
      BY <1>8 DEF FooterVerified, AtFooter, NeedsChunk
    <2>2. Follows => Follows'
      BY <2>1, FollowsKept
    <2>. QED
      BY <2>1, <2>2 DEF FollowInv, Unopened
  <1>9. CASE FailedLoad
    BY <1>9 DEF FailedLoad, NeedsChunk, FollowInv
  <1>. QED
    BY <1>0, <1>1, <1>2, <1>3, <1>4, <1>5, <1>6, <1>7, <1>8, <1>9, StepKinds, Zenon

-----------------------------------------------------------------------------
(* Each step of the decoder is a step of UbcReader, or a stutter.          *)

LEMMA OpenIsNoError == "open" \notin Errors
  BY DEF Errors, ErrorCode, NoError, EOF, UnexpectedEOF, SourceError, BadMagic, UnsupportedVer,
         UnsupportedAlgo, ReservedBits, Truncated, MetaMalformed, RootMismatch, ChunkAuth,
         MissingKey, TrailingData

(* A failed load keeps the error of decodeBytes, unless a body was cut.    *)
LEMMA FailuresAgree ==
  ASSUME DecoderInv, FollowInv, LoadChunk, FailedLoad, tail = EOF
  PROVE  \/ decoded.inBody /\ decoded.err = Truncated /\ terminalErr' \in {EOF, UnexpectedEOF}
         \/ terminalErr' = decoded.err /\ terminalErr' \in ErrorCode
  <1>0. TypeOK /\ PhasesInv /\ CountsInv /\ TotalNeverWraps
    BY DEF DecoderInv
  <1>1. NeedsChunk /\ phase = "reading" /\ terminalErr = NoError
    BY <1>0 DEF FailedLoad, NeedsChunk, PhasesInv
  <1>2. Follows
    BY <1>1 DEF FollowInv, Unopened
  <1>3. terminalErr' # NoError
    BY DEF FailedLoad
  <1>4. CASE Loading
    <2>1. TurnError = LoadError
      BY <1>0, <1>2, <1>4, ChunkErrorsAgree
    <2>2. chunkIndex < stream[1].h.chunkCount
      <3>1. chunkIndex # header.chunkCount /\ header = stream[1].h /\ chunkIndex <= header.chunkCount
        BY <1>0, <1>1, <1>2, <1>4 DEF Loading, Follows, CountsInv, Unopened
      <3>2. chunkIndex \in Nat /\ header.chunkCount \in Nat
        BY <1>0, WidthAssumption DEF TypeOK, Header
      <3>. QED
        BY <3>1, <3>2
    <2>3. TurnError # NoError => /\ decoded.err = TurnError
                                 /\ decoded.inBody = CutInBody(stream, limits, Turned.offset)
      BY <1>0, <1>2, <2>2, DecodedStops DEF Follows
    <2>4. LoadError # NoError => LoadError \in ErrorCode
      BY DEF LoadError, ErrorCode, NoError, Truncated, ChunkAuth, RootMismatch
    <2>5. SUFFICES ASSUME ~(decoded.inBody /\ decoded.err = Truncated /\ terminalErr' \in {EOF, UnexpectedEOF})
                   PROVE  LoadError # NoError /\ terminalErr' = LoadError
      BY <2>1, <2>3, <2>4
    <2>. HIDE DEF LoadError
    <2>15. CASE ChunkLengthFails
      BY <2>15 DEF ChunkLengthFails, Fails, LoadError, Truncated, NoError
    <2>6. CASE ChunkBodyFails
      <3>1. LengthReadable /\ Available - 1 < clen /\ terminalErr' = IncrementalError(Available - 1)
        BY <2>6 DEF ChunkBodyFails, Fails
      <3>2. CutInBody(stream, limits, Turned.offset)
        BY <1>0, <1>2, <1>4, <3>1, ChunkErrorsAgree
      <3>3. TurnError = Truncated
        BY <2>1, <3>1 DEF LoadError, Truncated, NoError
      <3>4. decoded.err = Truncated /\ decoded.inBody
        BY <2>3, <3>2, <3>3 DEF Truncated, NoError
      <3>5. terminalErr' \in {EOF, UnexpectedEOF}
        BY <3>1 DEF IncrementalError
      <3>. QED
        BY <2>5, <3>4, <3>5
    <2>7. ASSUME BodyRead
          PROVE  LengthReadable /\ ~(Available - 1 < clen)
      <3>1. LengthReadable /\ Available - 1 >= clen
        BY <2>7 DEF BodyRead
      <3>2. clen \in Nat /\ Available \in Nat
        BY <1>0, <3>1, BodyFacts, StreamFacts
      <3>. QED
        BY <3>1, <3>2
    <2>8. CASE ChunkNotAuthentic
      BY <2>7, <2>8 DEF ChunkNotAuthentic, Fails, LoadError, ChunkAuth, NoError
    <2>9. ASSUME BodyRead, Authentic
          PROVE  /\ plainTotal \in Nat /\ Len(PlainOf(Body)) \in Nat
                 /\ header.totalSize \in 0..MaxU64 /\ MaxU64 \in Nat
      BY <1>0, <2>9, PlainFacts, WidthAssumption DEF BodyRead, TypeOK, Header
    <2>10. ASSUME BodyRead, Authentic, plainTotal + Len(PlainOf(Body)) > header.totalSize
           PROVE  LoadError = RootMismatch
      BY <2>7, <2>10 DEF LoadError
    <2>11. CASE ChunkOverflows
      <3>1. BodyRead /\ Authentic /\ Overflows(Len(PlainOf(Body))) /\ terminalErr' = RootMismatch
        BY <2>11 DEF ChunkOverflows, Fails
      <3>2. plainTotal + Len(PlainOf(Body)) > header.totalSize
        BY <2>9, <3>1 DEF Overflows
      <3>. QED
        BY <2>10, <3>1, <3>2 DEF RootMismatch, NoError
    <2>12. CASE ChunkExceedsTotal
      <3>1. /\ BodyRead /\ Authentic /\ ~Overflows(Len(PlainOf(Body)))
            /\ AddU64(plainTotal, Len(PlainOf(Body))) > header.totalSize
            /\ terminalErr' = RootMismatch
        BY <2>12 DEF ChunkExceedsTotal, Fails
      <3>2. plainTotal + Len(PlainOf(Body)) > header.totalSize
        BY <2>9, <3>1 DEF Overflows, AddU64
      <3>. QED
        BY <2>10, <3>1, <3>2 DEF RootMismatch, NoError
    <2>13. CASE ChunkLoaded
      BY <1>1, <1>3, <2>13, <1>0, LoadedFacts
    <2>14. CASE FooterFails \/ FooterVerified
      BY <1>4, <2>14 DEF FooterFails, FooterVerified, AtFooter, Loading
    <2>. QED
      BY <2>15, <2>6, <2>8, <2>11, <2>12, <2>13, <2>14 DEF LoadChunk
  <1>5. CASE AtFooter
    <2>1. FooterFails \/ FooterVerified
      BY <1>5 DEF LoadChunk, AtFooter, Loading, ChunkLengthFails, ChunkBodyFails, BodyRead,
                  ChunkNotAuthentic, ChunkOverflows, ChunkExceedsTotal, ChunkLoaded
    <2>2. FooterFails
      BY <1>1, <1>3, <2>1 DEF FooterVerified, endVars
    <2>3. decoded.err = FooterError
      BY <1>0, <1>2, <1>5, FootersAgree
    <2>. QED
      BY <2>2, <2>3 DEF FooterFails, Fails, FooterError, ErrorCode, NoError, Truncated, RootMismatch, TrailingData
  <1>. QED
    BY <1>1, <1>4, <1>5 DEF Loading, AtFooter

LEMMA ReaderStarts == Init => Reader!ReaderInit
  BY DEF Init, Reader!ReaderInit, Outcome

LEMMA ReaderSteps ==
  DecoderInv /\ FollowInv /\ [Next]_vars => [Reader!ReaderNext]_(Reader!readerVars)
  <1>. HAVE DecoderInv /\ FollowInv /\ [Next]_vars
  <1>0. TypeOK /\ PhasesInv /\ CountsInv /\ TotalNeverWraps /\ TypeOK'
    BY StepTypes DEF DecoderInv
  <1>. DEFINE input == <<stream, optKey, limits>>
              intact == tail = EOF
  <1>1. UNCHANGED <<input, intact>>
    BY <1>0, SourceFixed
  <1>2. Decoded(input) = decoded
    BY DEF Decoded, decoded
  <1>3. ASSUME UNCHANGED <<delivered, Outcome>>
        PROVE  UNCHANGED Reader!readerVars
    BY <1>1, <1>3 DEF Reader!readerVars, Reader!inputVars
  <1>4. ASSUME Outcome = "open", UNCHANGED delivered,
               Outcome' \in Errors \ {NoError}, tail = EOF => decoded.inBody \/ Outcome' = decoded.err
        PROVE  Reader!ReaderNext
    <2>1. Outcome' # "open" /\ Outcome' # NoError
      BY <1>4, OpenIsNoError
    <2>. HIDE DEF Outcome
    <2>2. CASE tail # EOF
      BY <1>1, <1>4, <2>1, <2>2 DEF Reader!ReaderNext, Reader!SourceFails, Reader!inputVars
    <2>3. CASE tail = EOF
      BY <1>1, <1>2, <1>4, <2>1, <2>3 DEF Reader!ReaderNext, Reader!Finish, Reader!inputVars
    <2>. QED
      BY <2>2, <2>3
  <1>5. ASSUME TypeOK, terminalErr = NoError, ~finalized, phase # "rejected"
        PROVE  Outcome = "open"
    BY <1>5 DEF Outcome
  <1>6. CASE NewDecoderFails
    <2>1. /\ phase = "new" /\ phase' = "rejected" /\ reply' = OpenError /\ OpenError # NoError
          /\ UNCHANGED delivered /\ terminalErr = NoError /\ ~finalized
      BY <1>0, <1>6 DEF NewDecoderFails, callerVars, PhasesInv, Unopened
    <2>2. Outcome = "open" /\ Outcome' = OpenError
      BY <1>5, <1>0, <2>1 DEF Outcome
    <2>3. OpenError \in Errors \ {NoError}
      BY <2>1, ErrorTypes
    <2>4. decoded.err = OpenError
      BY <1>0, <2>1, PrefixesAgree, DecodedPrefix DEF decoded
    <2>. HIDE DEF Outcome
    <2>5. Reader!ReaderNext
      BY <1>4, <2>1, <2>2, <2>3, <2>4
    <2>. QED
      BY <2>5
  <1>7. CASE NewDecoderOpens
    <2>1. UNCHANGED <<delivered, terminalErr, finalized>> /\ phase = "new" /\ phase' = "open"
          /\ terminalErr = NoError /\ ~finalized
      BY <1>0, <1>7 DEF NewDecoderOpens, callerVars, endVars, PhasesInv, Unopened
    <2>2. UNCHANGED Outcome
      BY <2>1 DEF Outcome
    <2>. QED
      BY <1>3, <2>1, <2>2
  <1>8. ASSUME UNCHANGED <<delivered, terminalErr, finalized>>,
               (phase # "rejected" /\ phase' # "rejected") \/ UNCHANGED <<phase, reply>>
        PROVE  UNCHANGED Reader!readerVars
    <2>1. UNCHANGED Outcome
      BY <1>8 DEF Outcome
    <2>. QED
      BY <1>3, <1>8, <2>1
  <1>9. CASE Quiet \/ UNCHANGED vars
    BY <1>8, <1>9 DEF Quiet, vars, callerVars, endVars
  <1>10. ASSUME NEW n \in 1..MaxRead, ReadStarts(n) PROVE UNCHANGED Reader!readerVars
    BY <1>8, <1>10 DEF ReadStarts, endVars
  <1>11. CASE ReadEnds
    BY <1>8, <1>11 DEF ReadEnds, endVars
  <1>12. CASE ChunkLoaded
    BY <1>0, <1>8, <1>12, LoadedFacts
  <1>13. CASE ReadReturns
    <2>1. /\ phase = "reading" /\ phase' = "open" /\ pending # <<>> /\ want \in 1..MaxRead
          /\ terminalErr = NoError /\ UNCHANGED <<terminalErr, finalized>> /\ ~finalized
          /\ delivered' = delivered \o SubSeq(pending, 1, Copied)
      BY <1>0, <1>13 DEF ReadReturns, endVars, PhasesInv, FollowInv
    <2>2. Outcome = "open" /\ Outcome' = "open"
      BY <2>1 DEF Outcome
    <2>3. /\ pending \in Seq(Cells) /\ delivered \in Seq(Cells)
          /\ Len(pending) \in Nat /\ Len(delivered) \in Nat /\ Len(pending) >= 1
      BY <1>0, <2>1, LenProperties, EmptySeq DEF TypeOK
    <2>4. Follows /\ chunkIndex <= header.chunkCount
      BY <1>0, <2>1 DEF FollowInv, Unopened, CountsInv
    <2>5. Begins(delivered \o pending, decoded.plain, Cells)
      BY <1>0, <2>4, DecodedBegins DEF Follows
    <2>. DEFINE n == Copied
                a == SubSeq(pending, 1, n)
    <2>6. n \in 1..Len(pending) /\ n \in 0..Len(pending)
      BY <2>1, <2>3, DecoderAssumption DEF Copied, Lesser
    <2>. HIDE DEF n
    <2>7. a \in Seq(Cells) /\ Begins(delivered \o a, decoded.plain, Cells)
      BY <2>3, <2>5, <2>6, BeginsWithPart
    <2>8. Len(a) = n
      BY <2>3, <2>6
    <2>9. delivered' = delivered \o a
      BY <2>1 DEF n
    <2>. HIDE DEF a
    <2>10. PICK rest \in Seq(Cells) : decoded.plain = delivered' \o rest
      BY <2>7, <2>9 DEF Begins
    <2>11. /\ delivered' \in Seq(Cells) /\ Len(delivered') = Len(delivered) + n
           /\ Len(delivered') \in Nat /\ Len(rest) \in Nat
           /\ Len(decoded.plain) = Len(delivered') + Len(rest)
      <3>1. delivered' \in Seq(Cells) /\ Len(delivered') = Len(delivered) + n
        BY <2>3, <2>7, <2>8, <2>9, ConcatProperties
      <3>2. Len(decoded.plain) = Len(delivered') + Len(rest)
        BY <2>10, <3>1, ConcatProperties
      <3>. QED
        BY <3>1, <3>2, LenProperties
    <2>12. delivered' = SubSeq(decoded.plain, 1, Len(delivered'))
      BY <2>10, <2>11, ConcatProperties
    <2>13. Len(delivered') \in Len(delivered) + 1..Len(decoded.plain)
      BY <2>3, <2>6, <2>11
    <2>. HIDE DEF Outcome
    <2>14. Reader!Release
      BY <1>1, <1>2, <2>2, <2>12, <2>13 DEF Reader!Release, Reader!inputVars
    <2>. QED
      BY <2>14 DEF Reader!ReaderNext
  <1>14. CASE FooterVerified
    <2>1. /\ phase = "reading" /\ AtFooter /\ FooterError = NoError /\ finalized' /\ ~finalized
          /\ terminalErr = NoError /\ UNCHANGED <<phase, terminalErr, delivered>>
      BY <1>0, <1>14 DEF FooterVerified, AtFooter, NeedsChunk, callerVars, PhasesInv
    <2>2. Outcome = "open" /\ Outcome' = NoError
      BY <2>1 DEF Outcome
    <2>3. Follows
      BY <2>1 DEF FollowInv, Unopened
    <2>4. decoded.plain = delivered /\ decoded.err = NoError
      BY <1>0, <2>1, <2>3, FootersAgree
    <2>5. tail = EOF
      BY <2>1 DEF FooterError, NoError, Truncated, RootMismatch, TrailingData, HasTrailing
    <2>. HIDE DEF Outcome
    <2>6. Reader!Finish
      BY <1>1, <1>2, <2>1, <2>2, <2>4, <2>5 DEF Reader!Finish, Reader!inputVars, NoError
    <2>. QED
      BY <2>6 DEF Reader!ReaderNext
  <1>15. CASE FailedLoad /\ ~ChunkLoaded /\ ~FooterVerified
    <2>1. /\ phase = "reading" /\ phase' = "open" /\ ~finalized /\ UNCHANGED <<delivered, finalized>>
          /\ terminalErr = NoError /\ terminalErr' \in Errors \ {NoError}
      BY <1>0, <1>15 DEF FailedLoad, NeedsChunk, PhasesInv
    <2>2. Outcome = "open" /\ Outcome' = terminalErr'
      BY <2>1 DEF Outcome
    <2>3. LoadChunk
      BY <1>15, <2>1
      DEF Next, NewDecoder, NewDecoderFails, NewDecoderOpens, Read, ReadNothing, ReadAgain, ReadStarts,
          ReadReturns, ReadEnds, FailedLoad, NeedsChunk, vars, endVars, Terminated, Ended
    <2>4. tail = EOF => decoded.inBody \/ terminalErr' = decoded.err
      BY <1>15, <2>3, FailuresAgree
    <2>. HIDE DEF Outcome
    <2>5. Reader!ReaderNext
      BY <1>4, <2>1, <2>2, <2>4
    <2>. QED
      BY <2>5
  <1>. QED
    BY <1>0, <1>6, <1>7, <1>9, <1>10, <1>11, <1>12, <1>13, <1>14, <1>15, StepKinds, Zenon

(* The decoder implements UbcReader: whatever the source, the caps, the    *)
(* buffers and the block size, what Read hands out is always a beginning   *)
(* of what decodeBytes accepts, and it ends with decodeBytes' error or,    *)
(* after the whole plaintext, with its clean end; the one exception is the *)
(* error of a chunk body cut short.                                        *)
THEOREM Refines == Spec => ImplementsReader
  <1>1. DecoderInv /\ FollowInv /\ [Next]_vars => [Reader!ReaderNext]_(Reader!readerVars)
    BY ReaderSteps
  <1>. QED
    BY <1>1, ReaderStarts, FollowInit, FollowStep, InvHolds, PTL
    DEF Spec, ImplementsReader, Reader!ReaderSpec

-----------------------------------------------------------------------------
(* The entry points: what a run of the decoder returns is what decodeBytes *)
(* returns, and what Inspect returns is what inspect returns.              *)

LEMMA RunningIsNoError == "running" \notin Errors
  BY DEF Errors, ErrorCode, NoError, EOF, UnexpectedEOF, SourceError, BadMagic, UnsupportedVer,
         UnsupportedAlgo, ReservedBits, Truncated, MetaMalformed, RootMismatch, ChunkAuth,
         MissingKey, TrailingData

(* An accepted prefix ends where its metadata ends, and the metadata is    *)
(* what inspect parses.                                                    *)
LEMMA AcceptedPrefix ==
  ASSUME TypeOK, NEW cap \in Nat, PrefixError(cap) = NoError
  PROVE  /\ PrefixEnd(cap) = MetaEnd(stream)
         /\ stream[1].h.hasMetadata => parse_metadata(stream, cap) = ParseMetadata(Region)
  <1>1. HeaderError = NoError /\ (stream[1].h.hasMetadata => RegionLegal(cap))
    BY DEF PrefixError, NoError, MetaMalformed
  <1>2. stream # <<>>
    BY <1>1 DEF HeaderError, NoError, Truncated
  <1>3. stream \in Seq(Cells) /\ Len(stream) \in Nat /\ Len(stream) >= 1
    BY <1>2, EmptySeq, StreamFacts DEF TypeOK
  <1>4. CASE stream[1].h.hasMetadata
    <2>1. Len(stream) >= 2 /\ U32(stream[2]) <= cap /\ 2 + U32(stream[2]) <= Len(stream)
      BY <1>1, <1>4 DEF RegionLegal, RegionReadable
    <2>2. U32(stream[2]) \in Nat
      <3>1. 2 \in 1..Len(stream)
        BY <1>3, <2>1
      <3>. QED
        BY <3>1, StreamFacts, CellFacts
    <2>. DEFINE n == U32(stream[2])
                l == Len(stream)
    <2>3. MetaEnd(stream) = 2 + n
          /\ PrefixEnd(cap) = IF l < 2 \/ n > cap THEN Lesser(2, l) ELSE Lesser(2 + n, l)
      BY <1>1, <1>4 DEF MetaEnd, PrefixEnd, RegionEnd
    <2>4. l \in Nat /\ n \in Nat /\ l >= 2 /\ n <= cap /\ 2 + n <= l
      BY <1>3, <2>1, <2>2
    <2>. HIDE DEF n, l
    <2>5. PrefixEnd(cap) = MetaEnd(stream)
      BY <2>3, <2>4 DEF Lesser
    <2>. QED
      BY <1>1, <1>3, <1>4, <2>5, RegionsAgree
  <1>5. CASE ~stream[1].h.hasMetadata
    BY <1>3, <1>5 DEF MetaEnd, PrefixEnd, Lesser
  <1>. QED
    BY <1>4, <1>5

LEMMA EntriesAgree ==
  ASSUME TypeOK, OpenError = NoError
  PROVE  decoded.entries = EntriesOf(stream[1].h, RegionOf(stream))
  <1>1. PrefixError(limits.maxMetaBytes) = NoError
    BY DEF OpenError
  <1>2. PreambleError(stream, optKey, limits) = NoError
    BY PrefixesAgree
  <1>3. decoded.entries = IF stream[1].h.hasMetadata
                          THEN parse_metadata(stream, limits.maxMetaBytes).entries ELSE <<>>
    BY <1>2 DEF decoded, decodeBytes, Result
  <1>4. stream[1].h.hasMetadata =>
          parse_metadata(stream, limits.maxMetaBytes) = ParseMetadata(RegionOf(stream))
    BY <1>1, LimitsType, OpenedFacts, AcceptedPrefix
  <1>. QED
    BY <1>3, <1>4 DEF EntriesOf

(* What a decoder that has verified its footer has in common with the      *)
(* one-shot one.                                                           *)
Verified == finalized => decoded.err = NoError /\ decoded.plain = delivered /\ tail = EOF

LEMMA decodedFixed ==
  UNCHANGED <<stream, tail, optKey, options>> =>
    decoded' = decoded /\ OneShotResult' = OneShotResult /\ OneShotResult = decoded
  BY DEF decoded, OneShotResult, limits

LEMMA VerifiedStep ==
  DecoderInv /\ FollowInv /\ Verified /\ [Next]_vars => Verified'
  <1>. HAVE DecoderInv /\ FollowInv /\ Verified /\ [Next]_vars
  <1>0. TypeOK /\ PhasesInv /\ CountsInv /\ TotalNeverWraps
    BY DEF DecoderInv
  <1>1. decoded' = decoded /\ tail' = tail
    BY <1>0, SourceFixed, decodedFixed
  <1>. HIDE DEF decoded
  <1>2. CASE UNCHANGED <<finalized, delivered>>
    BY <1>1, <1>2 DEF Verified
  <1>3. CASE NewDecoderFails \/ NewDecoderOpens \/ Quiet \/ ReadEnds \/ UNCHANGED vars
    BY <1>2, <1>3 DEF NewDecoderFails, NewDecoderOpens, Quiet, ReadEnds, vars, endVars, callerVars
  <1>4. ASSUME NEW n \in 1..MaxRead, ReadStarts(n) PROVE Verified'
    BY <1>2, <1>4 DEF ReadStarts, endVars
  <1>5. CASE ReadReturns
    BY <1>5 DEF ReadReturns, FollowInv, Verified, endVars
  <1>6. CASE ChunkLoaded
    BY <1>0, <1>6, LoadedFacts DEF Verified
  <1>7. CASE FailedLoad
    BY <1>7 DEF FailedLoad, NeedsChunk, Verified
  <1>8. CASE FooterVerified
    <2>1. AtFooter /\ FooterError = NoError /\ UNCHANGED delivered /\ phase = "reading"
          /\ terminalErr = NoError
      BY <1>0, <1>8 DEF FooterVerified, callerVars, AtFooter, NeedsChunk, PhasesInv
    <2>2. Follows
      BY <2>1 DEF FollowInv, Unopened
    <2>3. decoded.plain = delivered /\ decoded.err = NoError
      BY <1>0, <2>1, <2>2, FootersAgree
    <2>4. tail = EOF
      BY <2>1 DEF FooterError, NoError, Truncated, RootMismatch, TrailingData, HasTrailing
    <2>. QED
      BY <1>1, <2>1, <2>3, <2>4 DEF Verified
  <1>. QED
    BY <1>0, <1>3, <1>4, <1>5, <1>6, <1>7, <1>8, StepKinds, Zenon

(* While an entry point runs, its decoder has not failed; once it has      *)
(* returned, nothing happens any more.                                     *)
Undecided ==
  /\ DecoderInv /\ FollowInv /\ Verified
  /\ terminalErr = NoError /\ phase # "rejected"
  /\ entry = "Inspect" => phase = "new"

EntryInv ==
  /\ entry \in EntryPoints
  /\ entry = "DecodeBytes" => tail = EOF
  /\ result = Running => Undecided
  /\ EntryPointsAgree

LEMMA EntryStarts == EntryInit => EntryInv
  <1>. HAVE EntryInit
  <1>1. Init /\ entry \in EntryPoints /\ (entry = "DecodeBytes" => tail = EOF) /\ result = Running
    BY EntryAssumption DEF EntryInit
  <1>2. Undecided
    BY <1>1, InitInv, FollowInit DEF Undecided, Verified, Init
  <1>3. EntryPointsAgree
    BY <1>1 DEF EntryPointsAgree, DecodeBytesAgrees, VerifyAgrees, InspectReadsPrefix, Done
  <1>. QED
    BY <1>1, <1>2, <1>3 DEF EntryInv

(* The three properties at the step that returns.                          *)
LEMMA ReturnsAgree ==
  ASSUME EntryInv, entry # "Inspect", UNCHANGED entry,
         UNCHANGED <<stream, tail, optKey, options>>,
         entry = "DecodeBytes" =>
           \/ /\ result'.err = decoded.err
              /\ result'.err = NoError => /\ result'.plain = decoded.plain
                                          /\ result'.entries = decoded.entries
           \/ decoded.inBody /\ result'.err \in {NoError, UnexpectedEOF},
         entry = "Verify" =>
           \/ tail = EOF /\ result'.err = decoded.err
           \/ tail # EOF /\ result'.err # NoError
           \/ tail = EOF /\ decoded.inBody /\ result'.err = NoError,
         result' # Running
  PROVE  EntryInv'
  <1>1. OneShotResult' = decoded
    BY decodedFixed
  <1>. HIDE DEF decoded
  <1>2. EntryPointsAgree'
    BY <1>1 DEF EntryPointsAgree, DecodeBytesAgrees, VerifyAgrees, InspectReadsPrefix, Done
  <1>3. entry' \in EntryPoints /\ (entry' = "DecodeBytes" => tail' = EOF)
    BY DEF EntryInv
  <1>4. result' # Running'
    BY DEF Running, Returned
  <1>. QED
    BY <1>2, <1>3, <1>4 DEF EntryInv

LEMMA GoesOn ==
  ASSUME EntryInv, result = Running, entry # "Inspect", UNCHANGED <<entry, result>>, [Next]_vars,
         terminalErr' = NoError, phase' # "rejected"
  PROVE  EntryInv'
  <1>1. Undecided
    BY DEF EntryInv
  <1>2. DecoderInv' /\ FollowInv' /\ Verified'
    BY <1>1, StepInv, FollowStep, VerifiedStep DEF Undecided
  <1>3. Undecided'
    BY <1>2 DEF Undecided
  <1>4. UNCHANGED tail
    BY <1>1, SourceFixed DEF Undecided, DecoderInv
  <1>5. EntryPointsAgree'
    BY DEF EntryPointsAgree, DecodeBytesAgrees, VerifyAgrees, InspectReadsPrefix, Done, Running, Returned
  <1>. QED
    BY <1>3, <1>4, <1>5 DEF EntryInv

(* An error other than io.EOF is returned as it is, or by its identifier.  *)
LEMMA FailedFacts ==
  ASSUME NEW err \in Errors \ {NoError}
  PROVE  /\ Failed(err) # Running /\ Failed(err).err # NoError
         /\ entry # "Verify" \/ err \in ErrorCode => Failed(err).err = err
         /\ err = UnexpectedEOF /\ entry = "Verify" => Failed(err).err = Truncated
  <1>1. Failed(err).err = IF entry = "Verify" THEN report(err) ELSE err
    BY DEF Failed, Returned
  <1>2. report(err) \in ErrorCode /\ (err \in ErrorCode => report(err) = err)
    BY DEF report, ErrorCode
  <1>3. ErrorCode \subseteq Errors /\ NoError \notin ErrorCode /\ UnexpectedEOF \notin ErrorCode
    BY DEF Errors, ErrorCode, NoError, UnexpectedEOF, BadMagic, UnsupportedVer, UnsupportedAlgo,
           ReservedBits, Truncated, MetaMalformed, RootMismatch, ChunkAuth, MissingKey, TrailingData
  <1>4. Running.err = "running"
    BY DEF Running, Returned
  <1>5. err = UnexpectedEOF => report(err) = Truncated
    BY <1>3 DEF report
  <1>. QED
    BY <1>1, <1>2, <1>3, <1>4, <1>5, RunningIsNoError

LEMMA EntryOpensStep == EntryInv /\ EntryOpens => EntryInv'
  <1>. HAVE EntryInv /\ EntryOpens
  <1>1. /\ result = Running /\ entry # "Inspect" /\ NewDecoder /\ UNCHANGED entry
        /\ result' = IF phase' = "rejected" THEN Failed(reply') ELSE result
        /\ Undecided /\ TypeOK
    BY DEF EntryOpens, EntryInv, Undecided, DecoderInv
  <1>2. Next
    BY <1>1 DEF Next
  <1>3. CASE NewDecoderOpens
    BY <1>1, <1>2, <1>3, GoesOn DEF NewDecoderOpens, endVars, Undecided
  <1>4. CASE NewDecoderFails
    <2>1. /\ result' = Failed(OpenError) /\ OpenError # NoError /\ OpenError \in Errors
          /\ UNCHANGED <<stream, tail, optKey, options>>
      BY <1>1, <1>4, ErrorTypes DEF NewDecoderFails, sourceVars
    <2>2. OpenError \in ErrorCode
      BY <2>1 DEF OpenError, PrefixError, HeaderError, ParseHeader, validate, ErrorCode
    <2>3. decoded.err = OpenError
      BY <1>1, <2>1, PrefixesAgree, DecodedPrefix DEF decoded
    <2>4. result'.err = decoded.err /\ result'.err # NoError /\ result' # Running
      BY <2>1, <2>2, <2>3, FailedFacts
    <2>. HIDE DEF decoded
    <2>. QED
      BY <1>1, <2>1, <2>4, ReturnsAgree
  <1>. QED
    BY <1>1, <1>3, <1>4 DEF NewDecoder

LEMMA EntryReadsStep == EntryInv /\ EntryReads => EntryInv'
  <1>. HAVE EntryInv /\ EntryReads
  <1>1. result = Running /\ UNCHANGED <<entry, result>> /\ Undecided
    BY DEF EntryReads, EntryInv
  <1>2. PICK n \in 1..MaxRead : ReadStarts(n)
    BY DEF EntryReads
  <1>3. Next
    BY <1>2 DEF Next, Read
  <1>4. entry # "Inspect" /\ terminalErr' = NoError /\ phase' # "rejected"
    BY <1>1, <1>2 DEF Undecided, ReadStarts, endVars
  <1>. QED
    BY <1>1, <1>3, <1>4, GoesOn

LEMMA EntryReadingStep == EntryInv /\ EntryReading => EntryInv'
  <1>. HAVE EntryInv /\ EntryReading
  <1>1. /\ result = Running /\ UNCHANGED entry /\ Undecided
        /\ LoadChunk \/ ReadReturns \/ ReadEnds
        /\ result' = IF phase' = "open" /\ reply' # NoError THEN Finished(reply') ELSE result
    BY DEF EntryReading, EntryInv
  <1>2. /\ TypeOK /\ PhasesInv /\ FollowInv /\ DecoderInv /\ Verified
        /\ terminalErr = NoError /\ Next
    BY <1>1 DEF Undecided, DecoderInv, Next
  <1>3. UNCHANGED <<stream, tail, optKey, options>>
    BY <1>2, SourceFixed
  <1>4. phase = "reading" /\ entry # "Inspect"
    <2>1. phase = "reading"
      BY <1>1 DEF LoadChunk, ReadReturns, ReadEnds, ChunkLengthFails, ChunkBodyFails, BodyRead, ChunkNotAuthentic,
                  ChunkOverflows, ChunkExceedsTotal, ChunkLoaded, FooterFails, FooterVerified,
                  Loading, AtFooter, NeedsChunk
    <2>. QED
      BY <1>1, <2>1 DEF Undecided
  <1>5. ASSUME UNCHANGED result, terminalErr' = NoError, phase' # "rejected"
        PROVE  EntryInv'
    BY <1>1, <1>2, <1>4, <1>5, GoesOn
  <1>6. CASE ChunkLoaded
    <2>1. phase' = "reading" /\ terminalErr' = NoError
      BY <1>2, <1>6, LoadedFacts
    <2>. QED
      BY <1>1, <1>5, <2>1
  <1>7. CASE FooterVerified
    BY <1>1, <1>2, <1>4, <1>5, <1>7 DEF FooterVerified
  <1>8. CASE ReadReturns
    BY <1>1, <1>2, <1>5, <1>8 DEF ReadReturns, endVars
  <1>9. CASE ReadEnds
    <2>1. /\ result' = Finished(EOF) /\ finalized /\ phase = "reading"
          /\ UNCHANGED <<delivered, header, region>>
      BY <1>1, <1>9 DEF ReadEnds, Ended, EndReply, EOF, NoError, openVars
    <2>2. decoded.err = NoError /\ decoded.plain = delivered /\ tail = EOF
      BY <1>2, <2>1 DEF Verified
    <2>3. Follows
      BY <1>2, <2>1 DEF FollowInv, Unopened
    <2>4. decoded.entries = EntriesOf(header, region)
      BY <1>2, <2>3, EntriesAgree DEF Follows
    <2>. HIDE DEF decoded
    <2>5. /\ result'.err = NoError
          /\ entry # "Verify" => result'.plain = delivered /\ result'.entries = EntriesOf(header, region)
      BY <2>1 DEF Finished, Returned
    <2>6. result' # Running
      BY <2>5 DEF Running, Returned, NoError
    <2>. QED
      BY <1>1, <1>3, <1>4, <2>2, <2>4, <2>5, <2>6, ReturnsAgree
  <1>10. CASE FailedLoad /\ ~ChunkLoaded /\ ~FooterVerified
    <2>1. /\ result' = Finished(terminalErr') /\ terminalErr' \in Errors \ {NoError}
          /\ NeedsChunk
      BY <1>1, <1>2, <1>10 DEF FailedLoad
    <2>2. LoadChunk
      BY <1>1, <1>10, <2>1 DEF ReadReturns, ReadEnds, NeedsChunk, Ended
    <2>. DEFINE err == terminalErr'
    <2>3. tail # EOF => err # EOF
      BY <1>10 DEF FailedLoad
    <2>4. tail = EOF =>
            \/ decoded.inBody /\ decoded.err = Truncated /\ err \in {EOF, UnexpectedEOF}
            \/ err = decoded.err /\ err \in ErrorCode
      BY <1>2, <1>10, <2>2, FailuresAgree
    <2>11. EOF \notin ErrorCode
      BY DEF EOF, ErrorCode, BadMagic, UnsupportedVer, UnsupportedAlgo, ReservedBits, Truncated,
             MetaMalformed, RootMismatch, ChunkAuth, MissingKey, TrailingData
    <2>5. CASE err = EOF
      <3>1. result'.err = NoError
        BY <2>1, <2>5 DEF Finished, Returned
      <3>2. result' # Running
        BY <3>1 DEF Running, Returned, NoError
      <3>3. tail = EOF /\ decoded.inBody
        BY <2>3, <2>4, <2>5, <2>11
      <3>. HIDE DEF decoded
      <3>. QED
        BY <1>1, <1>3, <1>4, <3>1, <3>2, <3>3, ReturnsAgree
    <2>6. CASE err # EOF
      <3>1. result' = Failed(err)
        BY <2>1, <2>6 DEF Finished
      <3>2. /\ result' # Running /\ result'.err # NoError
            /\ entry # "Verify" \/ err \in ErrorCode => result'.err = err
            /\ err = UnexpectedEOF /\ entry = "Verify" => result'.err = Truncated
        BY <2>1, <3>1, FailedFacts
      <3>3. entry = "DecodeBytes" => tail = EOF
        BY DEF EntryInv
      <3>. HIDE DEF decoded
      <3>4. entry = "DecodeBytes" =>
              \/ result'.err = decoded.err
              \/ decoded.inBody /\ result'.err \in {NoError, UnexpectedEOF}
        BY <2>4, <2>6, <3>2, <3>3
      <3>5. entry = "Verify" => tail # EOF \/ result'.err = decoded.err
        BY <2>4, <2>6, <3>2
      <3>. QED
        BY <1>1, <1>3, <1>4, <3>2, <3>4, <3>5, ReturnsAgree
    <2>. QED
      BY <2>5, <2>6
  <1>. QED
    BY <1>1, <1>2, <1>6, <1>7, <1>8, <1>9, <1>10, LoadKinds

LEMMA InspectStep == EntryInv /\ Inspect => EntryInv'
  <1>. HAVE EntryInv /\ Inspect
  <1>. DEFINE cap == Defaults.maxMetaBytes
              err == PrefixError(cap)
  <1>1. /\ result = Running /\ entry = "Inspect" /\ UNCHANGED entry /\ Undecided /\ TypeOK
        /\ UNCHANGED <<stream, tail, optKey, options>> /\ pos' = PrefixEnd(cap)
        /\ result' = IF err # NoError THEN Failed(err)
                     ELSE Returned(NoError, <<>>, IF stream[1].h.hasMetadata
                                                  THEN ParseMetadata(Region).entries ELSE <<>>)
    BY DEF Inspect, EntryInv, Undecided, DecoderInv, sourceVars
  <1>2. cap \in Nat
    BY DecoderAssumption DEF Caps
  <1>3. err = inspectError(stream, cap) /\ err \in Errors
    <2>1. err = inspectError(stream, cap)
      BY <1>1, <1>2, PrefixesAgree
    <2>2. err \in Errors
      BY DEF PrefixError, HeaderError, ParseHeader, validate, Errors, ErrorCode
    <2>. QED
      BY <2>1, <2>2
  <1>. HIDE DEF cap, err
  <1>4. result'.err = err /\ result' # Running
    <2>1. CASE err = NoError
      BY <1>1, <2>1 DEF Returned, Running, NoError
    <2>2. CASE err # NoError
      BY <1>1, <1>3, <2>2, FailedFacts
    <2>. QED
      BY <2>1, <2>2
  <1>5. ASSUME err = NoError
        PROVE  /\ pos' = MetaEnd(stream)
               /\ stream[1].h.hasMetadata => result'.entries = parse_metadata(stream, cap).entries
    <2>1. PrefixError(cap) = NoError
      BY <1>5 DEF err
    <2>2. /\ PrefixEnd(cap) = MetaEnd(stream)
          /\ stream[1].h.hasMetadata => parse_metadata(stream, cap) = ParseMetadata(Region)
      BY <1>1, <1>2, <2>1, AcceptedPrefix
    <2>. QED
      BY <1>1, <1>5, <2>2 DEF Returned
  <1>6. InspectReadsPrefix'
    BY <1>1, <1>3, <1>4, <1>5 DEF InspectReadsPrefix, cap
  <1>7. DecodeBytesAgrees' /\ VerifyAgrees'
    BY <1>1 DEF DecodeBytesAgrees, VerifyAgrees, Done
  <1>8. result' # Running'
    BY <1>4 DEF Running, Returned
  <1>. QED
    BY <1>1, <1>6, <1>7, <1>8 DEF EntryInv, EntryPointsAgree

LEMMA EntryStep == EntryInv /\ [EntryNext]_entryVars => EntryInv'
  <1>. HAVE EntryInv /\ [EntryNext]_entryVars
  <1>1. CASE UNCHANGED entryVars
    <2>1. UNCHANGED <<vars, entry, result>>
      BY <1>1 DEF entryVars
    <2>2. UNCHANGED <<stream, tail, optKey, options, pos, phase, header, region, root, chunkIndex,
                      plainTotal, pending, terminalErr, finalized, want, delivered, reply>>
      BY <2>1 DEF vars, sourceVars, openVars, payloadVars, endVars, callerVars
    <2>3. EntryPointsAgree'
      BY <2>1, <2>2 DEF EntryInv, EntryPointsAgree, DecodeBytesAgrees, VerifyAgrees, InspectReadsPrefix,
                        Done, OneShotResult, limits, Running, Returned
    <2>4. Undecided => Undecided'
      <3>1. DecoderInv /\ FollowInv /\ Verified => DecoderInv' /\ FollowInv' /\ Verified'
        BY <2>1, StepInv, FollowStep, VerifiedStep
      <3>. QED
        BY <2>1, <2>2, <3>1 DEF Undecided
    <2>5. Running' = Running
      BY DEF Running, Returned
    <2>. QED
      BY <2>1, <2>2, <2>3, <2>4, <2>5 DEF EntryInv
  <1>. QED
    BY <1>1, EntryOpensStep, EntryReadsStep, EntryReadingStep, InspectStep DEF EntryNext

(* Whatever the source, the key and the caps: DecodeBytes returns the      *)
(* plaintext and metadata, or the error, of the one-shot decoder, Verify   *)
(* its verdict, and Inspect what inspect returns, having read no more than *)
(* the prefix.  The one exception is a body cut short.                     *)
THEOREM Agreement == EntrySpec => []EntryPointsAgree
  <1>1. EntryInv => EntryPointsAgree
    BY DEF EntryInv
  <1>. QED
    BY <1>1, EntryStarts, EntryStep, PTL DEF EntrySpec

-----------------------------------------------------------------------------
(* Only originals: what the decoder has released is what the one-shot      *)
(* decoder has after as many chunks, whether or not an error came then.    *)
Matches ==
  /\ OpenError = NoError /\ header = stream[1].h /\ region = RegionOf(stream)
  /\ Turned.err = NoError /\ Turned.plain = delivered \o pending

MatchInv == ~Unopened => Matches

LEMMA MatchesKept ==
  ASSUME Matches,
         UNCHANGED <<stream, tail, optKey, options, header, region, chunkIndex, pending, delivered>>
  PROVE  Matches'
  <1>1. limits' = limits /\ OpenError' = OpenError
    BY DEF limits, OpenError, PrefixError, HeaderError, RegionLegal, RegionReadable, Region, OverCaps
  <1>2. Turned' = Turned
    BY <1>1 DEF Turned
  <1>. HIDE DEF Turned
  <1>. QED
    BY <1>1, <1>2 DEF Matches

LEMMA MatchStep == DecoderInv /\ FollowInv /\ MatchInv /\ [Next]_vars => MatchInv'
  <1>. HAVE DecoderInv /\ FollowInv /\ MatchInv /\ [Next]_vars
  <1>0. TypeOK /\ PhasesInv
    BY DEF DecoderInv
  <1>1. FollowInv'
    BY FollowStep
  <1>2. CASE terminalErr' = NoError
    <2>1. ~Unopened' => Follows'
      BY <1>1, <1>2 DEF FollowInv
    <2>2. Follows' => Matches'
      BY DEF Follows, Matches
    <2>. QED
      BY <2>1, <2>2 DEF MatchInv
  <1>3. CASE terminalErr' # NoError
    <2>. DEFINE Still ==
           /\ ~Unopened
           /\ UNCHANGED <<stream, tail, optKey, options, header, region, chunkIndex, pending, delivered>>
    <2>1. Still
      <3>. USE DEF sourceVars, openVars, payloadVars, endVars, callerVars
      <3>1. CASE NewDecoderFails \/ NewDecoderOpens
        BY <1>0, <1>3, <3>1 DEF NewDecoderFails, NewDecoderOpens, PhasesInv, Unopened
      <3>2. CASE Quiet
        BY <3>2 DEF Quiet, Unopened
      <3>3. CASE UNCHANGED vars
        BY <1>0, <1>3, <3>3 DEF vars, PhasesInv, Unopened
      <3>4. ASSUME NEW n \in 1..MaxRead, ReadStarts(n) PROVE Still
        BY <3>4 DEF ReadStarts, Unopened
      <3>5. CASE ReadReturns \/ ReadEnds \/ FooterVerified
        BY <1>0, <1>3, <3>5 DEF ReadReturns, ReadEnds, FooterVerified, AtFooter, NeedsChunk, PhasesInv
      <3>6. CASE ChunkLoaded
        BY <1>0, <1>3, <3>6, LoadedFacts DEF PhasesInv
      <3>7. CASE FailedLoad
        BY <3>7 DEF FailedLoad, NeedsChunk, Unopened
      <3>. QED
        BY <1>0, <3>1, <3>2, <3>3, <3>4, <3>5, <3>6, <3>7, StepKinds, Zenon
    <2>. QED
      BY <2>1, MatchesKept DEF MatchInv
  <1>. QED
    BY <1>2, <1>3

LEMMA LimitsBelow == TypeOK => limits.maxChunkLen < MaxU32
  BY OriginalsAssumption, DecoderAssumption DEF TypeOK, limits, limitsFor, Caps

LEMMA VerifiedIsKnown ==
  ASSUME TypeOK, FollowInv, Verified, Unforged(stream, Known)
  PROVE  VerifiedIsOriginal
  <1>. SUFFICES ASSUME finalized
                PROVE  \E o \in Known : /\ stream = o.out /\ o.key \in {NoKey, optKey}
                                        /\ delivered \o pending = o.plain
    BY DEF VerifiedIsOriginal
  <1>1. decodeBytes(stream, optKey, limits).err = NoError
        /\ decodeBytes(stream, optKey, limits).plain = delivered
    BY DEF Verified, decoded
  <1>2. pending = <<>> /\ delivered \in Seq(Cells) /\ stream \in Seq(Cells)
    BY DEF FollowInv, TypeOK
  <1>3. delivered \o pending = delivered
    BY <1>2, ConcatEmptySeq
  <1>4. Encodable(Made) /\ Unforged(stream, Originals(Made))
    BY OriginalsAssumption DEF Known
  <1>5. limits.maxMetaBytes \in Nat /\ limits.maxChunkLen \in Nat /\ limits.maxChunkLen < MaxU32
    BY LimitsType, LimitsBelow
  <1>6. PICK o \in Originals(Made) :
          IsOriginal(o, stream, optKey, decodeBytes(stream, optKey, limits).plain)
    BY <1>1, <1>2, <1>4, <1>5, DecodedIsOriginal
  <1>. QED
    BY <1>1, <1>3, <1>6, Zenon DEF IsOriginal, Known

LEMMA ReleasedIsKnown ==
  ASSUME TypeOK, PhasesInv, MatchInv, Unforged(stream, Known)
  PROVE  ReleasedIsOriginal
  <1>. SUFFICES ASSUME header.encrypted /\ chunkIndex > 0
                PROVE  \E o \in Known : /\ o.head = HeaderCell(header) /\ o.meta = region
                                        /\ o.key = optKey
                                        /\ IsPrefix(delivered \o pending, o.plain)
    BY DEF ReleasedIsOriginal
  <1>1. chunkIndex \in Nat \ {0}
    BY DEF TypeOK
  <1>2. Matches
    BY <1>1 DEF PhasesInv, MatchInv
  <1>3. /\ OpenError = NoError /\ header = stream[1].h /\ region = RegionOf(stream)
        /\ Turned.err = NoError /\ Turned.plain = delivered \o pending
    BY <1>2 DEF Matches
  <1>4. /\ MetaEnd(stream) \in 1..Len(stream) /\ stream \in Seq(Cells)
        /\ PreambleError(stream, optKey, limits) = NoError
    BY <1>3, OpenedFacts, PrefixesAgree DEF TypeOK
  <1>5. limits.maxMetaBytes \in Nat /\ limits.maxChunkLen \in Nat /\ limits.maxChunkLen < MaxU32
    BY LimitsType, LimitsBelow
  <1>6. stream[1].h.encrypted \in BOOLEAN /\ stream[1] \in HeaderCells
    BY <1>4, <1>5, PrologueIsThere
  <1>7. Trailed(stream, optKey, Turned, chunkIndex)
    BY <1>1, <1>3, <1>4, <1>5, <1>6, TurnsTrail DEF Turned
  <1>8. Encodable(Made) /\ Unforged(stream, Originals(Made)) /\ stream[1].h.encrypted
    BY <1>3, OriginalsAssumption DEF Known
  <1>9. PICK o \in Originals(Made) : PartOfOriginal(o, stream, optKey, Turned.plain)
    BY <1>1, <1>7, <1>8, TakenIsOriginal DEF Trailed
  <1>10. stream[1] = HeaderCell(header)
    BY <1>3, <1>6 DEF HeaderCells, HeaderCell
  <1>. QED
    BY <1>3, <1>9, <1>10, Zenon DEF PartOfOriginal, Known

OriginalsInv == DecoderInv /\ FollowInv /\ Verified /\ MatchInv

(* Whatever the stream holds, whatever the caps, the key and the reads: if *)
(* no seal in the stream is forged, a container the decoder has verified   *)
(* is one of those that were encoded, read with its key, and what it gave  *)
(* out is what went into it; and of a damaged, cut or recombined encrypted *)
(* container it gives out only the beginning of the plaintext that was     *)
(* encrypted under this header, metadata and key (Decoder.Read,            *)
(* loadEncryptedChunk, verifyFooter).                                      *)
THEOREM Originality == Spec => []OnlyOriginals
  <1>1. Init => OriginalsInv
    <2>1. Init => Verified /\ MatchInv
      BY DEF Init, Verified, MatchInv, Unopened
    <2>. QED
      BY <2>1, InitInv, FollowInit DEF OriginalsInv
  <1>2. OriginalsInv /\ [Next]_vars => OriginalsInv'
    BY StepInv, FollowStep, VerifiedStep, MatchStep DEF OriginalsInv
  <1>3. OriginalsInv => OnlyOriginals
    <2>1. OriginalsInv => TypeOK /\ PhasesInv
      BY DEF OriginalsInv, DecoderInv
    <2>. QED
      BY <2>1, VerifiedIsKnown, ReleasedIsKnown DEF OriginalsInv, OnlyOriginals
  <1>. QED
    BY <1>1, <1>2, <1>3, PTL DEF Spec

-----------------------------------------------------------------------------
(* The generator of the vectors encodes as the SDK does.  Its metadata is  *)
(* sorted by itself, and there is one order.                               *)
LEMMA GeneratorSorts ==
  ASSUME NEW entries \in Seq(Entry), EncodeMetadata(entries).ok
  PROVE  (CHOOSE s \in [DOMAIN entries -> Range(entries)] : InTagOrder(s, entries)) = Sorted(entries)
  <1>. DEFINE n == Len(entries)
              S == [DOMAIN entries -> Range(entries)]
              c == CHOOSE s \in S : InTagOrder(s, entries)
              t == Sorted(entries)
  <1>1. n \in Nat /\ DOMAIN entries = 1..n /\ t \in Seq(Entry) /\ Len(t) = n /\ InTagOrder(t, entries)
    BY SortedIsSeq, SortedInOrder
  <1>2. \A e \in Range(entries) : e \in Entry
    BY <1>1 DEF Range
  <1>. HIDE DEF n, t
  <1>3. DOMAIN t = 1..n /\ \A i \in 1..n : t[i] \in Range(t)
    BY <1>1 DEF Range
  <1>4. Range(t) = Range(entries)
    BY <1>1 DEF InTagOrder
  <1>5. t \in S
    <2>1. t = [i \in 1..n |-> t[i]]
      BY <1>1, <1>3
    <2>. QED
      BY <1>1, <1>3, <1>4, <2>1
  <1>6. c \in S /\ InTagOrder(c, entries)
    <2>. HIDE DEF S
    <2>. QED
      BY <1>1, <1>5
  <1>. HIDE DEF c
  <1>7. c \in Seq(Entry)
    <2>1. c \in [1..n -> Entry]
      BY <1>1, <1>2, <1>6
    <2>. QED
      BY <1>1, <2>1, SeqDef
  <1>8. Ascending(c) /\ Ascending(t) /\ Len(c) = Len(t) /\ Range(c) = Range(t)
    BY <1>1, <1>6, Zenon DEF InTagOrder, Ascending, TagBefore
  <1>. QED
    BY <1>1, <1>7, <1>8, OrderIsUnique DEF c, t, S

(* Its metadata region is the one the SDK writes.                          *)
LEMMA GeneratedMetadata ==
  ASSUME NEW entries \in Seq(Entry), EncodeMetadata(entries).ok
  PROVE  encodeMetadata(entries) = EncodeMetadata(entries).region
  <1>. DEFINE s == Sorted(entries)
              c == CHOOSE z \in [DOMAIN entries -> Range(entries)] : InTagOrder(z, entries)
  <1>1. CASE entries = <<>>
    BY <1>1 DEF encodeMetadata, EncodeMetadata
  <1>2. CASE entries # <<>>
    <2>1. c = s
      BY GeneratorSorts
    <2>2. encodeMetadata(entries) = <<Num(Len(BodyOf(c)))>> \o BodyOf(c)
      BY <1>2, Zenon DEF encodeMetadata, BodyOf, EntriesCells, EntryCells
    <2>3. EncodeMetadata(entries) = EncodedInOrder(s)
      BY <1>2, EncodesSorted
    <2>. HIDE DEF s, c
    <2>4. EncodedInOrder(s).ok => EncodedInOrder(s).region = <<Num(Len(BodyOf(s)))>> \o BodyOf(s)
      BY DEF EncodedInOrder
    <2>. QED
      BY <2>1, <2>2, <2>3, <2>4
  <1>. QED
    BY <1>1, <1>2

(* The parts put together by `encode`.                                     *)
Assembled(key, cell, meta, data, count) ==
  <<cell>> \o meta \o FlattenSeq([i \in 1..count |-> <<Num(Len(data[i]))>> \o data[i]])
  \o <<RootCell(key, <<cell>> \o meta \o [i \in 1..count |-> Leaf(data[i])]), MagicEnd>>

(* They are a container of the SDK.                                        *)
LEMMA AssembledIsContainer ==
  ASSUME NEW key, NEW cell, NEW meta, NEW count, NEW data, DOMAIN data = 1..count
  PROVE  Assembled(key, cell, meta, data, count) = Container(key, cell, meta, data)
  BY Zenon DEF Assembled, Container, Framed, RootInput

(* The generator cuts its input as the SDK does, ...                       *)
PiecesOf(input) ==
  [i \in 1..(Len(input) + ChunkSize - 1) \div ChunkSize |->
     SubSeq(input, (i - 1) * ChunkSize + 1, Lesser((i - 1 + 1) * ChunkSize, Len(input)))]

LEMMA PiecesAreChunks ==
  ASSUME NEW input
  PROVE  PiecesOf(input) = ChunksOf(input, ChunkSize)
  <1>1. \A i \in 1..(Len(input) + ChunkSize - 1) \div ChunkSize : i - 1 + 1 = i
    OBVIOUS
  <1>. QED
    BY <1>1, Zenon DEF PiecesOf, ChunksOf

(* ... and makes the same headers, ...                                     *)
HeaderMade(encrypted, meta, total, base) ==
  [version     |-> 1,
   encrypted   |-> encrypted,
   hasMetadata |-> Len(meta) > 0,
   reserved    |-> FALSE,
   hashAlgo    |-> IF encrypted THEN 1 ELSE 0,
   aeadAlgo    |-> IF encrypted THEN 1 ELSE 0,
   chunkSize   |-> ChunkSize,
   chunkCount  |-> (total + ChunkSize - 1) \div ChunkSize,
   totalSize   |-> total,
   baseNonce   |-> IF encrypted THEN base ELSE ZeroNonce]

LEMMA HeadersAreMade ==
  ASSUME NEW S, NEW meta \in Seq(S), NEW total, NEW base
  PROVE  /\ HeaderMade(FALSE, meta, total, base) = PlainHeader(ChunkSize, total, meta # <<>>)
         /\ HeaderMade(TRUE, meta, total, base) = EncryptedHeader(ChunkSize, total, meta # <<>>, base)
  <1>1. (Len(meta) > 0) = (meta # <<>>)
    OBVIOUS
  <1>2. HeaderMade(FALSE, meta, total, base) = PlainHeader(ChunkSize, total, meta # <<>>)
    BY <1>1, Zenon DEF HeaderMade, PlainHeader, HashSHA256, AEADNone
  <1>3. HeaderMade(TRUE, meta, total, base) = EncryptedHeader(ChunkSize, total, meta # <<>>, base)
    <2>. DEFINE h == PlainHeader(ChunkSize, total, meta # <<>>)
                n == (total + ChunkSize - 1) \div ChunkSize
    <2>1. h = [version |-> 1, encrypted |-> FALSE, hasMetadata |-> Len(meta) > 0, reserved |-> FALSE,
               hashAlgo |-> 0, aeadAlgo |-> 0, chunkSize |-> ChunkSize,
               chunkCount |-> n, totalSize |-> total, baseNonce |-> ZeroNonce]
      BY <1>1, Zenon DEF PlainHeader, HashSHA256, AEADNone
    <2>2. HeaderMade(TRUE, meta, total, base) =
              [version |-> 1, encrypted |-> TRUE, hasMetadata |-> Len(meta) > 0, reserved |-> FALSE,
               hashAlgo |-> 1, aeadAlgo |-> 1, chunkSize |-> ChunkSize,
               chunkCount |-> n, totalSize |-> total, baseNonce |-> base]
      BY Zenon DEF HeaderMade
    <2>3. EncryptedHeader(ChunkSize, total, meta # <<>>, base) =
            [h EXCEPT !.encrypted = TRUE, !.hashAlgo = 1, !.aeadAlgo = 1, !.baseNonce = base]
      BY Zenon DEF EncryptedHeader, HashHMACSHA256, AEADAESGCM
    <2>. HIDE DEF h, n
    <2>. QED
      BY <2>1, <2>2, <2>3
  <1>. QED
    BY <1>2, <1>3

(* `encode` in these terms, without and with encryption.                   *)
LEMMA EncodeAssembles ==
  ASSUME NEW input, NEW key, NEW base, NEW entries
  PROVE  /\ encode(input, key, base, FALSE, entries) =
              Assembled(NoKey, HeaderCell(HeaderMade(FALSE, encodeMetadata(entries), Len(input), base)),
                        encodeMetadata(entries),
                        [i \in 1..(Len(input) + ChunkSize - 1) \div ChunkSize |-> PiecesOf(input)[i]],
                        (Len(input) + ChunkSize - 1) \div ChunkSize)
         /\ encode(input, key, base, TRUE, entries) =
              Assembled(<<key, base>>, HeaderCell(HeaderMade(TRUE, encodeMetadata(entries), Len(input), base)),
                        encodeMetadata(entries),
                        [i \in 1..(Len(input) + ChunkSize - 1) \div ChunkSize |->
                           SealedChunk(PiecesOf(input)[i], key, base,
                                  appendIndex(HeaderCell(HeaderMade(TRUE, encodeMetadata(entries), Len(input), base)),
                                              encodeMetadata(entries), i - 1), i - 1)],
                        (Len(input) + ChunkSize - 1) \div ChunkSize)
  <1>. DEFINE n == (Len(input) + ChunkSize - 1) \div ChunkSize
  <1>1. \A i \in 1..n : PiecesOf(input)[i] =
           SubSeq(input, (i - 1) * ChunkSize + 1, Lesser((i - 1 + 1) * ChunkSize, Len(input)))
    BY Zenon DEF PiecesOf
  <1>2. encode(input, key, base, FALSE, entries) =
              Assembled(NoKey, HeaderCell(HeaderMade(FALSE, encodeMetadata(entries), Len(input), base)),
                        encodeMetadata(entries), [i \in 1..n |-> PiecesOf(input)[i]], n)
    BY <1>1, Zenon DEF encode, Assembled, HeaderMade
  <1>3. encode(input, key, base, TRUE, entries) =
              Assembled(<<key, base>>, HeaderCell(HeaderMade(TRUE, encodeMetadata(entries), Len(input), base)),
                        encodeMetadata(entries),
                        [i \in 1..n |->
                           SealedChunk(PiecesOf(input)[i], key, base,
                                  appendIndex(HeaderCell(HeaderMade(TRUE, encodeMetadata(entries), Len(input), base)),
                                              encodeMetadata(entries), i - 1), i - 1)], n)
    BY <1>1, Zenon DEF encode, Assembled, HeaderMade
  <1>. QED
    BY <1>2, <1>3, Zenon

(* ... which validate accepts.                                             *)
LEMMA MadeHeadersAreValid ==
  ASSUME NEW total, NEW hasMeta, NEW base
  PROVE  /\ validate(PlainHeader(ChunkSize, total, hasMeta)) = NoError
         /\ validate(EncryptedHeader(ChunkSize, total, hasMeta, base)) = NoError
  <1>. DEFINE n == (total + ChunkSize - 1) \div ChunkSize
              p == PlainHeader(ChunkSize, total, hasMeta)
              e == EncryptedHeader(ChunkSize, total, hasMeta, base)
  <1>1. ChunkSize # 0 /\ ~(ChunkSize > MaxU32 - TagLen)
    BY VectorAssumption, WidthAssumption DEF TagLen
  <1>2. p = [version |-> 1, encrypted |-> FALSE, hasMetadata |-> hasMeta, reserved |-> FALSE,
             hashAlgo |-> 0, aeadAlgo |-> 0, chunkSize |-> ChunkSize,
             chunkCount |-> n, totalSize |-> total, baseNonce |-> 0]
    BY Zenon DEF PlainHeader, HashSHA256, AEADNone, ZeroNonce
  <1>3. e = [p EXCEPT !.encrypted = TRUE, !.hashAlgo = 1, !.aeadAlgo = 1, !.baseNonce = base]
    BY Zenon DEF EncryptedHeader, HashHMACSHA256, AEADAESGCM
  <1>. HIDE DEF p, e, n
  <1>4. validate(p) = NoError
    BY <1>1, <1>2 DEF validate, HashSHA256, HashHMACSHA256, AEADNone, AEADAESGCM, ZeroNonce
  <1>5. validate(e) = NoError
    BY <1>1, <1>2, <1>3 DEF validate, HashSHA256, HashHMACSHA256, AEADNone, AEADAESGCM, ZeroNonce
  <1>. QED
    BY <1>4, <1>5 DEF p, e

(* So `encode` writes what EncodePlain writes, ...                         *)
LEMMA GeneratedPlain ==
  ASSUME NEW input, NEW key, NEW base, NEW entries \in Seq(Entry), EncodeMetadata(entries).ok
  PROVE  EncodePlain(input, entries, ChunkSize) = Encoded(encode(input, key, base, FALSE, entries))
  <1>. DEFINE m == EncodeMetadata(entries)
              n == (Len(input) + ChunkSize - 1) \div ChunkSize
              h == PlainHeader(ChunkSize, Len(input), m.region # <<>>)
              pieces == [i \in 1..n |-> PiecesOf(input)[i]]
  <1>1. encodeMetadata(entries) = m.region /\ m.region \in Seq(NumCells)
    BY GeneratedMetadata, RegionIsNumbers
  <1>2. HeaderMade(FALSE, m.region, Len(input), base) = h
    <2>. HIDE DEF m
    <2>. QED
      BY <1>1, HeadersAreMade
  <1>3. pieces = ChunksOf(input, ChunkSize)
    <2>1. PiecesOf(input) = pieces
      BY Zenon DEF PiecesOf
    <2>. QED
      BY <2>1, PiecesAreChunks
  <1>4. encode(input, key, base, FALSE, entries) = Assembled(NoKey, HeaderCell(h), m.region, pieces, n)
    BY <1>1, <1>2, EncodeAssembles, Zenon
  <1>5. Assembled(NoKey, HeaderCell(h), m.region, pieces, n) = Container(NoKey, HeaderCell(h), m.region, pieces)
    <2>1. DOMAIN pieces = 1..n
      OBVIOUS
    <2>. HIDE DEF pieces, n, m, h
    <2>. QED
      BY <2>1, AssembledIsContainer
  <1>6. ChunkSize # 0 /\ validate(h) = NoError
    BY MadeHeadersAreValid, VectorAssumption
  <1>7. EncodePlain(input, entries, ChunkSize) =
          Encoded(Container(NoKey, HeaderCell(h), m.region, ChunksOf(input, ChunkSize)))
    BY <1>6, Zenon DEF EncodePlain
  <1>. QED
    BY <1>3, <1>4, <1>5, <1>7, Zenon

(* ... and what EncodeEncrypted writes under the same key and base nonce.  *)
LEMMA GeneratedEncrypted ==
  ASSUME NEW input, NEW key, Len(key) = KeyLen, NEW base, NEW entries \in Seq(Entry), EncodeMetadata(entries).ok
  PROVE  EncodeEncryptedWithFixedNonce(input, key, base, entries, ChunkSize) =
           Encoded(encode(input, key, base, TRUE, entries))
  <1>. DEFINE m == EncodeMetadata(entries)
              n == (Len(input) + ChunkSize - 1) \div ChunkSize
              h == EncryptedHeader(ChunkSize, Len(input), m.region # <<>>, base)
              made == [i \in 1..n |-> SealedChunk(PiecesOf(input)[i], key, base,
                                         appendIndex(HeaderCell(h), m.region, i - 1), i - 1)]
              chunks == ChunksOf(input, ChunkSize)
              sealed == [i \in DOMAIN chunks |->
                           sealChunk(key, base, HeaderCell(h), m.region, i - 1, chunks[i])]
  <1>1. encodeMetadata(entries) = m.region /\ m.region \in Seq(NumCells)
    BY GeneratedMetadata, RegionIsNumbers
  <1>2. HeaderMade(TRUE, m.region, Len(input), base) = h
    <2>. HIDE DEF m
    <2>. QED
      BY <1>1, HeadersAreMade
  <1>3. made = sealed
    <2>1. DOMAIN chunks = 1..n /\ PiecesOf(input) = chunks
      BY PiecesAreChunks, Zenon DEF ChunksOf
    <2>2. \A i \in 1..n :
             SealedChunk(chunks[i], key, base, appendIndex(HeaderCell(h), m.region, i - 1), i - 1) =
             sealChunk(key, base, HeaderCell(h), m.region, i - 1, chunks[i])
      BY Zenon DEF SealedChunk, sealChunk, chunkNonce, chunkAAD, appendIndex
    <2>. HIDE DEF chunks, n, h, m
    <2>. QED
      BY <2>1, <2>2, Zenon
  <1>4. encode(input, key, base, TRUE, entries) = Assembled(<<key, base>>, HeaderCell(h), m.region, made, n)
    <2>. DEFINE madeOf(meta, cell) ==
                  [i \in 1..n |-> SealedChunk(PiecesOf(input)[i], key, base,
                                     appendIndex(HeaderCell(cell), meta, i - 1), i - 1)]
                partsOf(meta, cell) == Assembled(<<key, base>>, HeaderCell(cell), meta, madeOf(meta, cell), n)
    <2>1. encode(input, key, base, TRUE, entries) =
            partsOf(encodeMetadata(entries), HeaderMade(TRUE, encodeMetadata(entries), Len(input), base))
      BY EncodeAssembles, Zenon
    <2>2. made = madeOf(m.region, h)
      OBVIOUS
    <2>. HIDE DEF m, h
    <2>3. encode(input, key, base, TRUE, entries) = partsOf(m.region, h)
      BY <1>1, <1>2, <2>1, Zenon
    <2>. HIDE DEF madeOf, made
    <2>. QED
      BY <2>2, <2>3, Zenon
  <1>5. Assembled(<<key, base>>, HeaderCell(h), m.region, made, n) =
          Container(rootKey(key, base), HeaderCell(h), m.region, made)
    <2>1. DOMAIN made = 1..n
      OBVIOUS
    <2>. HIDE DEF made, n, m, h
    <2>. QED
      BY <2>1, AssembledIsContainer DEF rootKey
  <1>6. ChunkSize # 0 /\ validate(h) = NoError
    BY MadeHeadersAreValid, VectorAssumption
  <1>7. EncodeEncryptedWithFixedNonce(input, key, base, entries, ChunkSize) =
          Encoded(Container(rootKey(key, base), HeaderCell(h), m.region, sealed))
    BY <1>6, Zenon DEF EncodeEncryptedWithFixedNonce
  <1>. QED
    BY <1>3, <1>4, <1>5, <1>7, Zenon

(* An element more at the end.                                             *)
LEMMA AppendedTo ==
  ASSUME NEW S, NEW s \in Seq(S), NEW e \in S
  PROVE  /\ Append(s, e) \in Seq(S) /\ Len(Append(s, e)) = Len(s) + 1
         /\ \A i \in 1..Len(s) : Append(s, e)[i] = s[i]
         /\ Append(s, e)[Len(s) + 1] = e
  BY AppendProperties

(* The metadata of the vectors is metadata the SDK encodes.                *)
LEMMA VectorMetadataEncodes ==
  metadata \in Seq(Entry) /\ EncodeMetadata(metadata).ok
  <1>. DEFINE created == [i \in 1..CreatedAtLen |-> Num(0)]
              e1 == [tag |-> FileName,  value |-> filename]
              e2 == [tag |-> MimeType,  value |-> <<Num(1)>>]
              e3 == [tag |-> CreatedAt, value |-> created]
              e4 == [tag |-> UserTag,   value |-> <<Num(Nul), Num(BadUtf8), Num(MaxAscii)>>]
  <1>1. /\ MaxU32 \in Nat /\ MaxAscii \in Nat /\ MaxAscii >= 1 /\ MaxAscii + 3 <= MaxU32
        /\ CreatedAtLen \in Nat /\ CreatedAtLen >= 1 /\ CreatedAtLen + 15 <= MaxU32
    BY WidthAssumption, MetaAssumption, VectorAssumption
  <1>2. \A k \in 0..MaxU32 : Num(k) \in NumCells /\ U32(Num(k)) = k
    BY DEF Num, NumCells, U32
  <1>3. filename = <<Num(MaxAscii + 3), Num(1), Num(1)>>
    BY DEF filename, ThaiLetter, Hyphen
  <1>4. /\ filename \in Seq(NumCells) /\ Len(filename) = 3
        /\ <<Num(1)>> \in Seq(NumCells) /\ Len(<<Num(1)>>) = 1
        /\ e4.value \in Seq(NumCells) /\ Len(e4.value) = 3
    <2>1. Num(MaxAscii + 3) \in NumCells /\ Num(1) \in NumCells /\ Num(0) \in NumCells
          /\ Num(MaxAscii + 2) \in NumCells /\ Num(MaxAscii) \in NumCells
      BY <1>1, <1>2
    <2>2. e4.value = <<Num(0), Num(MaxAscii + 2), Num(MaxAscii)>>
      BY DEF Nul, BadUtf8
    <2>. HIDE DEF e4
    <2>. QED
      BY <1>3, <2>1, <2>2
  <1>5. created \in Seq(NumCells) /\ Len(created) = CreatedAtLen
    <2>1. Num(0) \in NumCells
      BY <1>1, <1>2
    <2>2. created \in [1..CreatedAtLen -> NumCells]
      BY <2>1
    <2>. HIDE DEF created
    <2>. QED
      BY <1>1, <2>2, SeqDef
  <1>6. e1 \in Entry /\ e2 \in Entry /\ e3 \in Entry /\ e4 \in Entry
    <2>1. 1 \in 0..MaxU32 /\ 2 \in 0..MaxU32 /\ 3 \in 0..MaxU32 /\ 4 \in 0..MaxU32
      BY <1>1
    <2>. HIDE DEF created
    <2>. QED
      BY <1>4, <1>5, <2>1 DEF Entry, FileName, MimeType, CreatedAt, UserTag
  <1>7. /\ e1.tag = 1 /\ e1.value = filename /\ e2.tag = 2 /\ e2.value = <<Num(1)>>
        /\ e3.tag = 3 /\ Len(e3.value) = CreatedAtLen /\ e4.tag = 4 /\ Len(e4.value) = 3
    <2>. HIDE DEF created
    <2>. QED
      BY <1>4, <1>5 DEF FileName, MimeType, CreatedAt, UserTag
  <1>7a. Len(e1.value) = 3 /\ Len(e2.value) = 1 /\ Len(e3.value) = CreatedAtLen /\ Len(e4.value) = 3
    <2>. HIDE DEF created
    <2>. QED
      BY <1>4, <1>5
  <1>8. /\ validReservedMetadata(e1) /\ validReservedMetadata(e2)
        /\ validReservedMetadata(e3) /\ validReservedMetadata(e4)
    <2>1. \A i \in DOMAIN filename : U32(filename[i]) \in {MaxAscii + 3, 1}
      <3>1. DOMAIN filename = 1..3 /\ filename[1] = Num(MaxAscii + 3) /\ filename[2] = Num(1) /\ filename[3] = Num(1)
        BY <1>3
      <3>2. U32(Num(MaxAscii + 3)) = MaxAscii + 3 /\ U32(Num(1)) = 1
        BY <1>1, <1>2
      <3>. QED
        BY <3>1, <3>2
    <2>2. \A i \in DOMAIN <<Num(1)>> : U32(<<Num(1)>>[i]) = 1
      BY <1>1, <1>2
    <2>3. validReservedMetadata(e1)
      BY <1>1, <1>7, <2>1 DEF validReservedMetadata, FileName, MimeType, CreatedAt, Nul, Bom, BadUtf8
    <2>4. validReservedMetadata(e2)
      BY <1>1, <1>7, <2>2 DEF validReservedMetadata, FileName, MimeType, CreatedAt
    <2>. HIDE DEF e3, e4
    <2>5. validReservedMetadata(e3)
      BY <1>7 DEF validReservedMetadata, FileName, MimeType, CreatedAt
    <2>6. validReservedMetadata(e4)
      BY <1>7 DEF validReservedMetadata, FileName, MimeType, CreatedAt
    <2>. QED
      BY <2>3, <2>4, <2>5, <2>6
  <1>9. metadata = <<e1, e2, e3, e4>>
    BY Zenon DEF metadata
  <1>. HIDE DEF e1, e2, e3, e4, created
  <1>10. metadata \in Seq(Entry) /\ Len(metadata) = 4 /\ Ascending(metadata) /\ metadata # <<>>
    BY <1>6, <1>7, <1>9 DEF Ascending
  <1>11. Len(BodyOf(metadata)) = CreatedAtLen + 15
    <2>. DEFINE s0 == <<>>
                s1 == Append(s0, e1)
                s2 == Append(s1, e2)
                s3 == Append(s2, e3)
                s4 == Append(s3, e4)
    <2>1. s0 \in Seq(Entry) /\ Len(s0) = 0
      OBVIOUS
    <2>. HIDE DEF s0
    <2>2. s1 \in Seq(Entry) /\ Len(s1) = 1 /\ s1[1] = e1
      BY <1>6, <2>1, AppendProperties
    <2>. HIDE DEF s1
    <2>3. s2 \in Seq(Entry) /\ Len(s2) = 2 /\ s2[1] = e1 /\ s2[2] = e2
      <3>1. /\ s2 \in Seq(Entry) /\ Len(s2) = Len(s1) + 1 /\ s2[Len(s1) + 1] = e2
            /\ \A i \in 1..Len(s1) : s2[i] = s1[i]
        <4>1. s1 \in Seq(Entry) /\ e2 \in Entry
          BY <1>6, <2>2, Zenon
        <4>2. s2 \in Seq(Entry) /\ Len(s2) = Len(s1) + 1
          BY <4>1, AppendedTo
        <4>3. s2[Len(s1) + 1] = e2
          BY <4>1, AppendedTo
        <4>4. \A i \in 1..Len(s1) : s2[i] = s1[i]
          BY <4>1, AppendedTo
        <4>. QED
          BY <4>2, <4>3, <4>4, Zenon
      <3>. HIDE DEF s2
      <3>2. Len(s1) + 1 = 2 /\ \A i \in 1..1 : s2[i] = s1[i]
        BY <2>2, <3>1
      <3>. QED
        BY <2>2, <3>1, <3>2
    <2>. HIDE DEF s2
    <2>4. s3 \in Seq(Entry) /\ Len(s3) = 3 /\ s3[1] = e1 /\ s3[2] = e2 /\ s3[3] = e3
      <3>1. /\ s3 \in Seq(Entry) /\ Len(s3) = Len(s2) + 1 /\ s3[Len(s2) + 1] = e3
            /\ \A i \in 1..Len(s2) : s3[i] = s2[i]
        <4>1. s2 \in Seq(Entry) /\ e3 \in Entry
          BY <1>6, <2>3, Zenon
        <4>2. s3 \in Seq(Entry) /\ Len(s3) = Len(s2) + 1
          BY <4>1, AppendedTo
        <4>3. s3[Len(s2) + 1] = e3
          BY <4>1, AppendedTo
        <4>4. \A i \in 1..Len(s2) : s3[i] = s2[i]
          BY <4>1, AppendedTo
        <4>. QED
          BY <4>2, <4>3, <4>4, Zenon
      <3>. HIDE DEF s3
      <3>2. Len(s2) + 1 = 3 /\ Len(s2) = 2
        BY <2>3
      <3>3. s3[1] = s2[1] /\ s3[2] = s2[2]
        <4>1. \A i \in 1..2 : s3[i] = s2[i]
          BY <3>1, <3>2
        <4>. QED
          BY <4>1
      <3>. QED
        BY <2>3, <3>1, <3>2, <3>3
    <2>. HIDE DEF s3
    <2>5. s4 \in Seq(Entry) /\ Len(s4) = 4 /\ s4[1] = e1 /\ s4[2] = e2 /\ s4[3] = e3 /\ s4[4] = e4
      <3>1. /\ s4 \in Seq(Entry) /\ Len(s4) = Len(s3) + 1 /\ s4[Len(s3) + 1] = e4
            /\ \A i \in 1..Len(s3) : s4[i] = s3[i]
        <4>1. s3 \in Seq(Entry) /\ e4 \in Entry
          BY <1>6, <2>4, Zenon
        <4>2. s4 \in Seq(Entry) /\ Len(s4) = Len(s3) + 1
          BY <4>1, AppendedTo
        <4>3. s4[Len(s3) + 1] = e4
          BY <4>1, AppendedTo
        <4>4. \A i \in 1..Len(s3) : s4[i] = s3[i]
          BY <4>1, AppendedTo
        <4>. QED
          BY <4>2, <4>3, <4>4, Zenon
      <3>. HIDE DEF s4
      <3>2. Len(s3) + 1 = 4 /\ Len(s3) = 3
        BY <2>4
      <3>3. s4[1] = s3[1] /\ s4[2] = s3[2] /\ s4[3] = s3[3]
        <4>1. \A i \in 1..3 : s4[i] = s3[i]
          BY <3>1, <3>2
        <4>. QED
          BY <4>1
      <3>. QED
        BY <2>4, <3>1, <3>2, <3>3
    <2>. HIDE DEF s4
    <2>6. s4 = metadata
      <3>1. metadata[1] = e1 /\ metadata[2] = e2 /\ metadata[3] = e3 /\ metadata[4] = e4
        BY <1>9
      <3>2. \A i \in 1..4 : s4[i] = metadata[i]
        BY <2>5, <3>1
      <3>. QED
        BY <1>10, <2>5, <3>2, SeqsAreEqual
    <2>7. BodyOf(s0) = <<>>
      <3>1. Len(EntriesCells(<<>>)) = 0 /\ EntriesCells(<<>>) = <<>>
        BY DEF EntriesCells
      <3>. QED
        BY <3>1, FlattenNothing DEF BodyOf, s0
    <2>8. \A e \in Entry : Len(e.value) + 2 <= MaxU32 =>
             EntryCells(e) \in Seq(NumCells) /\ Len(EntryCells(e)) = Len(e.value) + 2
      <3>. SUFFICES ASSUME NEW e \in Entry, Len(e.value) + 2 <= MaxU32
                    PROVE  EntryCells(e) \in Seq(NumCells) /\ Len(EntryCells(e)) = Len(e.value) + 2
        OBVIOUS
      <3>1. e.value \in Seq(NumCells) /\ Num(e.tag) \in NumCells /\ Num(Len(e.value)) \in NumCells
        BY <1>1, <1>2 DEF Entry
      <3>. QED
        BY <3>1 DEF EntryCells
    <2>9. /\ EntryCells(e1) \in Seq(NumCells) /\ Len(EntryCells(e1)) = 5
          /\ EntryCells(e2) \in Seq(NumCells) /\ Len(EntryCells(e2)) = 3
          /\ EntryCells(e3) \in Seq(NumCells) /\ Len(EntryCells(e3)) = CreatedAtLen + 2
          /\ EntryCells(e4) \in Seq(NumCells) /\ Len(EntryCells(e4)) = 5
      <3>1. /\ Len(e1.value) + 2 = 5 /\ Len(e2.value) + 2 = 3
            /\ Len(e3.value) + 2 = CreatedAtLen + 2 /\ Len(e4.value) + 2 = 5
        BY <1>7a
      <3>2. 5 <= MaxU32 /\ 3 <= MaxU32 /\ CreatedAtLen + 2 <= MaxU32
        BY <1>1
      <3>. QED
        BY <1>6, <2>8, <3>1, <3>2
    <2>10. /\ BodyOf(s1) = BodyOf(s0) \o EntryCells(e1) /\ BodyOf(s2) = BodyOf(s1) \o EntryCells(e2)
           /\ BodyOf(s3) = BodyOf(s2) \o EntryCells(e3) /\ BodyOf(s4) = BodyOf(s3) \o EntryCells(e4)
      <3>1. BodyOf(s1) = BodyOf(s0) \o EntryCells(e1)
        BY <1>6, <2>1, OneEntryMore DEF s1
      <3>2. BodyOf(s2) = BodyOf(s1) \o EntryCells(e2)
        BY <1>6, <2>2, OneEntryMore DEF s2
      <3>3. BodyOf(s3) = BodyOf(s2) \o EntryCells(e3)
        BY <1>6, <2>3, OneEntryMore DEF s3
      <3>4. BodyOf(s4) = BodyOf(s3) \o EntryCells(e4)
        BY <1>6, <2>4, OneEntryMore DEF s4
      <3>. QED
        BY <3>1, <3>2, <3>3, <3>4
    <2>11. \A a, b \in Seq(NumCells) : a \o b \in Seq(NumCells) /\ Len(a \o b) = Len(a) + Len(b)
      BY ConcatProperties
    <2>12. BodyOf(s0) \in Seq(NumCells) /\ Len(BodyOf(s0)) = 0
      BY <2>7, EmptySeq
    <2>13. BodyOf(s1) \in Seq(NumCells) /\ Len(BodyOf(s1)) = 5
      BY <2>9, <2>10, <2>11, <2>12
    <2>14. BodyOf(s2) \in Seq(NumCells) /\ Len(BodyOf(s2)) = 8
      <3>1. BodyOf(s2) \in Seq(NumCells) /\ Len(BodyOf(s2)) = Len(BodyOf(s1)) + Len(EntryCells(e2))
        BY <2>9, <2>10, <2>11, <2>13, Zenon
      <3>. QED
        BY <2>9, <2>13, <3>1
    <2>15. BodyOf(s3) \in Seq(NumCells) /\ Len(BodyOf(s3)) = CreatedAtLen + 10
      BY <1>1, <2>9, <2>10, <2>11, <2>14
    <2>16. Len(BodyOf(s4)) = CreatedAtLen + 15
      <3>1. Len(BodyOf(s4)) = Len(BodyOf(s3)) + Len(EntryCells(e4))
        BY <2>9, <2>10, <2>11, <2>15, Zenon
      <3>. QED
        BY <1>1, <2>9, <2>15, <3>1
    <2>. QED
      BY <2>6, <2>16
  <1>12. \A i \in DOMAIN metadata : /\ validReservedMetadata(metadata[i])
                                    /\ i > 1 => metadata[i-1].tag # metadata[i].tag
    <2>1. DOMAIN metadata = 1..4 /\ metadata[1] = e1 /\ metadata[2] = e2 /\ metadata[3] = e3 /\ metadata[4] = e4
      BY <1>9
    <2>2. \A i \in 1..4 : validReservedMetadata(metadata[i])
      BY <1>8, <2>1
    <2>3. \A i \in 1..4 : i > 1 => metadata[i-1].tag # metadata[i].tag
      BY <1>7, <2>1
    <2>. QED
      BY <2>1, <2>2, <2>3
  <1>13. EncodedInOrder(metadata).ok
    BY <1>1, <1>11, <1>12 DEF EncodedInOrder
  <1>14. Sorted(metadata) = metadata
    BY <1>10, AscendingIsSorted
  <1>. QED
    BY <1>10, <1>13, <1>14, EncodesSorted

(* So is no metadata at all.                                               *)
LEMMA NoMetadataEncodes ==
  <<>> \in Seq(Entry) /\ EncodeMetadata(<<>>).ok
  BY DEF EncodeMetadata

(* Every positive vector is what the SDK writes, ...                       *)
Reproduced(v) == SdkEncoding(v) = Encoded(v.data)

(* ... whatever its input, with metadata or without, ...                   *)
LEMMA PositiveIsReproduced ==
  ASSUME NEW id, NEW name, NEW encrypted \in BOOLEAN, NEW entries \in Seq(Entry), EncodeMetadata(entries).ok
  PROVE  Reproduced(Positive(id, name, encrypted, entries))
  <1>. DEFINE v == Positive(id, name, encrypted, entries)
              input == inputs[name]
  <1>1. /\ v.encrypted = encrypted /\ v.input = input /\ v.entries = entries
        /\ v.data = encode(input, FixedKey, FixedNonce, encrypted, entries)
    BY DEF Positive
  <1>2. Len(FixedKey) = KeyLen
    BY DEF FixedKey, KeyLen
  <1>. HIDE DEF v, input
  <1>3. CASE encrypted = TRUE
    <2>1. EncodeEncryptedWithFixedNonce(input, FixedKey, FixedNonce, entries, ChunkSize) =
            Encoded(encode(input, FixedKey, FixedNonce, TRUE, entries))
      BY <1>2, GeneratedEncrypted
    <2>. QED
      BY <1>1, <1>3, <2>1, Zenon DEF Reproduced, SdkEncoding, v
  <1>4. CASE encrypted = FALSE
    <2>1. EncodePlain(input, entries, ChunkSize) =
            Encoded(encode(input, FixedKey, FixedNonce, FALSE, entries))
      BY GeneratedPlain
    <2>. QED
      BY <1>1, <1>4, <2>1, Zenon DEF Reproduced, SdkEncoding, v
  <1>. QED
    BY <1>3, <1>4

(* ... and every other vector expects an error.                            *)
LEMMA NegativesExpectErrors ==
  ASSUME NEW v \in buildNegatives(positive)
  PROVE  v.expectError # NoError
  <1>1. PICK item \in items(positive) : v.expectError = item[2]
    BY DEF buildNegatives
  <1>2. item[2] \in ErrorCode
    <2>1. \E id, data : \E err \in ErrorCode : item = <<id, err, data>>
      BY <1>1, Zenon DEF items, ErrorCode
    <2>. QED
      BY <2>1
  <1>3. NoError \notin ErrorCode
    BY DEF ErrorCode, NoError, BadMagic, UnsupportedVer, UnsupportedAlgo, ReservedBits, Truncated,
           MetaMalformed, RootMismatch, ChunkAuth, MissingKey, TrailingData
  <1>. QED
    BY <1>1, <1>2, <1>3

(* There are no other vectors.                                             *)
LEMMA VectorsAreReproduced ==
  ASSUME NEW v \in vectors, v.expectError = NoError
  PROVE  Reproduced(v)
  <1>1. v \in positive
    BY NegativesExpectErrors DEF vectors, buildArtifacts
  <1>2. \E id : \E name : \E encrypted \in BOOLEAN : \E entries \in {<<>>, metadata} :
           v = Positive(id, name, encrypted, entries)
    BY <1>1, Zenon DEF positive
  <1>. QED
    BY <1>2, PositiveIsReproduced, NoMetadataEncodes, VectorMetadataEncodes

(* The vector under test stays what it was at the start.                   *)
VectorKnown == vector \in Vectors \cup {NoVector}

(* Whatever the chunk size, the SDK's encoders write every positive vector *)
(* of the generator to the cell: EncodePlain and EncodeEncrypted of        *)
(* encoder.go and `encode` of vectorgen/main.go are one encoding.          *)
THEOREM VectorsReproduced == ConformanceSpec => []SdkReproducesVectors
  <1>1. ConformanceInit => VectorKnown
    BY DEF ConformanceInit, VectorKnown
  <1>2. VectorKnown /\ [ConformanceNext]_conformanceVars => VectorKnown'
    BY DEF VectorKnown, ConformanceNext, conformanceVars
  <1>3. VectorKnown => SdkReproducesVectors
    BY VectorsAreReproduced, ConformanceAssumption DEF VectorKnown, SdkReproducesVectors, Reproduced
  <1>. QED
    BY <1>1, <1>2, <1>3, PTL DEF ConformanceSpec
=============================================================================
