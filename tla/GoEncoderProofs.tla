-------------------------- MODULE GoEncoderProofs ---------------------------
(***************************************************************************)
(* The plaintext the Go Encoder holds and the container its sink gets, for *)
(* all buffers, options and metadata, and wherever an operation fails.     *)
(***************************************************************************)
EXTENDS GoEncoder, MetaCodec, UbcFormatProofs

-----------------------------------------------------------------------------
(* The temporary file holds exactly the bytes Write said it took, also     *)
(* after short writes, until it is removed; and their number, which Close  *)
(* puts into the header, fits into 64 bits and never wrapped.              *)
SpoolIsExact ==
  /\ spool.exists => spool.data = accepted
  /\ totalSize = Len(accepted) /\ totalSize <= MaxU64

(* The file exists from NewEncoder on, and until then nothing was taken.   *)
SpoolInv ==
  /\ accepted \in Seq(NumCells) /\ DOMAIN spool = {"exists", "data"}
  /\ SpoolIsExact
  /\ step = "new" => accepted = <<>> /\ ~closed
  /\ step \notin {"new", "refused"} /\ ~spool.exists => closed
  /\ step \notin {"new", "refused", "idle"} => closed

LEMMA InitSpool == EncInit => SpoolInv
  <1>. SUFFICES ASSUME EncInit
                PROVE  SpoolInv
    OBVIOUS
  <1>1. /\ accepted = <<>> /\ totalSize = 0 /\ step = "new" /\ closed = FALSE
        /\ spool = [exists |-> FALSE, data |-> <<>>]
    BY DEF EncInit, NoFile
  <1>2. MaxU64 \in Nat
    BY WidthAssumption
  <1>. QED
    BY <1>1, <1>2 DEF SpoolInv, SpoolIsExact

LEMMA NewKeeps ==
  ASSUME SpoolInv, NewEncoder
  PROVE  SpoolInv'
  <1>1. step = "new" /\ UNCHANGED <<closed, accepted, totalSize>>
    BY DEF NewEncoder, writeVars
  <1>2. \/ step' = "refused" /\ UNCHANGED spool
        \/ step' = "idle" /\ spool' = [exists |-> TRUE, data |-> <<>>]
    BY DEF NewEncoder
  <1>3. accepted = <<>>
    BY <1>1 DEF SpoolInv
  <1>. QED
    BY <1>1, <1>2, <1>3 DEF SpoolInv, SpoolIsExact

(* What Write counts is what it appended.                                  *)
LEMMA TakeKeeps ==
  ASSUME SpoolInv, NEW p \in Pieces, NEW n \in 0..Len(p), WriteTakes(p, n), UNCHANGED <<closed, step>>
  PROVE  SpoolInv'
  <1>. DEFINE part == SubSeq(p, 1, n)
  <1>1. p \in Seq(NumCells) /\ Len(p) \in Nat /\ n \in Nat /\ n <= Len(p)
    BY EncoderAssumption
  <1>2. part \in Seq(NumCells) /\ Len(part) = n
    BY <1>1, SubSeqProperties
  <1>3. /\ step = "idle" /\ ~closed /\ ~(Len(p) > MaxU64 - totalSize)
        /\ spool' = [spool EXCEPT !.data = spool.data \o part]
        /\ totalSize' = AddU64(totalSize, n) /\ accepted' = accepted \o part
    BY DEF WriteTakes, Open, TooMuch, Counted
  <1>4. spool.exists /\ spool.data = accepted /\ accepted \in Seq(NumCells)
        /\ totalSize = Len(accepted) /\ totalSize \in Nat /\ MaxU64 \in Nat
    BY <1>3, WidthAssumption DEF SpoolInv, SpoolIsExact
  <1>5. totalSize' = totalSize + n /\ totalSize + n <= MaxU64
    BY <1>1, <1>3, <1>4 DEF AddU64
  <1>. HIDE DEF part
  <1>6. accepted' \in Seq(NumCells) /\ Len(accepted') = Len(accepted) + n
    <2>1. accepted \o part \in Seq(NumCells) /\ Len(accepted \o part) = Len(accepted) + Len(part)
      BY <1>2, <1>4, ConcatProperties
    <2>. QED
      BY <1>2, <1>3, <2>1
  <1>7. /\ DOMAIN spool' = {"exists", "data"} /\ spool'.exists = spool.exists
        /\ spool'.data = accepted'
    BY <1>3, <1>4 DEF SpoolInv
  <1>. QED
    BY <1>3, <1>4, <1>5, <1>6, <1>7 DEF SpoolInv, SpoolIsExact

LEMMA WriteKeeps ==
  ASSUME SpoolInv, NEW p \in Pieces, Write(p)
  PROVE  SpoolInv'
  <1>1. CASE WriteRefused(p)
    BY <1>1 DEF Write, WriteRefused, SpoolInv, SpoolIsExact
  <1>2. ASSUME NEW n \in 0..Len(p), WriteTakes(p, n)
        PROVE  SpoolInv'
    BY <1>2, TakeKeeps DEF Write
  <1>. QED
    BY <1>1, <1>2 DEF Write

(* Close adds nothing and takes nothing away before it removes the file.   *)
LEMMA CloseKeeps ==
  ASSUME SpoolInv, Close \/ Closing
  PROVE  SpoolInv'
  <1>1. UNCHANGED <<accepted, totalSize>>
    BY DEF Close, Closing, CloseAgain, CloseStarts, CloseWritesHeader, CloseWritesMetadata,
           CloseSeeks, CloseWritesChunk, CloseWritesRoot, CloseWritesMagic, CloseReturns, writeVars
  <1>2. CASE Close
    BY <1>1, <1>2 DEF Close, CloseAgain, CloseStarts, Goes, Aborts, SpoolInv, SpoolIsExact
  <1>3. CASE CloseReturns
    <2>1. step = "cleanup" /\ step' = "idle" /\ closed' = closed /\ spool' \in {spool, NoFile}
      BY <1>3 DEF CloseReturns
    <2>. QED
      BY <1>1, <2>1 DEF SpoolInv, SpoolIsExact, NoFile
  <1>4. ASSUME step \notin {"new", "refused", "idle"}, step' \notin {"new", "refused", "idle"},
               UNCHANGED <<spool, closed>>
        PROVE  SpoolInv'
    BY <1>1, <1>4 DEF SpoolInv, SpoolIsExact
  <1>5. CASE CloseWritesHeader
    BY <1>4, <1>5 DEF CloseWritesHeader, WriteAll, WriteBreaks, Goes, Aborts
  <1>6. CASE CloseWritesMetadata
    BY <1>4, <1>6 DEF CloseWritesMetadata, WriteAll, WriteBreaks, Goes, Aborts
  <1>7. CASE CloseSeeks
    BY <1>4, <1>7 DEF CloseSeeks, Goes, Aborts
  <1>8. CASE CloseWritesChunk
    BY <1>4, <1>8 DEF CloseWritesChunk, WriteBreaks, Goes, Aborts
  <1>9. CASE CloseWritesRoot
    BY <1>4, <1>9 DEF CloseWritesRoot, WriteAll, WriteBreaks, Goes, Aborts
  <1>10. CASE CloseWritesMagic
    BY <1>4, <1>10 DEF CloseWritesMagic, WriteAll, WriteBreaks, Goes, Aborts
  <1>. QED
    BY <1>2, <1>3, <1>5, <1>6, <1>7, <1>8, <1>9, <1>10 DEF Closing

LEMMA StepSpool == SpoolInv /\ [EncNext]_encVars => SpoolInv'
  <1>. SUFFICES ASSUME SpoolInv, [EncNext]_encVars
                PROVE  SpoolInv'
    OBVIOUS
  <1>1. CASE UNCHANGED encVars
    BY <1>1 DEF encVars, writeVars, SpoolInv, SpoolIsExact
  <1>. QED
    BY <1>1, NewKeeps, WriteKeeps, CloseKeeps DEF EncNext

(* What the header will say of the plaintext is true, whatever was short   *)
(* and whatever failed.                                                    *)
THEOREM SpoolExact == EncSpec => []SpoolIsExact
  <1>1. SpoolInv => SpoolIsExact
    BY DEF SpoolInv
  <1>. QED
    BY <1>1, InitSpool, StepSpool, PTL DEF EncSpec

(* A closed encoder takes nothing more, adds nothing to its sink and       *)
(* answers every call with the same error.                                 *)
THEOREM ClosedForGood == EncSpec => ClosedIsFinal
  <1>. DEFINE Final ==
         closed /\ step = "idle" =>
           /\ sink' = sink /\ accepted' = accepted /\ spool' = spool
           /\ answer' = ErrClosed
  <1>1. ASSUME EncNext, closed, step = "idle"
        PROVE  sink' = sink /\ accepted' = accepted /\ spool' = spool /\ answer' = ErrClosed
    <2>1. ASSUME NEW p \in Pieces, Write(p)
          PROVE  sink' = sink /\ accepted' = accepted /\ spool' = spool /\ answer' = ErrClosed
      BY <1>1, <2>1 DEF Write, WriteRefused, WriteTakes, Open
    <2>2. CASE CloseAgain
      BY <2>2 DEF CloseAgain, writeVars
    <2>3. ~NewEncoder /\ ~CloseStarts /\ ~Closing
      BY <1>1 DEF NewEncoder, CloseStarts, Closing, CloseWritesHeader, CloseWritesMetadata,
                  CloseSeeks, CloseWritesChunk, CloseWritesRoot, CloseWritesMagic, CloseReturns
    <2>. QED
      BY <1>1, <2>1, <2>2, <2>3 DEF EncNext, Close
  <1>2. [EncNext]_encVars => [Final]_encVars
    BY <1>1
  <1>. QED
    BY <1>2, PTL DEF EncSpec, ClosedIsFinal

-----------------------------------------------------------------------------
(* What Close writes.                                                      *)

(* The header that the one-shot encoder makes of the accepted bytes, with  *)
(* the base nonce that Close took.                                         *)
HeaderFor ==
  IF eoptions.Key = NoKey
  THEN PlainHeader(eoptions.ChunkSize, Len(accepted), metadata # <<>>)
  ELSE EncryptedHeader(eoptions.ChunkSize, Len(accepted), metadata # <<>>, eheader.baseNonce)

TheHeader == HeaderCell(eheader)

Bodies ==
  LET chunks == ChunksOf(accepted, eoptions.ChunkSize)
  IN  IF eoptions.Key = NoKey THEN chunks
      ELSE SealedChunks(eoptions.Key, eheader.baseNonce, TheHeader, metadata, chunks)

RootKey == IF eoptions.Key = NoKey THEN NoKey ELSE rootKey(eoptions.Key, eheader.baseNonce)

Whole == Container(RootKey, TheHeader, metadata, Bodies)

Made  == eheader = HeaderFor /\ eheader.baseNonce \in Nat
Legal == Made /\ validate(eheader) = NoError

SoFar(k)  == Written(TheHeader, metadata, Bodies, k)
Digest(k) == Hashed(TheHeader, metadata, Bodies, k)

(* What NewEncoder has checked and stored.                                 *)
ArgsInv ==
  /\ entries \in Seq(Entry)
  /\ eoptions \in [Key : Seq(Nat), ChunkSize : 0..MaxU32, BaseNonce : Nat \cup {NoNonce}]
  /\ step \notin {"new", "refused"} =>
       /\ eoptions.ChunkSize # 0 /\ Len(eoptions.Key) \in {0, KeyLen}
       /\ EncodeMetadata(entries).ok /\ metadata = EncodeMetadata(entries).region

Writing == {"header", "metadata", "seek", "chunks", "magic"}

(* How far the sink and the hash are before each of Close's writes.        *)
StageInv ==
  /\ step \in Writing => Legal /\ closeErr = NoError /\ spool.exists
  /\ (~closed \/ step \in {"header", "metadata", "seek"}) => index = 0
  /\ (~closed \/ step = "header") => sink = <<>>
  /\ step = "metadata" => sink = <<TheHeader>>
  /\ step = "seek" => sink = <<TheHeader>> \o metadata
  /\ step = "chunks" => /\ index \in 0..Len(Bodies) /\ sink = SoFar(index)
                        /\ eroot = [key |-> RootKey, input |-> Digest(index)]
  /\ step = "magic" => sink = SoFar(Len(Bodies)) \o <<RootCell(RootKey, Digest(Len(Bodies)))>>

(* What Close has done when it cleans up, and when it has returned.        *)
Outcome ==
  \/ closeErr = Failure /\ sink = <<>>
  \/ Made /\ validate(eheader) # NoError /\ closeErr = validate(eheader) /\ sink = <<>>
  \/ Legal /\ closeErr = Failure /\ sink \in Seq(Cells) /\ Begins(sink, Whole, Cells)
  \/ Legal /\ closeErr = NoError /\ sink = Whole

OutcomeInv ==
  /\ closed => step \in Writing \cup {"cleanup", "idle"}
  /\ closed /\ step \in {"cleanup", "idle"} => Outcome
  /\ ~closed => closeErr = NoError
  /\ closed /\ step = "idle" /\ closeErr = NoError => ~spool.exists

SinkInv == SpoolInv /\ ArgsInv /\ StageInv /\ OutcomeInv

-----------------------------------------------------------------------------
(* What a legal header means: the pieces are cells, there is a body for    *)
(* every chunk the header counts, and the one-shot encoder makes the same  *)
(* container.                                                              *)

LEMMA ArgsAreNumbers ==
  ASSUME SpoolInv, ArgsInv, step \notin {"new", "refused"}
  PROVE  /\ eoptions.ChunkSize \in 1..MaxU32 /\ eoptions.Key \in Seq(Nat)
         /\ eoptions.Key # NoKey <=> Len(eoptions.Key) = KeyLen
         /\ metadata \in Seq(NumCells)
         /\ accepted \in Seq(NumCells) /\ Len(accepted) \in 0..MaxU64
         /\ totalSize = Len(accepted)
  <1>1. eoptions.ChunkSize \in 0..MaxU32 /\ eoptions.ChunkSize # 0 /\ MaxU32 \in Nat
    BY WidthAssumption DEF ArgsInv
  <1>2. eoptions.Key \in Seq(Nat) /\ Len(eoptions.Key) \in {0, 1}
    BY DEF ArgsInv, KeyLen
  <1>3. metadata \in Seq(NumCells)
    BY RegionIsNumbers DEF ArgsInv
  <1>4. /\ accepted \in Seq(NumCells) /\ Len(accepted) \in 0..MaxU64
        /\ totalSize = Len(accepted)
    BY WidthAssumption DEF SpoolInv, SpoolIsExact
  <1>5. eoptions.Key # NoKey <=> Len(eoptions.Key) = KeyLen
    <2>. DEFINE key == eoptions.Key
    <2>1. key \in Seq(Nat) /\ Len(key) \in {0, 1}
      BY <1>2
    <2>. HIDE DEF key
    <2>2. key # <<>> <=> Len(key) = 1
      BY <2>1
    <2>. QED
      BY <2>2 DEF key, NoKey, KeyLen
  <1>. QED
    BY <1>1, <1>2, <1>3, <1>4, <1>5

LEMMA MadeHeaderIsCell ==
  ASSUME SpoolInv, ArgsInv, step \notin {"new", "refused"}, Made
  PROVE  /\ TheHeader \in HeaderCells /\ RootKey \in {NoKey} \cup (Seq(Nat) \X Nat)
         /\ eheader.encrypted = (eoptions.Key # NoKey) /\ eheader.chunkSize = eoptions.ChunkSize
         /\ eheader.chunkCount = (Len(accepted) + eoptions.ChunkSize - 1) \div eoptions.ChunkSize
  <1>1. /\ eoptions.ChunkSize \in 1..MaxU32 /\ eoptions.Key \in Seq(Nat)
        /\ Len(accepted) \in 0..MaxU64 /\ eheader.baseNonce \in Nat
        /\ (metadata # <<>>) \in BOOLEAN
    BY ArgsAreNumbers DEF Made
  <1>2. eheader = HeaderFor
    BY DEF Made
  <1>3. TheHeader \in HeaderCells
    <2>. DEFINE plain == PlainHeader(eoptions.ChunkSize, Len(accepted), metadata # <<>>)
                sealed == EncryptedHeader(eoptions.ChunkSize, Len(accepted), metadata # <<>>,
                                          eheader.baseNonce)
    <2>1. HeaderCell(plain) \in HeaderCells /\ HeaderCell(sealed) \in HeaderCells
      BY <1>1, HeadersAreCells
    <2>2. eheader = plain \/ eheader = sealed
      BY <1>2 DEF HeaderFor
    <2>. HIDE DEF plain, sealed
    <2>. QED
      BY <2>1, <2>2 DEF TheHeader
  <1>4. RootKey \in {NoKey} \cup (Seq(Nat) \X Nat)
    BY <1>1 DEF RootKey, rootKey
  <1>5. /\ eheader.encrypted = (eoptions.Key # NoKey) /\ eheader.chunkSize = eoptions.ChunkSize
        /\ eheader.chunkCount = (Len(accepted) + eoptions.ChunkSize - 1) \div eoptions.ChunkSize
    <2>1. CASE eoptions.Key = NoKey
      <3>1. eheader = PlainHeader(eoptions.ChunkSize, Len(accepted), metadata # <<>>)
        BY <1>2, <2>1 DEF HeaderFor
      <3>. QED
        BY <2>1, <3>1 DEF PlainHeader
    <2>2. CASE eoptions.Key # NoKey
      <3>1. eheader = EncryptedHeader(eoptions.ChunkSize, Len(accepted), metadata # <<>>,
                                      eheader.baseNonce)
        BY <1>2, <2>2 DEF HeaderFor
      <3>. QED
        BY <2>2, <3>1 DEF EncryptedHeader, PlainHeader
    <2>. QED
      BY <2>1, <2>2
  <1>. QED
    BY <1>3, <1>4, <1>5

LEMMA LegalBodies ==
  ASSUME SpoolInv, ArgsInv, step \notin {"new", "refused"}, Legal
  PROVE  /\ Bodies \in Seq(Seq(BodyCells)) /\ Len(Bodies) = eheader.chunkCount
         /\ \A i \in 1..Len(Bodies) : Len(Bodies[i]) <= MaxU32
  <1>. DEFINE chunks == ChunksOf(accepted, eoptions.ChunkSize)
  <1>1. /\ eoptions.ChunkSize \in 1..MaxU32 /\ eoptions.Key \in Seq(Nat)
        /\ metadata \in Seq(NumCells) /\ accepted \in Seq(NumCells)
        /\ eheader.baseNonce \in Nat /\ TheHeader \in HeaderCells
        /\ eheader.encrypted = (eoptions.Key # NoKey) /\ eheader.chunkSize = eoptions.ChunkSize
    BY ArgsAreNumbers, MadeHeaderIsCell DEF Legal, Made
  <1>2. Len(chunks) = eheader.chunkCount
    <2>1. eoptions.ChunkSize \in Nat \ {0}
      BY <1>1
    <2>. DEFINE size == eoptions.ChunkSize
    <2>. HIDE DEF size
    <2>2. Len(ChunksOf(accepted, size)) = (Len(accepted) + size - 1) \div size
      <3>1. size \in Nat \ {0}
        BY <2>1 DEF size
      <3>2. CutOf(ChunksOf(accepted, size), accepted, size)
        BY <1>1, <3>1, TextIsCut, Zenon
      <3>. QED
        BY <3>2, Zenon DEF CutOf
    <2>. QED
      BY <2>2, MadeHeaderIsCell DEF Legal, size
  <1>3. CASE eoptions.Key = NoKey
    <2>1. /\ chunks \in Seq(Seq(BodyCells))
          /\ \A i \in 1..Len(chunks) : Len(chunks[i]) <= MaxU32
      BY <1>1, BodiesArePlain
    <2>. QED
      BY <1>2, <1>3, <2>1 DEF Bodies
  <1>4. CASE eoptions.Key # NoKey
    <2>1. eoptions.ChunkSize \in 1..MaxU32 - TagLen
      <3>1. ~(eheader.chunkSize > MaxU32 - TagLen)
        BY <1>1, <1>4 DEF Legal, validate, NoError, ReservedBits, UnsupportedAlgo, UnsupportedVer
      <3>. QED
        BY <1>1, <3>1, WidthAssumption DEF TagLen
    <2>. DEFINE sealed == SealedChunks(eoptions.Key, eheader.baseNonce, TheHeader, metadata, chunks)
    <2>2. /\ sealed \in Seq(Seq(BodyCells)) /\ Len(sealed) = Len(chunks)
          /\ \A i \in 1..Len(sealed) : Len(sealed[i]) <= MaxU32
      <3>1. /\ accepted \in Seq(NumCells) /\ eoptions.Key \in Seq(Nat) /\ eheader.baseNonce \in Nat
            /\ TheHeader \in HeaderCells /\ metadata \in Seq(NumCells)
        BY <1>1, <1>4
      <3>2. Fitting(sealed, Len(chunks))
        BY <2>1, <3>1, SealedFits, Zenon
      <3>. QED
        BY <3>2, Zenon DEF Fitting
    <2>. QED
      BY <1>2, <1>4, <2>2 DEF Bodies
  <1>. QED
    BY <1>3, <1>4

(* The one-shot encoder accepts what the streaming encoder accepts.        *)
LEMMA OneShotAgrees ==
  ASSUME SpoolInv, ArgsInv, step \notin {"new", "refused"}, Made
  PROVE  OneShotContainer = IF validate(eheader) = NoError THEN Encoded(Whole)
                            ELSE Rejected(validate(eheader))
  <1>. DEFINE meta == EncodeMetadata(entries)
              size == eoptions.ChunkSize
  <1>1. size # 0 /\ meta.ok /\ metadata = meta.region
    BY DEF ArgsInv
  <1>2. CASE eoptions.Key = NoKey
    <2>1. eheader = PlainHeader(size, Len(accepted), meta.region # <<>>)
      BY <1>1, <1>2 DEF Made, HeaderFor
    <2>2. OneShotContainer = EncodePlain(accepted, entries, size)
      BY <1>2 DEF OneShotContainer
    <2>3. Whole = Container(NoKey, HeaderCell(eheader), meta.region, ChunksOf(accepted, size))
      BY <1>1, <1>2 DEF Whole, RootKey, TheHeader, Bodies
    <2>. HIDE DEF size
    <2>. QED
      BY <1>1, <2>1, <2>2, <2>3 DEF EncodePlain
  <1>3. CASE eoptions.Key # NoKey
    <2>1. eheader = EncryptedHeader(size, Len(accepted), meta.region # <<>>, eheader.baseNonce)
      BY <1>1, <1>3 DEF Made, HeaderFor
    <2>2. Len(eoptions.Key) = KeyLen
      BY <1>3, ArgsAreNumbers
    <2>3. OneShotContainer
            = EncodeEncryptedWithFixedNonce(accepted, eoptions.Key, eheader.baseNonce, entries, size)
      BY <1>3 DEF OneShotContainer
    <2>4. Whole = Container(rootKey(eoptions.Key, eheader.baseNonce), HeaderCell(eheader), meta.region,
                            SealedChunks(eoptions.Key, eheader.baseNonce, HeaderCell(eheader),
                                         meta.region, ChunksOf(accepted, size)))
      BY <1>1, <1>3 DEF Whole, RootKey, TheHeader, Bodies
    <2>. HIDE DEF meta, size
    <2>. QED
      BY <1>1, <2>1, <2>2, <2>3, <2>4 DEF EncodeEncryptedWithFixedNonce, SealedChunks, meta
  <1>. QED
    BY <1>2, <1>3

-----------------------------------------------------------------------------
(* The pieces of a legal container, in the order Close writes them.        *)

TheRoot == <<RootCell(RootKey, Digest(Len(Bodies)))>>

LEMMA LegalIsCells ==
  ASSUME SpoolInv, ArgsInv, step \notin {"new", "refused"}, Legal
  PROVE  /\ TheHeader \in HeaderCells /\ metadata \in Seq(NumCells)
         /\ Bodies \in Seq(Seq(BodyCells)) /\ \A i \in 1..Len(Bodies) : Len(Bodies[i]) <= MaxU32
         /\ RootKey \in {NoKey} \cup (Seq(Nat) \X Nat)
         /\ Len(Bodies) = eheader.chunkCount /\ Len(Bodies) \in Nat
  <1>1. Bodies \in Seq(Seq(BodyCells)) => Len(Bodies) \in Nat
    OBVIOUS
  <1>. QED
    BY <1>1, ArgsAreNumbers, MadeHeaderIsCell, LegalBodies DEF Legal

LEMMA Prologue ==
  ASSUME SpoolInv, ArgsInv, step \notin {"new", "refused"}, Legal
  PROVE  /\ <<TheHeader>> \in Seq(Cells) /\ metadata \in Seq(Cells)
         /\ <<TheHeader>> \o metadata \in Seq(Cells)
         /\ SoFar(0) = <<TheHeader>> \o metadata /\ Digest(0) = <<TheHeader>> \o metadata
         /\ Begins(<<TheHeader>> \o metadata, Whole, Cells) /\ Begins(<<TheHeader>>, Whole, Cells)
  <1>1. <<TheHeader>> \in Seq(Cells) /\ metadata \in Seq(Cells) /\ <<TheHeader>> \o metadata \in Seq(Cells)
    BY LegalIsCells, PrologueIsCells
  <1>2. SoFar(0) = <<TheHeader>> \o metadata /\ Digest(0) = <<TheHeader>> \o metadata
    BY LegalIsCells, NothingWritten DEF SoFar, Digest
  <1>3. Begins(SoFar(0), Whole, Cells)
    <2>1. 0 \in 0..Len(Bodies)
      BY LegalIsCells
    <2>. QED
      BY <2>1, LegalIsCells, WrittenBegins DEF SoFar, Whole
  <1>4. Begins(<<TheHeader>>, Whole, Cells)
    BY <1>1, <1>2, <1>3, BeginsShorter
  <1>. QED
    BY <1>1, <1>2, <1>3, <1>4

LEMMA Chunks ==
  ASSUME SpoolInv, ArgsInv, step \notin {"new", "refused"}, Legal, NEW k \in 0..Len(Bodies)
  PROVE  /\ SoFar(k) \in Seq(Cells) /\ Begins(SoFar(k), Whole, Cells)
         /\ k < Len(Bodies) =>
              /\ k + 1 \in 0..Len(Bodies)
              /\ SoFar(k + 1) = SoFar(k) \o Framed(Bodies[k + 1])
              /\ Digest(k + 1) = Append(Digest(k), Leaf(Bodies[k + 1]))
              /\ Framed(Bodies[k + 1]) \in Seq(Cells)
              /\ Begins(SoFar(k) \o Framed(Bodies[k + 1]), Whole, Cells)
  <1>1. SoFar(k) \in Seq(Cells)
    BY LegalIsCells, WrittenIsCells DEF SoFar
  <1>2. Begins(SoFar(k), Whole, Cells)
    BY LegalIsCells, WrittenBegins DEF SoFar, Whole
  <1>3. ASSUME k < Len(Bodies)
        PROVE  /\ k + 1 \in 0..Len(Bodies)
               /\ SoFar(k + 1) = SoFar(k) \o Framed(Bodies[k + 1])
               /\ Digest(k + 1) = Append(Digest(k), Leaf(Bodies[k + 1]))
               /\ Framed(Bodies[k + 1]) \in Seq(Cells)
               /\ Begins(SoFar(k) \o Framed(Bodies[k + 1]), Whole, Cells)
    <2>1. k \in 0..Len(Bodies) - 1 /\ k + 1 \in 0..Len(Bodies)
      BY <1>3, LegalIsCells
    <2>2. /\ SoFar(k + 1) = SoFar(k) \o Framed(Bodies[k + 1])
          /\ Digest(k + 1) = Append(Digest(k), Leaf(Bodies[k + 1]))
          /\ Framed(Bodies[k + 1]) \in Seq(Cells)
      BY <2>1, LegalIsCells, ChunkWritten DEF SoFar, Digest
    <2>3. \A m \in 0..Len(Bodies) : Begins(SoFar(m), Whole, Cells)
      BY LegalIsCells, WrittenBegins DEF SoFar, Whole
    <2>. QED
      BY <2>1, <2>2, <2>3
  <1>. QED
    BY <1>1, <1>2, <1>3

LEMMA Epilogue ==
  ASSUME SpoolInv, ArgsInv, step \notin {"new", "refused"}, Legal
  PROVE  LET all == SoFar(Len(Bodies))
         IN  /\ all \in Seq(Cells) /\ TheRoot \in Seq(Cells) /\ <<MagicEnd>> \in Seq(Cells)
             /\ all \o TheRoot \in Seq(Cells) /\ Whole \in Seq(Cells)
             /\ Whole = (all \o TheRoot) \o <<MagicEnd>>
             /\ Begins(all \o TheRoot, Whole, Cells) /\ Begins(Whole, Whole, Cells)
  <1>. DEFINE all == SoFar(Len(Bodies))
  <1>1. /\ all \in Seq(Cells) /\ TheRoot \in Seq(Cells) /\ <<MagicEnd>> \in Seq(Cells)
        /\ Whole = (all \o TheRoot) \o <<MagicEnd>> /\ Whole \in Seq(Cells)
    <2>1. /\ TheHeader \in HeaderCells /\ metadata \in Seq(NumCells)
          /\ Bodies \in Seq(Seq(BodyCells)) /\ \A i \in 1..Len(Bodies) : Len(Bodies[i]) <= MaxU32
          /\ RootKey \in {NoKey} \cup (Seq(Nat) \X Nat)
      BY LegalIsCells, Zenon
    <2>. QED
      <3>1. EndsWith(Whole, SoFar(Len(Bodies)), RootCell(RootKey, Digest(Len(Bodies))))
        BY <2>1, ContainerEnds, Zenon DEF SoFar, Digest, Whole
      <3>. QED
        BY <3>1, Zenon DEF EndsWith, TheRoot
  <1>. HIDE DEF all
  <1>2. all \o TheRoot \in Seq(Cells)
    BY <1>1, ConcatProperties
  <1>3. Begins(all \o TheRoot, Whole, Cells)
    BY <1>1 DEF Begins
  <1>4. Begins(Whole, Whole, Cells)
    BY <1>1, BeginsItself
  <1>. QED
    BY <1>1, <1>2, <1>3, <1>4 DEF all

(* A chunk that Close reads back from the file is the chunk of that index. *)
LEMMA ReadsItsChunk ==
  ASSUME SpoolInv, ArgsInv, step = "chunks", spool.exists, Legal, index \in 0..Len(Bodies),
         index < eheader.chunkCount
  PROVE  ChunkBody = Bodies[index + 1]
  <1>. DEFINE size == eoptions.ChunkSize
              chunks == ChunksOf(accepted, size)
  <1>1. /\ size \in Nat \ {0} /\ accepted \in Seq(NumCells) /\ totalSize = Len(accepted)
        /\ spool.data = accepted /\ eheader.encrypted = (eoptions.Key # NoKey)
        /\ Len(Bodies) = eheader.chunkCount /\ Len(Bodies) \in Nat
        /\ eheader.chunkCount = (Len(accepted) + size - 1) \div size
    BY ArgsAreNumbers, MadeHeaderIsCell, LegalIsCells DEF SpoolInv, SpoolIsExact, Legal
  <1>. HIDE DEF size
  <1>2. /\ chunks \in Seq(Seq(NumCells)) /\ Len(chunks) = eheader.chunkCount
        /\ \A i \in 1..Len(chunks) :
             chunks[i] = SubSeq(accepted, (i - 1) * size + 1,
                                (i - 1) * size + Lesser(size, Len(accepted) - (i - 1) * size))
    <2>1. size \in Nat \ {0} /\ accepted \in Seq(NumCells)
      BY <1>1
    <2>2. CutOf(chunks, accepted, size)
      BY <2>1, TextIsCut, Zenon
    <2>3. Len(chunks) = (Len(accepted) + size - 1) \div size
      BY <2>2, Zenon DEF CutOf
    <2>4. Len(chunks) = eheader.chunkCount
      BY <1>1, <2>3
    <2>. QED
      BY <2>2, <2>4, Zenon DEF CutOf
  <1>3. index + 1 \in 1..Len(chunks) /\ (index + 1) - 1 = index /\ DOMAIN chunks = 1..Len(chunks)
    BY <1>1, <1>2
  <1>. HIDE DEF chunks
  <1>4. ChunkPlain = chunks[index + 1]
    <2>1. chunks[index + 1] = SubSeq(accepted, index * size + 1,
                                     index * size + Lesser(size, Len(accepted) - index * size))
      BY <1>2, <1>3
    <2>. QED
      BY <1>1, <2>1 DEF ChunkPlain, size
  <1>5. CASE eoptions.Key = NoKey
    BY <1>1, <1>4, <1>5 DEF ChunkBody, Bodies, chunks, size
  <1>6. CASE eoptions.Key # NoKey
    <2>1. ChunkBody = sealChunk(eoptions.Key, eheader.baseNonce, TheHeader, metadata, index,
                                chunks[index + 1])
      BY <1>1, <1>4, <1>6 DEF ChunkBody, TheHeader
    <2>2. Bodies = SealedChunks(eoptions.Key, eheader.baseNonce, TheHeader, metadata, chunks)
      BY <1>6 DEF Bodies, chunks, size
    <2>3. Bodies[index + 1] = sealChunk(eoptions.Key, eheader.baseNonce, TheHeader, metadata,
                                        (index + 1) - 1, chunks[index + 1])
      BY <1>3, <2>2 DEF SealedChunks
    <2>. QED
      BY <1>3, <2>1, <2>3
  <1>. QED
    BY <1>5, <1>6

-----------------------------------------------------------------------------
(* The steps of Close.                                                     *)

LEMMA ArgsStay ==
  ASSUME ArgsInv, UNCHANGED argVars, step \notin {"new", "refused"}
  PROVE  ArgsInv'
  BY DEF ArgsInv, argVars

(* Close stops: what it has written begins the container.                  *)
LEMMA AbortKeeps ==
  ASSUME SinkInv, step \in Writing, Aborts(Failure), sink' \in Seq(Cells), Begins(sink', Whole, Cells),
         UNCHANGED <<argVars, accepted, eheader, closed>>
  PROVE  (ArgsInv /\ StageInv /\ OutcomeInv)'
  <1>1. step' = "cleanup" /\ closeErr' = Failure /\ closed /\ closed' /\ step \notin {"new", "refused"}
    BY DEF Aborts, SinkInv, SpoolInv, Writing
  <1>2. ArgsInv'
    BY <1>1, ArgsStay DEF SinkInv
  <1>3. StageInv'
    BY <1>1 DEF StageInv, Writing
  <1>4. Legal /\ Legal' = Legal /\ Whole' = Whole
    BY DEF SinkInv, StageInv, Legal, Made, HeaderFor, Whole, Bodies, RootKey, TheHeader, argVars
  <1>5. Outcome'
    <2>1. Begins(sink', Whole', Cells)
      BY <1>4
    <2>. QED
      BY <1>1, <1>4, <2>1 DEF Outcome
  <1>6. OutcomeInv'
    BY <1>1, <1>5 DEF OutcomeInv, Writing
  <1>. QED
    BY <1>2, <1>3, <1>6

(* Also in the middle of a piece.                                          *)
LEMMA BreakKeeps ==
  ASSUME SinkInv, step \in Writing, NEW piece \in Seq(Cells), WriteBreaks(piece),
         sink \in Seq(Cells), Begins(sink \o piece, Whole, Cells),
         UNCHANGED <<argVars, accepted, eheader, closed>>
  PROVE  (ArgsInv /\ StageInv /\ OutcomeInv)'
  <1>1. PICK n \in 0..Len(piece) - 1 : sink' = sink \o SubSeq(piece, 1, n)
    BY DEF WriteBreaks
  <1>2. n \in 0..Len(piece) /\ Aborts(Failure)
    BY DEF WriteBreaks
  <1>3. SubSeq(piece, 1, n) \in Seq(Cells) /\ Begins(sink \o SubSeq(piece, 1, n), Whole, Cells)
    BY <1>2, BeginsWithPart
  <1>4. sink \o SubSeq(piece, 1, n) \in Seq(Cells)
    BY <1>3, ConcatProperties
  <1>. QED
    BY <1>1, <1>2, <1>3, <1>4, AbortKeeps

(* A step to another write, of the same header.                            *)
LEMMA SameContainer ==
  ASSUME SinkInv, step \in Writing, UNCHANGED <<argVars, accepted, eheader>>
  PROVE  /\ Legal /\ Legal' /\ Whole' = Whole /\ TheHeader' = TheHeader /\ RootKey' = RootKey
         /\ Bodies' = Bodies /\ metadata' = metadata /\ step \notin {"new", "refused"} /\ closed
         /\ SpoolInv /\ ArgsInv
  BY DEF SinkInv, StageInv, SpoolInv, Legal, Made, HeaderFor, Whole, Bodies, RootKey, TheHeader,
         Writing, argVars

LEMMA HeaderKeeps ==
  ASSUME SinkInv, CloseWritesHeader
  PROVE  (ArgsInv /\ StageInv /\ OutcomeInv)'
  <1>1. step = "header" /\ step \in Writing /\ UNCHANGED <<argVars, accepted, eheader, closed, spool, index>>
    BY DEF CloseWritesHeader, Writing, writeVars, localVars
  <1>2. sink = <<>> /\ index = 0
    BY <1>1 DEF SinkInv, StageInv
  <1>3. /\ <<TheHeader>> \in Seq(Cells) /\ Begins(<<TheHeader>>, Whole, Cells)
        /\ <<>> \o <<TheHeader>> = <<TheHeader>> /\ <<>> \in Seq(Cells)
    BY <1>1, SameContainer, Prologue, ConcatEmptySeq, EmptySeq
  <1>4. CASE WriteBreaks(<<TheHeader>>)
    BY <1>1, <1>2, <1>3, <1>4, BreakKeeps
  <1>5. CASE sink' = sink \o <<TheHeader>> /\ Goes("metadata")
    <2>1. sink' = <<TheHeader>> /\ step' = "metadata" /\ closeErr' = closeErr
      BY <1>2, <1>3, <1>5 DEF Goes
    <2>2. ArgsInv' /\ OutcomeInv'
      BY <1>1, <2>1, ArgsStay, SameContainer DEF OutcomeInv, Writing
    <2>3. StageInv'
      BY <1>1, <1>2, <2>1, SameContainer DEF SinkInv, StageInv, Writing
    <2>. QED
      BY <2>2, <2>3
  <1>. QED
    BY <1>4, <1>5 DEF CloseWritesHeader, WriteAll, TheHeader

LEMMA MetadataKeeps ==
  ASSUME SinkInv, CloseWritesMetadata
  PROVE  (ArgsInv /\ StageInv /\ OutcomeInv)'
  <1>1. step = "metadata" /\ step \in Writing /\ UNCHANGED <<argVars, accepted, eheader, closed, spool, index>>
    BY DEF CloseWritesMetadata, Writing, writeVars, localVars
  <1>2. sink = <<TheHeader>> /\ index = 0
    BY <1>1 DEF SinkInv, StageInv
  <1>3. /\ <<TheHeader>> \in Seq(Cells) /\ metadata \in Seq(Cells)
        /\ Begins(<<TheHeader>> \o metadata, Whole, Cells)
    BY <1>1, SameContainer, Prologue
  <1>4. CASE WriteBreaks(metadata)
    BY <1>1, <1>2, <1>3, <1>4, BreakKeeps
  <1>5. CASE sink' = sink \o metadata /\ Goes("seek")
    <2>1. sink' = <<TheHeader>> \o metadata /\ step' = "seek" /\ closeErr' = closeErr
      BY <1>2, <1>5 DEF Goes
    <2>2. ArgsInv' /\ OutcomeInv'
      BY <1>1, <2>1, ArgsStay, SameContainer DEF OutcomeInv, Writing
    <2>3. StageInv'
      BY <1>1, <1>2, <2>1, SameContainer DEF SinkInv, StageInv, Writing
    <2>. QED
      BY <2>2, <2>3
  <1>. QED
    BY <1>4, <1>5 DEF CloseWritesMetadata, WriteAll

LEMMA SeekKeeps ==
  ASSUME SinkInv, CloseSeeks
  PROVE  (ArgsInv /\ StageInv /\ OutcomeInv)'
  <1>1. /\ step = "seek" /\ step \in Writing
        /\ UNCHANGED <<argVars, accepted, eheader, closed, spool, index, sink>>
    BY DEF CloseSeeks, Writing, writeVars
  <1>2. sink = <<TheHeader>> \o metadata /\ index = 0
    BY <1>1 DEF SinkInv, StageInv
  <1>3. /\ <<TheHeader>> \o metadata \in Seq(Cells) /\ Begins(<<TheHeader>> \o metadata, Whole, Cells)
        /\ SoFar(0) = <<TheHeader>> \o metadata /\ Digest(0) = <<TheHeader>> \o metadata
    BY <1>1, SameContainer, Prologue
  <1>4. CASE Aborts(Failure)
    BY <1>1, <1>2, <1>3, <1>4, AbortKeeps
  <1>5. CASE Goes("chunks")
    <2>1. step' = "chunks" /\ closeErr' = closeErr
      BY <1>5 DEF Goes
    <2>2. ArgsInv' /\ OutcomeInv'
      BY <1>1, <2>1, ArgsStay, SameContainer DEF OutcomeInv, Writing
    <2>3. eheader.encrypted = (eoptions.Key # NoKey) /\ Len(Bodies) \in Nat
      BY <1>1, SameContainer, MadeHeaderIsCell, LegalIsCells DEF Legal
    <2>4. eroot' = [key |-> RootKey, input |-> Digest(0)]
      BY <1>3, <2>3 DEF CloseSeeks, RootStart, RootKey, TheHeader
    <2>5. index' = 0 /\ 0 \in 0..Len(Bodies) /\ sink' = SoFar(0)
      BY <1>1, <1>2, <1>3, <2>3
    <2>6. StageInv'
      BY <1>1, <2>1, <2>4, <2>5, SameContainer DEF SinkInv, StageInv, Writing, SoFar, Digest
    <2>. QED
      BY <2>2, <2>6
  <1>. QED
    BY <1>4, <1>5 DEF CloseSeeks

LEMMA ChunkKeeps ==
  ASSUME SinkInv, CloseWritesChunk
  PROVE  (ArgsInv /\ StageInv /\ OutcomeInv)'
  <1>1. /\ step = "chunks" /\ step \in Writing /\ index < eheader.chunkCount
        /\ UNCHANGED <<argVars, accepted, eheader, closed, spool>>
    BY DEF CloseWritesChunk, Writing, writeVars
  <1>2. /\ index \in 0..Len(Bodies) /\ sink = SoFar(index) /\ spool.exists
        /\ eroot = [key |-> RootKey, input |-> Digest(index)]
    BY <1>1 DEF SinkInv, StageInv
  <1>. DEFINE body == ChunkBody
              piece == Framed(body)
  <1>3. body = Bodies[index + 1] /\ index < Len(Bodies)
    BY <1>1, <1>2, SameContainer, ReadsItsChunk, LegalIsCells
  <1>4. /\ index + 1 \in 0..Len(Bodies)
        /\ SoFar(index + 1) = SoFar(index) \o piece
        /\ Digest(index + 1) = Append(Digest(index), Leaf(body))
        /\ piece \in Seq(Cells) /\ SoFar(index) \in Seq(Cells)
        /\ Begins(SoFar(index) \o piece, Whole, Cells)
    BY <1>1, <1>2, <1>3, SameContainer, Chunks
  <1>5. \/ sink' = sink \o piece /\ Goes("chunks") /\ index' = index + 1
           /\ eroot' = [eroot EXCEPT !.input = Append(eroot.input, Leaf(body))]
        \/ WriteBreaks(piece)
    BY DEF CloseWritesChunk
  <1>. HIDE DEF body, piece
  <1>6. CASE WriteBreaks(piece)
    BY <1>1, <1>2, <1>4, <1>6, BreakKeeps
  <1>7. CASE sink' = sink \o piece /\ Goes("chunks") /\ index' = index + 1
             /\ eroot' = [eroot EXCEPT !.input = Append(eroot.input, Leaf(body))]
    <2>1. step' = "chunks" /\ closeErr' = closeErr
      BY <1>7 DEF Goes
    <2>2. ArgsInv' /\ OutcomeInv'
      BY <1>1, <2>1, ArgsStay, SameContainer DEF OutcomeInv, Writing
    <2>3. eroot' = [key |-> RootKey, input |-> Digest(index + 1)]
      BY <1>2, <1>4, <1>7
    <2>4. sink' = SoFar(index + 1)
      BY <1>2, <1>4, <1>7
    <2>5. StageInv'
      BY <1>1, <1>4, <1>7, <2>1, <2>3, <2>4, SameContainer DEF SinkInv, StageInv, Writing, SoFar, Digest
    <2>. QED
      BY <2>2, <2>5
  <1>. QED
    BY <1>5, <1>6, <1>7

LEMMA RootKeeps ==
  ASSUME SinkInv, CloseWritesRoot
  PROVE  (ArgsInv /\ StageInv /\ OutcomeInv)'
  <1>1. /\ step = "chunks" /\ step \in Writing /\ index = eheader.chunkCount
        /\ UNCHANGED <<argVars, accepted, eheader, closed, spool, index>>
    BY DEF CloseWritesRoot, ChunksWritten, Writing, writeVars, localVars
  <1>2. /\ index = Len(Bodies) /\ sink = SoFar(index)
        /\ eroot = [key |-> RootKey, input |-> Digest(index)]
    BY <1>1, SameContainer, LegalIsCells DEF SinkInv, StageInv
  <1>3. /\ TheRoot = <<RootCell(eroot.key, eroot.input)>>
        /\ TheRoot \in Seq(Cells) /\ sink \in Seq(Cells) /\ Begins(sink \o TheRoot, Whole, Cells)
    BY <1>1, <1>2, SameContainer, Epilogue DEF TheRoot
  <1>4. CASE WriteBreaks(TheRoot)
    BY <1>1, <1>3, <1>4, BreakKeeps
  <1>5. CASE sink' = sink \o TheRoot /\ Goes("magic")
    <2>1. step' = "magic" /\ closeErr' = closeErr /\ sink' = SoFar(Len(Bodies)) \o TheRoot
      BY <1>2, <1>5 DEF Goes
    <2>2. ArgsInv' /\ OutcomeInv'
      BY <1>1, <2>1, ArgsStay, SameContainer DEF OutcomeInv, Writing
    <2>3. StageInv'
      BY <1>1, <2>1, SameContainer DEF SinkInv, StageInv, Writing, SoFar, Digest, TheRoot
    <2>. QED
      BY <2>2, <2>3
  <1>. QED
    BY <1>3, <1>4, <1>5 DEF CloseWritesRoot, WriteAll

LEMMA MagicKeeps ==
  ASSUME SinkInv, CloseWritesMagic
  PROVE  (ArgsInv /\ StageInv /\ OutcomeInv)'
  <1>1. /\ step = "magic" /\ step \in Writing
        /\ UNCHANGED <<argVars, accepted, eheader, closed, spool, index>>
    BY DEF CloseWritesMagic, Writing, writeVars, localVars
  <1>2. sink = SoFar(Len(Bodies)) \o TheRoot
    BY <1>1 DEF SinkInv, StageInv, TheRoot
  <1>3. /\ <<MagicEnd>> \in Seq(Cells) /\ sink \in Seq(Cells) /\ Whole = sink \o <<MagicEnd>>
        /\ Begins(sink \o <<MagicEnd>>, Whole, Cells)
    BY <1>1, <1>2, SameContainer, Epilogue
  <1>4. CASE WriteBreaks(<<MagicEnd>>)
    BY <1>1, <1>3, <1>4, BreakKeeps
  <1>5. CASE sink' = sink \o <<MagicEnd>> /\ Goes("cleanup")
    <2>1. step' = "cleanup" /\ closeErr' = closeErr /\ closeErr = NoError /\ sink' = Whole
      BY <1>1, <1>3, <1>5 DEF Goes, SinkInv, StageInv
    <2>2. ArgsInv'
      BY <1>1, ArgsStay, SameContainer
    <2>3. StageInv' /\ OutcomeInv'
      BY <1>1, <2>1, SameContainer DEF StageInv, OutcomeInv, Outcome, Writing
    <2>. QED
      BY <2>2, <2>3
  <1>. QED
    BY <1>4, <1>5 DEF CloseWritesMagic, WriteAll

(* The clean-up: the first error of all is kept.                           *)
LEMMA ReturnKeeps ==
  ASSUME SinkInv, CloseReturns
  PROVE  (ArgsInv /\ StageInv /\ OutcomeInv)'
  <1>1. /\ step = "cleanup" /\ step' = "idle" /\ closed
        /\ UNCHANGED <<argVars, closed, sink, accepted, eheader, index>>
    BY DEF CloseReturns, writeVars, localVars, SinkInv, SpoolInv
  <1>2. PICK failed \in SUBSET {"close", "remove"} :
          /\ spool' = IF "remove" \in failed THEN spool ELSE NoFile
          /\ closeErr' = IF closeErr = NoError THEN CleanupError(failed) ELSE closeErr
    BY DEF CloseReturns
  <1>3. ArgsInv'
    BY <1>1, ArgsStay DEF SinkInv
  <1>4. StageInv'
    BY <1>1 DEF StageInv, Writing
  <1>5. /\ Legal' = Legal /\ Whole' = Whole /\ Made' = Made
    BY <1>1 DEF Legal, Made, HeaderFor, Whole, Bodies, RootKey, TheHeader, argVars
  <1>6. Outcome
    BY <1>1 DEF SinkInv, OutcomeInv
  <1>7. Failure # NoError
    BY DEF Failure, NoError
  <1>8. Outcome'
    <2>1. CASE closeErr # NoError
      BY <1>1, <1>2, <1>5, <1>6, <2>1 DEF Outcome
    <2>2. CASE closeErr = NoError
      <3>1. Legal /\ sink = Whole
        BY <1>6, <1>7, <2>2 DEF Outcome
      <3>2. Whole \in Seq(Cells) /\ Begins(Whole, Whole, Cells)
        BY <1>1, <3>1, Epilogue DEF SinkInv
      <3>3. closeErr' \in {Failure, NoError}
        BY <1>2, <2>2 DEF CleanupError
      <3>. QED
        BY <1>1, <1>5, <3>1, <3>2, <3>3 DEF Outcome
    <2>. QED
      BY <2>1, <2>2
  <1>9. closeErr' = NoError => ~spool'.exists
    BY <1>2, <1>7 DEF CleanupError, NoFile
  <1>10. OutcomeInv'
    BY <1>1, <1>8, <1>9 DEF OutcomeInv, Writing
  <1>. QED
    BY <1>3, <1>4, <1>10

(* The header that Close makes is that of the one-shot encoder.            *)
LEMMA StartMakesHeader ==
  ASSUME SinkInv, step = "idle", NEW base \in BaseNonces, eheader' = CloseHeader(base),
         UNCHANGED <<argVars, accepted>>
  PROVE  Made'
  <1>1. /\ eoptions.ChunkSize \in Nat \ {0} /\ Len(accepted) \in Nat /\ totalSize = Len(accepted)
        /\ MaxU32 \in Nat
    BY ArgsAreNumbers, WidthAssumption DEF SinkInv
  <1>2. base \in Nat /\ (eoptions.Key = NoKey => base = 0)
    <2>1. eoptions.BaseNonce \in Nat \cup {NoNonce}
      BY DEF SinkInv, ArgsInv
    <2>. QED
      BY <2>1, EncoderAssumption DEF BaseNonces, ZeroNonce
  <1>3. chunkCount = (Len(accepted) + eoptions.ChunkSize - 1) \div eoptions.ChunkSize
    <2>. DEFINE a == Len(accepted)
                s == eoptions.ChunkSize
    <2>1. a \in Nat /\ s \in Nat \ {0}
      BY <1>1
    <2>. HIDE DEF a, s
    <2>2. (a + s - 1) \div s = a \div s + (IF a % s # 0 THEN 1 ELSE 0)
      BY <2>1, ChunkCounts
    <2>3. chunkCount = a \div s + (IF a % s # 0 THEN 1 ELSE 0)
      BY <1>1 DEF chunkCount, a, s
    <2>. QED
      BY <2>2, <2>3 DEF a, s
  <1>. DEFINE plain == PlainHeader(eoptions.ChunkSize, Len(accepted), metadata # <<>>)
  <1>4. plain = [version |-> 1, encrypted |-> FALSE, hasMetadata |-> metadata # <<>>,
                 reserved |-> FALSE, hashAlgo |-> HashSHA256, aeadAlgo |-> AEADNone,
                 chunkSize |-> eoptions.ChunkSize, chunkCount |-> chunkCount,
                 totalSize |-> totalSize, baseNonce |-> ZeroNonce]
    BY <1>1, <1>3 DEF PlainHeader
  <1>5. CASE eoptions.Key = NoKey
    <2>1. eheader' = plain
      BY <1>4, <1>5 DEF CloseHeader
    <2>2. eheader'.baseNonce = 0
      BY <1>4, <2>1 DEF ZeroNonce
    <2>. QED
      BY <1>5, <2>1, <2>2 DEF Made, HeaderFor, argVars
  <1>6. CASE eoptions.Key # NoKey
    <2>1. eheader' = [plain EXCEPT !.encrypted = TRUE, !.hashAlgo = HashHMACSHA256,
                                   !.aeadAlgo = AEADAESGCM, !.baseNonce = base]
      BY <1>4, <1>6 DEF CloseHeader
    <2>2. eheader' = EncryptedHeader(eoptions.ChunkSize, Len(accepted), metadata # <<>>, base)
      BY <2>1 DEF EncryptedHeader
    <2>3. eheader'.baseNonce = base
      BY <1>4, <2>1
    <2>. HIDE DEF plain
    <2>. QED
      BY <1>2, <1>6, <2>2, <2>3 DEF Made, HeaderFor, argVars
  <1>. QED
    BY <1>5, <1>6

LEMMA StartKeeps ==
  ASSUME SinkInv, CloseStarts
  PROVE  (ArgsInv /\ StageInv /\ OutcomeInv)'
  <1>1. /\ step = "idle" /\ ~closed /\ closed' /\ spool.exists
        /\ UNCHANGED <<argVars, accepted, spool, sink, index>>
    BY DEF CloseStarts, writeVars, SinkInv, SpoolInv
  <1>2. sink = <<>> /\ index = 0 /\ closeErr = NoError
    BY <1>1 DEF SinkInv, StageInv, OutcomeInv
  <1>3. ASSUME step' \notin {"new", "refused"}
        PROVE  ArgsInv'
    BY <1>1, ArgsStay DEF SinkInv
  <1>4. CASE Aborts(Failure)
    <2>1. step' = "cleanup" /\ closeErr' = Failure /\ sink' = <<>>
      BY <1>1, <1>2, <1>4 DEF Aborts
    <2>. QED
      BY <1>1, <1>3, <2>1 DEF StageInv, OutcomeInv, Outcome, Writing
  <1>5. ASSUME NEW base \in BaseNonces, eheader' = CloseHeader(base),
               IF validate(eheader') = NoError THEN Goes("header") ELSE Aborts(validate(eheader'))
        PROVE  (ArgsInv /\ StageInv /\ OutcomeInv)'
    <2>1. Made'
      BY <1>1, <1>5, StartMakesHeader
    <2>2. CASE validate(eheader') = NoError
      <3>1. step' = "header" /\ closeErr' = NoError /\ Legal'
        BY <1>2, <1>5, <2>1, <2>2 DEF Goes, Legal
      <3>. QED
        BY <1>1, <1>2, <1>3, <3>1 DEF StageInv, OutcomeInv, Writing
    <2>3. CASE validate(eheader') # NoError
      <3>1. step' = "cleanup" /\ closeErr' = validate(eheader') /\ sink' = <<>>
        BY <1>1, <1>2, <1>5, <2>3 DEF Aborts
      <3>. QED
        BY <1>1, <1>3, <2>1, <2>3, <3>1 DEF StageInv, OutcomeInv, Outcome, Writing
    <2>. QED
      BY <2>2, <2>3
  <1>. QED
    BY <1>4, <1>5 DEF CloseStarts

-----------------------------------------------------------------------------
(* The other steps.                                                        *)

LEMMA InitSink == EncInit => SinkInv
  <1>. SUFFICES ASSUME EncInit
                PROVE  SinkInv
    OBVIOUS
  <1>1. /\ step = "new" /\ closed = FALSE /\ sink = <<>> /\ index = 0 /\ closeErr = NoError
        /\ entries \in MetadataLists /\ eoptions \in EncodeOptions
    BY DEF EncInit
  <1>2. ArgsInv
    BY <1>1, EncoderAssumption DEF ArgsInv, Entry
  <1>. QED
    BY <1>1, <1>2, InitSpool DEF SinkInv, StageInv, OutcomeInv, Writing

LEMMA NewKeepsSink ==
  ASSUME SinkInv, NewEncoder
  PROVE  (ArgsInv /\ StageInv /\ OutcomeInv)'
  <1>1. /\ step = "new" /\ ~closed /\ UNCHANGED <<entries, closed, sink, index, closeErr>>
        /\ step' \in {"refused", "idle"}
    BY DEF NewEncoder, localVars, SinkInv, SpoolInv
  <1>2. sink = <<>> /\ index = 0 /\ closeErr = NoError
    BY <1>1 DEF SinkInv, StageInv, OutcomeInv
  <1>3. /\ eoptions' = [eoptions EXCEPT !.ChunkSize = IF eoptions.ChunkSize = 0 THEN DefaultChunkSize
                                                      ELSE eoptions.ChunkSize]
        /\ eoptions \in [Key : Seq(Nat), ChunkSize : 0..MaxU32, BaseNonce : Nat \cup {NoNonce}]
    BY DEF NewEncoder, SinkInv, ArgsInv
  <1>4. /\ eoptions' \in [Key : Seq(Nat), ChunkSize : 0..MaxU32, BaseNonce : Nat \cup {NoNonce}]
        /\ eoptions'.ChunkSize # 0 /\ eoptions'.Key = eoptions.Key
    BY <1>3, EncoderAssumption, WidthAssumption
  <1>5. entries' \in Seq(Entry) /\ entries' = entries
    BY <1>1 DEF SinkInv, ArgsInv
  <1>6. ASSUME step' = "idle"
        PROVE  Len(eoptions'.Key) \in {0, KeyLen} /\ EncodeMetadata(entries').ok
               /\ metadata' = EncodeMetadata(entries').region
    <2>1. Len(eoptions.Key) \in {0, KeyLen} /\ EncodeMetadata(entries).ok
          /\ metadata' = EncodeMetadata(entries).region
      BY <1>6 DEF NewEncoder
    <2>. QED
      BY <1>4, <1>5, <2>1
  <1>7. ArgsInv'
    BY <1>1, <1>4, <1>5, <1>6 DEF ArgsInv
  <1>. QED
    BY <1>1, <1>2, <1>7 DEF StageInv, OutcomeInv, Writing

LEMMA WriteKeepsSink ==
  ASSUME SinkInv, NEW p \in Pieces, Write(p)
  PROVE  (ArgsInv /\ StageInv /\ OutcomeInv)'
  <1>1. /\ step = "idle" /\ UNCHANGED <<argVars, closed, sink, step, index, closeErr, eheader>>
        /\ (closed => UNCHANGED <<accepted, spool>>)
    BY DEF Write, WriteRefused, WriteTakes, Open, localVars
  <1>2. ArgsInv' /\ StageInv'
    BY <1>1, ArgsStay DEF SinkInv, StageInv, Writing
  <1>3. ASSUME ~closed
        PROVE  OutcomeInv'
    BY <1>1, <1>3 DEF SinkInv, OutcomeInv, Writing
  <1>4. ASSUME closed
        PROVE  OutcomeInv'
    <2>1. Legal' = Legal /\ Whole' = Whole /\ Made' = Made
      BY <1>1, <1>4 DEF Legal, Made, HeaderFor, Whole, Bodies, RootKey, TheHeader, argVars
    <2>. QED
      BY <1>1, <1>2, <1>4, <2>1 DEF SinkInv, OutcomeInv, Outcome, Writing
  <1>5. OutcomeInv'
    BY <1>2, <1>3, <1>4
  <1>. QED
    BY <1>2, <1>5

LEMMA StutterKeepsSink ==
  ASSUME SinkInv, UNCHANGED encVars \/ CloseAgain
  PROVE  (ArgsInv /\ StageInv /\ OutcomeInv)'
  <1>1. UNCHANGED <<argVars, spool, closed, sink, accepted, step, eheader, eroot, index, closeErr>>
    BY DEF encVars, CloseAgain, localVars, writeVars
  <1>2. /\ Legal' = Legal /\ Whole' = Whole /\ Made' = Made /\ TheHeader' = TheHeader
        /\ RootKey' = RootKey /\ Bodies' = Bodies /\ metadata' = metadata
    BY <1>1 DEF Legal, Made, HeaderFor, Whole, Bodies, RootKey, TheHeader, argVars
  <1>3. ArgsInv'
    BY <1>1 DEF SinkInv, ArgsInv, argVars
  <1>4. StageInv'
    BY <1>1, <1>2 DEF SinkInv, StageInv, SoFar, Digest
  <1>5. OutcomeInv'
    BY <1>1, <1>2 DEF SinkInv, OutcomeInv, Outcome, Writing
  <1>. QED
    BY <1>3, <1>4, <1>5

LEMMA StepSink == SinkInv /\ [EncNext]_encVars => SinkInv'
  <1>. SUFFICES ASSUME SinkInv, [EncNext]_encVars
                PROVE  SinkInv'
    OBVIOUS
  <1>1. SpoolInv'
    BY StepSpool DEF SinkInv
  <1>2. (ArgsInv /\ StageInv /\ OutcomeInv)'
    BY StutterKeepsSink, NewKeepsSink, WriteKeepsSink, StartKeeps, HeaderKeeps, MetadataKeeps,
       SeekKeeps, ChunkKeeps, RootKeeps, MagicKeeps, ReturnKeeps
    DEF EncNext, Close, Closing
  <1>. QED
    BY <1>1, <1>2 DEF SinkInv

-----------------------------------------------------------------------------
(* The results.                                                            *)

LEMMA SinkSoFar ==
  ASSUME SinkInv, closed, sink # <<>>
  PROVE  /\ Legal /\ sink \in Seq(Cells) /\ Begins(sink, Whole, Cells)
         /\ OneShotContainer = Encoded(Whole) /\ Whole \in Seq(Cells)
  <1>1. step \in Writing \cup {"cleanup", "idle"} /\ step \notin {"new", "refused"} /\ SpoolInv /\ ArgsInv
    BY DEF SinkInv, OutcomeInv, Writing
  <1>2. Legal
    BY <1>1 DEF SinkInv, StageInv, OutcomeInv, Outcome
  <1>3. OneShotContainer = Encoded(Whole) /\ Whole \in Seq(Cells)
    BY <1>1, <1>2, OneShotAgrees, Epilogue DEF Legal
  <1>4. sink \in Seq(Cells) /\ Begins(sink, Whole, Cells)
    <2>1. CASE step = "header"
      BY <2>1 DEF SinkInv, StageInv
    <2>2. CASE step = "metadata" \/ step = "seek"
      BY <1>1, <1>2, <2>2, Prologue DEF SinkInv, StageInv
    <2>3. CASE step = "chunks"
      BY <1>1, <1>2, <2>3, Chunks DEF SinkInv, StageInv
    <2>4. CASE step = "magic"
      BY <1>1, <1>2, <2>4, Epilogue DEF SinkInv, StageInv, TheRoot
    <2>5. CASE step \in {"cleanup", "idle"}
      BY <1>1, <1>2, <2>5, Epilogue DEF SinkInv, OutcomeInv, Outcome
    <2>. QED
      BY <1>1, <2>1, <2>2, <2>3, <2>4, <2>5 DEF Writing
  <1>. QED
    BY <1>2, <1>3, <1>4

(* Wherever a write fails, the sink holds a prefix of the container that   *)
(* the one-shot encoder makes of the accepted bytes, and nothing before    *)
(* Close.                                                                  *)
THEOREM SinkBegins == EncSpec => []SinkIsPrefix
  <1>1. ASSUME SinkInv, sink # <<>>
        PROVE  closed /\ IsPrefix(sink, OneShotContainer.out)
    <2>0. closed
      BY <1>1 DEF SinkInv, StageInv
    <2>1. Legal /\ sink \in Seq(Cells) /\ Begins(sink, Whole, Cells)
      BY <1>1, <2>0, SinkSoFar
    <2>2. OneShotContainer.out = Whole /\ Whole \in Seq(Cells)
      BY <1>1, <2>0, SinkSoFar DEF Encoded
    <2>. QED
      BY <2>0, <2>1, <2>2, BeginsIsPrefix
  <1>. QED
    BY <1>1, InitSink, StepSink, PTL DEF EncSpec, SinkIsPrefix

(* Close says nil only if the whole container of all that was accepted is  *)
(* in the sink and the plaintext is gone from the temporary directory, and *)
(* it refuses what the one-shot encoder refuses.                           *)
THEOREM CloseHonest == EncSpec => []CloseIsHonest
  <1>1. ASSUME SinkInv, closed, step = "idle"
        PROVE  /\ closeErr = NoError => OneShotContainer.err = NoError /\ sink = OneShotContainer.out
               /\ closeErr = NoError => ~spool.exists
               /\ OneShotContainer.err # NoError =>
                    closeErr = OneShotContainer.err \/ closeErr = Failure
    <2>1. SpoolInv /\ ArgsInv /\ step \notin {"new", "refused"} /\ Outcome
      BY <1>1 DEF SinkInv, OutcomeInv
    <2>2. Made => OneShotContainer = IF validate(eheader) = NoError THEN Encoded(Whole)
                                     ELSE Rejected(validate(eheader))
      BY <2>1, OneShotAgrees
    <2>3. Failure # NoError
      BY DEF Failure, NoError
    <2>4. closeErr = NoError => ~spool.exists
      BY <1>1 DEF SinkInv, OutcomeInv
    <2>5. CASE closeErr = Failure
      BY <2>3, <2>5
    <2>6. CASE Made /\ validate(eheader) # NoError /\ closeErr = validate(eheader)
      BY <2>2, <2>6 DEF Rejected
    <2>7. CASE Legal /\ closeErr = NoError /\ sink = Whole
      BY <2>2, <2>4, <2>7 DEF Legal, Encoded
    <2>. QED
      BY <2>1, <2>5, <2>6, <2>7 DEF Outcome
  <1>. QED
    BY <1>1, InitSink, StepSink, PTL DEF EncSpec, CloseIsHonest

(* What reaches the sink is a stream of cells, as the decoders take them.  *)
THEOREM SinkIsCells == EncSpec => [](sink \in Seq(Cells))
  <1>1. ASSUME SinkInv
        PROVE  sink \in Seq(Cells)
    <2>1. CASE sink = <<>>
      BY <2>1, EmptySeq
    <2>2. CASE sink # <<>>
      <3>1. closed
        BY <1>1, <2>2 DEF SinkInv, StageInv
      <3>. QED
        BY <1>1, <2>2, <3>1, SinkSoFar
    <2>. QED
      BY <2>1, <2>2
  <1>. QED
    BY <1>1, InitSink, StepSink, PTL DEF EncSpec

(* What Close reported as written decodes to what Write reported as taken: *)
(* it is the container of the accepted bytes, which decodes to them for    *)
(* every key, chunk size and list of metadata entries.                     *)
LEMMA WholeDecodes ==
  ASSUME SinkInv, closed, step = "idle", closeErr = NoError
  PROVE  DecodesBack(sink, eoptions.Key, NoCap, accepted, entries)
  <1>1. SpoolInv /\ ArgsInv /\ step \notin {"new", "refused"} /\ Outcome
    BY DEF SinkInv, OutcomeInv
  <1>2. Made /\ Legal /\ sink = Whole
    <2>1. Failure # NoError
      BY DEF Failure, NoError
    <2>2. CASE Made /\ validate(eheader) # NoError /\ closeErr = validate(eheader)
      BY <2>2
    <2>3. CASE Legal /\ closeErr = NoError /\ sink = Whole
      BY <2>3 DEF Legal
    <2>. QED
      BY <1>1, <2>1, <2>2, <2>3 DEF Outcome
  <1>3. OneShotContainer.err = NoError /\ OneShotContainer.out = sink
    <2>1. OneShotContainer = Encoded(Whole)
      BY <1>1, <1>2, OneShotAgrees, Zenon DEF Legal
    <2>. QED
      BY <1>2, <2>1 DEF Encoded
  <1>4. /\ eoptions.ChunkSize \in 0..MaxU32 /\ eoptions.Key \in Seq(Nat) /\ eheader.baseNonce \in Nat
        /\ accepted \in Seq(NumCells) /\ Len(accepted) <= MaxU64
    <2>1. /\ eoptions.ChunkSize \in 1..MaxU32 /\ eoptions.Key \in Seq(Nat)
          /\ accepted \in Seq(NumCells) /\ Len(accepted) \in 0..MaxU64
      BY <1>1, ArgsAreNumbers
    <2>2. eheader.baseNonce \in Nat
      BY <1>2 DEF Made
    <2>. QED
      BY <2>1, <2>2, WidthAssumption
  <1>5. entries \in Seq(Entry)
    BY <1>1 DEF ArgsInv, Entry
  <1>6. AmpleCaps(NoCap)
    BY DEF AmpleCaps, NoCap
  <1>7. CASE eoptions.Key = NoKey
    <2>1. OneShotContainer = EncodePlain(accepted, entries, eoptions.ChunkSize)
      BY <1>7 DEF OneShotContainer
    <2>2. EncodePlain(accepted, entries, eoptions.ChunkSize).err = NoError
          /\ EncodePlain(accepted, entries, eoptions.ChunkSize).out = sink
      BY <1>3, <2>1, Zenon
    <2>3. DecodesBack(EncodePlain(accepted, entries, eoptions.ChunkSize).out, eoptions.Key, NoCap,
                      accepted, entries)
      BY <1>4, <1>5, <1>6, <2>2, PlainDecodes
    <2>. QED
      BY <2>2, <2>3, Zenon
  <1>8. CASE eoptions.Key # NoKey
    <2>. DEFINE r == EncodeEncryptedWithFixedNonce(accepted, eoptions.Key, eheader.baseNonce, entries,
                                                   eoptions.ChunkSize)
    <2>1. OneShotContainer = r
      BY <1>8 DEF OneShotContainer
    <2>2. r.err = NoError /\ r.out = sink
      BY <1>3, <2>1, Zenon
    <2>3. DecodesBack(r.out, eoptions.Key, NoCap, accepted, entries)
      BY <1>4, <1>5, <1>6, <2>2, EncryptedDecodes
    <2>. QED
      BY <2>2, <2>3, Zenon
  <1>. QED
    BY <1>7, <1>8

(* When Close of the Go Encoder has returned nil, decodeBytes gives back   *)
(* what Write took, for any writes, options and metadata.                  *)
THEOREM RoundTrips == EncSpec => []RoundTrip
  <1>1. ASSUME SinkInv
        PROVE  RoundTrip
    BY <1>1, WholeDecodes DEF RoundTrip, DecodesBack
  <1>. QED
    BY <1>1, InitSink, StepSink, PTL DEF EncSpec

-----------------------------------------------------------------------------
(* Metadata by itself.  Lists are of entries, and regions are of numbers.  *)
CodecTypes == list \in Seq(Entry) /\ raw \in Seq(NumCells)

LEMMA CodecTypesStart == CodecInit => CodecTypes
  BY DEF CodecInit, CodecTypes

LEMMA CodecTypesStep == CodecTypes /\ [CodecNext]_<<list, raw>> => CodecTypes'
  <1>. SUFFICES ASSUME CodecTypes, [CodecNext]_<<list, raw>>
                PROVE  CodecTypes'
    OBVIOUS
  <1>1. CASE AddEntry
    <2>1. PICK tag \in EntryTags, value \in EntryValues :
            list' = Append(list, [tag |-> tag, value |-> value])
      BY <1>1 DEF AddEntry
    <2>2. [tag |-> tag, value |-> value] \in Entry
      BY CodecAssumption DEF Entry, UnitCells, NumCells
    <2>3. raw' = raw
      BY <1>1 DEF AddEntry
    <2>. QED
      BY <2>1, <2>2, <2>3 DEF CodecTypes
  <1>2. CASE AddCell
    <2>1. PICK cell \in RegionUnits : raw' = Append(raw, cell)
      BY <1>2 DEF AddCell
    <2>2. cell \in NumCells
      BY CodecAssumption DEF UnitCells, NumCells
    <2>3. list' = list
      BY <1>2 DEF AddCell
    <2>. QED
      BY <2>1, <2>2, <2>3 DEF CodecTypes
  <1>3. CASE UNCHANGED <<list, raw>>
    BY <1>3 DEF CodecTypes
  <1>. QED
    BY <1>1, <1>2, <1>3 DEF CodecNext

LEMMA ListIsReadBack == CodecTypes => EncodedIsReadBack
  <1>. DEFINE meta == EncodeMetadata(list)
              parsed == ParseMetadata(meta.region)
  <1>1. SUFFICES ASSUME CodecTypes, meta.ok, list # <<>>
                 PROVE  parsed.ok /\ InTagOrder(parsed.entries, list)
                        /\ EncodeMetadata(Reverse(list)) = meta
    BY Zenon DEF EncodedIsReadBack
  <1>2. list \in Seq(Entry)
    BY <1>1 DEF CodecTypes
  <1>3. parsed = Parsed(Sorted(list))
    BY <1>1, <1>2, EncodedIsRead, Zenon DEF ReadBack
  <1>4. Parsed(Sorted(list)).ok /\ Parsed(Sorted(list)).entries = Sorted(list)
    BY DEF Parsed
  <1>5. InTagOrder(Sorted(list), list)
    BY <1>1, <1>2, SortedInOrder
  <1>6. EncodeMetadata(Reverse(list)) = meta
    BY <1>1, <1>2, ReversedIsEncoded
  <1>. QED
    BY <1>3, <1>4, <1>5, <1>6, Zenon

(* Encoding and parsing undo each other, for all lists and regions.        *)
THEOREM MetadataInverts == CodecSpec => []MetadataIsInverse
  <1>1. CodecTypes => MetadataIsInverse
    <2>1. CodecTypes => AcceptedIsCanonical
      BY AcceptedIsWritten, Zenon DEF CodecTypes, AcceptedIsCanonical
    <2>. QED
      BY <2>1, ListIsReadBack DEF MetadataIsInverse
  <1>. QED
    BY <1>1, CodecTypesStart, CodecTypesStep, PTL DEF CodecSpec
=============================================================================
