------------------------- MODULE NodeEncoderProofs --------------------------
(***************************************************************************)
(* The temporary directory of the Node Encoder and what has been written   *)
(* when it finishes, for all plaintexts and options and in every order of  *)
(* the steps of its asynchronous functions.                                *)
(***************************************************************************)
EXTENDS NodeEncoder, UbcFormatProofs

-----------------------------------------------------------------------------
(* The inductive invariant.                                                *)

(* The handle is settled only after the directory is.                      *)
FilesInv ==
  /\ dir \in {"making", "made", "failed"} /\ handle \in {"opening", "failed", "open", "closed"}
  /\ handle # "opening" => dir # "making"
  /\ DOMAIN spool = {"exists", "data"} /\ (spool.exists => dir = "made")

(* cleanupSpool waits for the handle, so that the directory it removes is  *)
(* there by then, if ever, and is not made again.                          *)
CleanupInv ==
  /\ cleaning \in {"none", "handle", "remove", "done", "failed"}
  /\ cleaning \in {"remove", "done", "failed"} => dir # "making"
  /\ cleaning = "done" => ~spool.exists

(* A stream closes when it is destroyed and cleaned up.                    *)
ClosedInv ==
  closed => /\ destroyed /\ cleaning \in {"done", "failed"}
            /\ cleaning = "failed" => error # NoError

SpoolInv == FilesInv /\ CleanupInv /\ ClosedInv

-----------------------------------------------------------------------------
LEMMA InitSpool == EncInit => SpoolInv
  BY DEF EncInit, SpoolInv, FilesInv, CleanupInv, ClosedInv

(* A step that touches no file and neither cleans up nor ends the stream,  *)
(* or only asks for the cleanup.                                           *)
LEMMA AsksOnly ==
  ASSUME SpoolInv, UNCHANGED spoolVars, cleaning' \in {cleaning, "handle"},
         cleaning # "none" => cleaning' = cleaning, UNCHANGED <<closed, destroyed, error>>
  PROVE  SpoolInv'
  <1>1. FilesInv'
    BY DEF SpoolInv, FilesInv, spoolVars
  <1>2. CleanupInv'
    BY DEF SpoolInv, CleanupInv, spoolVars
  <1>3. ClosedInv'
    BY DEF SpoolInv, ClosedInv
  <1>. QED
    BY <1>1, <1>2, <1>3 DEF SpoolInv

(* A step that may destroy the stream.                                     *)
LEMMA DestroyKeeps ==
  ASSUME SpoolInv, NEW err, Destroy(err), UNCHANGED spoolVars, closed' = closed
  PROVE  SpoolInv'
  <1>1. CASE destroyed
    BY <1>1, AsksOnly DEF Destroy, doneVars
  <1>2. CASE ~destroyed
    <2>1. ~closed /\ cleaning' = (IF cleaning = "none" THEN "handle" ELSE cleaning)
      BY <1>2 DEF SpoolInv, ClosedInv, Destroy, Cleans
    <2>2. FilesInv'
      BY DEF SpoolInv, FilesInv, spoolVars
    <2>3. CleanupInv'
      BY <2>1 DEF SpoolInv, CleanupInv, spoolVars
    <2>. QED
      BY <2>1, <2>2, <2>3 DEF SpoolInv, ClosedInv
  <1>. QED
    BY <1>1, <1>2
-----------------------------------------------------------------------------
(* The file operations.                                                    *)

LEMMA MakesDirKeeps ==
  ASSUME SpoolInv, MakesDir
  PROVE  SpoolInv'
  <1>1. /\ dir = "making" /\ handle = "opening" /\ UNCHANGED <<closed, destroyed, error, cleaning>>
        /\ cleaning \in {"none", "handle"}
    BY DEF SpoolInv, FilesInv, CleanupInv, MakesDir, userVars, doneVars
  <1>2. \/ dir' = "made" /\ handle' = handle /\ spool' = [spool EXCEPT !.exists = TRUE]
        \/ dir' = "failed" /\ handle' = "failed" /\ spool' = spool
    BY DEF MakesDir
  <1>3. FilesInv'
    BY <1>1, <1>2 DEF SpoolInv, FilesInv
  <1>. QED
    BY <1>1, <1>3 DEF SpoolInv, CleanupInv, ClosedInv

LEMMA OpensFileKeeps ==
  ASSUME SpoolInv, OpensFile
  PROVE  SpoolInv'
  BY DEF SpoolInv, FilesInv, CleanupInv, ClosedInv, OpensFile, userVars, doneVars

LEMMA CleanupCloseKeeps ==
  ASSUME SpoolInv, CleanupCloses
  PROVE  SpoolInv'
  <1>1. /\ cleaning = "handle" /\ handle # "opening" /\ UNCHANGED <<dir, spool, closed>>
        /\ handle' = (IF handle = "open" THEN "closed" ELSE handle)
        /\ cleaning' = (IF dir = "made" THEN "remove" ELSE "done")
    BY DEF CleanupCloses, Opened, userVars
  <1>2. ~closed /\ dir # "making"
    BY <1>1 DEF SpoolInv, ClosedInv, FilesInv
  <1>3. FilesInv' /\ CleanupInv'
    BY <1>1, <1>2 DEF SpoolInv, FilesInv, CleanupInv
  <1>. QED
    BY <1>1, <1>2, <1>3 DEF SpoolInv, ClosedInv

LEMMA CleanupRemoveKeeps ==
  ASSUME SpoolInv, CleanupRemoves
  PROVE  SpoolInv'
  <1>1. /\ cleaning = "remove" /\ UNCHANGED <<dir, handle, closed>>
        /\ \/ cleaning' = "done" /\ spool' = [spool EXCEPT !.exists = FALSE]
           \/ cleaning' = "failed" /\ spool' = spool
    BY DEF CleanupRemoves, userVars
  <1>2. ~closed
    BY <1>1 DEF SpoolInv, ClosedInv
  <1>3. FilesInv' /\ CleanupInv'
    BY <1>1 DEF SpoolInv, FilesInv, CleanupInv
  <1>. QED
    BY <1>1, <1>2, <1>3 DEF SpoolInv, ClosedInv

LEMMA WriteSucceedsKeeps ==
  ASSUME SpoolInv, WriteSucceeds
  PROVE  SpoolInv'
  <1>1. UNCHANGED <<dir, handle, closed, destroyed, error, cleaning>>
    BY DEF WriteSucceeds, userVars, doneVars
  <1>2. PICK n \in 0..Len(piece) : spool' = [spool EXCEPT !.data = spool.data \o SubSeq(piece, 1, n)]
    BY DEF WriteSucceeds
  <1>3. DOMAIN spool' = {"exists", "data"} /\ spool'.exists = spool.exists
    BY <1>2 DEF SpoolInv, FilesInv
  <1>. QED
    BY <1>1, <1>3 DEF SpoolInv, FilesInv, CleanupInv, ClosedInv

LEMMA ClosesKeeps ==
  ASSUME SpoolInv, Closes
  PROVE  SpoolInv'
  <1>1. /\ UNCHANGED <<spoolVars, cleaning, destroyed>> /\ destroyed /\ cleaning \in {"done", "failed"}
        /\ error' = (IF error = NoError /\ cleaning = "failed" THEN Failure ELSE error)
    BY DEF Closes, Cleaned
  <1>2. Failure # NoError
    BY DEF Failure, NoError
  <1>3. FilesInv' /\ CleanupInv'
    BY <1>1 DEF SpoolInv, FilesInv, CleanupInv, spoolVars
  <1>. QED
    BY <1>1, <1>2, <1>3 DEF SpoolInv, ClosedInv

LEMMA EndClosesFileKeeps ==
  ASSUME SpoolInv, EndClosesFile
  PROVE  SpoolInv'
  <1>1. /\ handle # "opening" /\ UNCHANGED <<dir, spool, closed, destroyed, error>>
        /\ handle' \in {handle, "closed"}
        /\ cleaning' = cleaning \/ Cleans
    BY DEF EndClosesFile, EndThrows, Goes, userVars
  <1>2. cleaning' \in {cleaning, "handle"} /\ (cleaning # "none" => cleaning' = cleaning)
    BY <1>1 DEF Cleans
  <1>3. FilesInv'
    BY <1>1 DEF SpoolInv, FilesInv
  <1>4. CleanupInv' /\ ClosedInv'
    BY <1>1, <1>2 DEF SpoolInv, CleanupInv, ClosedInv
  <1>. QED
    BY <1>3, <1>4 DEF SpoolInv
-----------------------------------------------------------------------------
(* The steps of finish and writeChunk that only ask for the cleanup.       *)
LEMMA OthersKeep ==
  ASSUME SpoolInv,
         \/ \E p \in Pieces : Writes(p)
         \/ WriteFails \/ Ends \/ EndStarts \/ EndOpensReader \/ EndWritesHeader
         \/ EndWritesChunk \/ EndWritesFooter \/ EndClosesReader
  PROVE  SpoolInv'
  <1>1. CASE \E p \in Pieces : Writes(p)
    BY <1>1, AsksOnly DEF Writes, userVars, doneVars
  <1>2. CASE WriteFails
    BY <1>2, AsksOnly DEF WriteFails, Cleans, userVars
  <1>3. CASE Ends
    BY <1>3, AsksOnly DEF Ends, doneVars
  <1>4. CASE EndStarts
    BY <1>4, AsksOnly DEF EndStarts, EndThrows, Goes, Cleans, userVars
  <1>5. CASE EndOpensReader
    BY <1>5, AsksOnly DEF EndOpensReader, EndThrows, Goes, Cleans, userVars
  <1>6. CASE EndWritesHeader
    BY <1>6, AsksOnly DEF EndWritesHeader, WriteTo, EndThrows, Goes, Cleans, userVars
  <1>7. CASE EndWritesChunk
    BY <1>7, AsksOnly DEF EndWritesChunk, EndThrows, Goes, Cleans, userVars
  <1>8. CASE EndWritesFooter
    BY <1>8, AsksOnly DEF EndWritesFooter, WriteTo, EndThrows, Goes, Cleans, userVars
  <1>9. CASE EndClosesReader
    BY <1>9, AsksOnly DEF EndClosesReader, Cleans, userVars
  <1>. QED
    BY <1>1, <1>2, <1>3, <1>4, <1>5, <1>6, <1>7, <1>8, <1>9

LEMMA StepSpool == SpoolInv /\ [EncNext]_encVars => SpoolInv'
  <1>. SUFFICES ASSUME SpoolInv, [EncNext]_encVars
                PROVE  SpoolInv'
    OBVIOUS
  <1>1. CASE UNCHANGED encVars
    BY <1>1, AsksOnly DEF encVars, userVars, doneVars
  <1>2. CASE WriteReports
    BY <1>2, DestroyKeeps DEF WriteReports, userVars
  <1>3. CASE EndReturns
    BY <1>3, DestroyKeeps DEF EndReturns
  <1>4. CASE Destroys
    BY <1>4, DestroyKeeps DEF Destroys, userVars
  <1>. QED
    BY <1>1, <1>2, <1>3, <1>4, MakesDirKeeps, OpensFileKeeps, CleanupCloseKeeps,
       CleanupRemoveKeeps, WriteSucceedsKeeps, ClosesKeeps, EndClosesFileKeeps, OthersKeep
    DEF EncNext, Cleaning, Writing, Ending

(* A closed stream has left no plaintext behind, or says that it could not *)
(* remove it.                                                              *)
THEOREM SpoolRemoved == EncSpec => []SpoolIsRemoved
  <1>1. SpoolInv => SpoolIsRemoved
    BY DEF SpoolInv, FilesInv, CleanupInv, ClosedInv, SpoolIsRemoved
  <1>. QED
    BY <1>1, InitSpool, StepSpool, PTL DEF EncSpec

-----------------------------------------------------------------------------
(* What finish writes.                                                     *)

TheHeader == HeaderCell(header)

Bodies ==
  LET chunks == ChunksOf(accepted, options.ChunkSize)
  IN  IF encrypted THEN SealedChunks(options.Key, options.BaseNonce, TheHeader, region, chunks)
      ELSE chunks

RootKey == IF encrypted THEN rootKey(options.Key, options.BaseNonce) ELSE NoKey

Whole == Container(RootKey, TheHeader, region, Bodies)

SoFar(k)  == Written(TheHeader, region, Bodies, k)
Digest(k) == Hashed(TheHeader, region, Bodies, k)

(* The file may have taken less than it was given, and then what follows   *)
(* in it is not where it should be.                                        *)
Faithful == spool.data = accepted

PlainInv ==
  /\ options \in [Key : Seq(Nat), ChunkSize : 0..MaxU32, BaseNonce : Nat]
  /\ piece \in Seq(NumCells) /\ accepted \in Seq(NumCells) /\ spool.data \in Seq(NumCells)
  /\ totalSize = Len(accepted)
  /\ Faithful \/ Len(spool.data) < Len(accepted)

Planned == {"handle", "open", "header", "chunks"}

(* After end() nothing is written to the file.  What the sink and the hash *)
(* hold is known if the file has all; that it has is known when the last   *)
(* chunk was read in full.                                                 *)
EndInv ==
  /\ ending # "none" => ended /\ writing = "idle"
  /\ ending \in Planned => PlanError = NoError /\ header = HeaderOf
  /\ ending \in Planned \cup {"none"} => endError = NoError
  /\ ending \in {"none", "handle", "open", "header"} => index = 0 /\ sink = <<>>
  /\ ending \in {"handle", "open", "header"} =>
       root = [key |-> RootKey, input |-> <<TheHeader>> \o region]
  /\ ending = "chunks" =>
       /\ index \in 0..header.chunkCount
       /\ index # 0 /\ index = header.chunkCount => Faithful
       /\ Faithful => sink = SoFar(index) /\ root = [key |-> RootKey, input |-> Digest(index)]
  /\ ending \in {"reader", "cleanup", "returned"} /\ endError = NoError =>
       PlanError = NoError /\ header = HeaderOf /\ sink = Whole

DoneInv ==
  finished => /\ ending = "returned" /\ endError = NoError
              /\ destroyed /\ error = NoError /\ cleaning = "done"

FinishInv == SpoolInv /\ PlainInv /\ EndInv /\ DoneInv

-----------------------------------------------------------------------------
(* What a plan that throws nothing means.                                  *)

LEMMA PlanIsNumbers ==
  ASSUME PlainInv, PlanError = NoError
  PROVE  /\ options.ChunkSize \in 1..MaxU32 /\ options.Key \in Seq(Nat) /\ options.BaseNonce \in Nat
         /\ encrypted <=> Len(options.Key) = KeyLen
         /\ EncodeMetadata(Entries).ok /\ region \in Seq(NumCells)
         /\ (region # <<>>) = (Entries # <<>>)
         /\ validate(HeaderOf) = NoError /\ totalSize \in 0..MaxU64 /\ totalSize = Len(accepted)
         /\ accepted \in Seq(NumCells)
  <1>1. /\ Len(options.Key) \in {0, KeyLen} /\ options.ChunkSize # 0 /\ EncodeMetadata(Entries).ok
        /\ validate(HeaderOf) = NoError /\ ~(totalSize > MaxU64)
    BY DEF PlanError, NoError, ReservedBits, MetaMalformed, OutOfRange
  <1>2. /\ options.Key \in Seq(Nat) /\ options.ChunkSize \in 0..MaxU32 /\ options.BaseNonce \in Nat
        /\ totalSize = Len(accepted) /\ accepted \in Seq(NumCells)
    BY DEF PlainInv
  <1>3. options.ChunkSize \in 1..MaxU32 /\ totalSize \in 0..MaxU64
    BY <1>1, <1>2, WidthAssumption
  <1>4. encrypted <=> Len(options.Key) = KeyLen
    <2>. DEFINE key == options.Key
    <2>1. key \in Seq(Nat) /\ Len(key) \in {0, 1}
      BY <1>1, <1>2 DEF KeyLen
    <2>. HIDE DEF key
    <2>2. key # <<>> <=> Len(key) = 1
      BY <2>1
    <2>. QED
      BY <2>2 DEF key, NoKey, KeyLen, encrypted
  <1>5. Entries \in Seq(Entry)
    BY NodeEncoderAssumption DEF Entry
  <1>6. region \in Seq(NumCells) /\ (region # <<>> <=> Entries # <<>>)
    BY <1>1, <1>5, RegionIsNumbers DEF region
  <1>. QED
    BY <1>1, <1>2, <1>3, <1>4, <1>6

LEMMA PlannedHeader ==
  ASSUME PlainInv, PlanError = NoError, header = HeaderOf
  PROVE  /\ TheHeader \in HeaderCells /\ RootKey \in {NoKey} \cup (Seq(Nat) \X Nat)
         /\ header.encrypted = encrypted /\ header.chunkSize = options.ChunkSize
         /\ header.chunkCount = (Len(accepted) + options.ChunkSize - 1) \div options.ChunkSize
  <1>1. /\ options.ChunkSize \in 1..MaxU32 /\ options.Key \in Seq(Nat) /\ options.BaseNonce \in Nat
        /\ totalSize \in 0..MaxU64 /\ totalSize = Len(accepted) /\ (Entries # <<>>) \in BOOLEAN
    BY PlanIsNumbers
  <1>. DEFINE plain == PlainHeader(options.ChunkSize, totalSize, Entries # <<>>)
              sealed == EncryptedHeader(options.ChunkSize, totalSize, Entries # <<>>, options.BaseNonce)
  <1>2. HeaderCell(plain) \in HeaderCells /\ HeaderCell(sealed) \in HeaderCells
    BY <1>1, HeadersAreCells
  <1>3. header = IF encrypted THEN sealed ELSE plain
    BY DEF HeaderOf
  <1>4. RootKey \in {NoKey} \cup (Seq(Nat) \X Nat)
    BY <1>1 DEF RootKey, rootKey
  <1>5. /\ plain.encrypted = FALSE /\ plain.chunkSize = options.ChunkSize
        /\ plain.chunkCount = (totalSize + options.ChunkSize - 1) \div options.ChunkSize
    BY DEF PlainHeader
  <1>6. /\ sealed.encrypted = TRUE /\ sealed.chunkSize = options.ChunkSize
        /\ sealed.chunkCount = (totalSize + options.ChunkSize - 1) \div options.ChunkSize
    BY DEF EncryptedHeader, PlainHeader
  <1>. HIDE DEF plain, sealed
  <1>7. encrypted \in BOOLEAN
    BY DEF encrypted
  <1>. QED
    BY <1>1, <1>2, <1>3, <1>4, <1>5, <1>6, <1>7 DEF TheHeader

LEMMA PlannedBodies ==
  ASSUME PlainInv, PlanError = NoError, header = HeaderOf
  PROVE  /\ Bodies \in Seq(Seq(BodyCells)) /\ Len(Bodies) = header.chunkCount /\ Len(Bodies) \in Nat
         /\ \A i \in 1..Len(Bodies) : Len(Bodies[i]) <= MaxU32
  <1>. DEFINE chunks == ChunksOf(accepted, options.ChunkSize)
  <1>1. /\ options.ChunkSize \in 1..MaxU32 /\ options.Key \in Seq(Nat) /\ options.BaseNonce \in Nat
        /\ region \in Seq(NumCells) /\ accepted \in Seq(NumCells) /\ TheHeader \in HeaderCells
        /\ header.encrypted = encrypted /\ header.chunkSize = options.ChunkSize
        /\ validate(header) = NoError
    BY PlanIsNumbers, PlannedHeader
  <1>2. Len(chunks) = header.chunkCount
    <2>1. ASSUME NEW size \in 1..MaxU32
          PROVE  Len(ChunksOf(accepted, size)) = (Len(accepted) + size - 1) \div size
      <3>1. size \in Nat \ {0}
        OBVIOUS
      <3>2. CutOf(ChunksOf(accepted, size), accepted, size)
        BY <1>1, <3>1, TextIsCut, Zenon
      <3>. QED
        BY <3>2, Zenon DEF CutOf
    <2>. QED
      BY <1>1, <2>1, PlannedHeader
  <1>3. ASSUME NEW bodies \in Seq(Seq(BodyCells))
        PROVE  Len(bodies) \in Nat
    OBVIOUS
  <1>4. CASE ~encrypted
    <2>1. /\ chunks \in Seq(Seq(BodyCells))
          /\ \A i \in 1..Len(chunks) : Len(chunks[i]) <= MaxU32
      BY <1>1, BodiesArePlain
    <2>. QED
      BY <1>2, <1>3, <1>4, <2>1 DEF Bodies
  <1>5. CASE encrypted
    <2>1. options.ChunkSize \in 1..MaxU32 - TagLen
      <3>1. ~(header.chunkSize > MaxU32 - TagLen)
        BY <1>1, <1>5 DEF validate, NoError, ReservedBits, UnsupportedAlgo, UnsupportedVer
      <3>. QED
        BY <1>1, <3>1, WidthAssumption DEF TagLen
    <2>. DEFINE sealed == SealedChunks(options.Key, options.BaseNonce, TheHeader, region, chunks)
    <2>2. /\ sealed \in Seq(Seq(BodyCells)) /\ Len(sealed) = Len(chunks)
          /\ \A i \in 1..Len(sealed) : Len(sealed[i]) <= MaxU32
      <3>1. ASSUME NEW size \in 1..MaxU32 - TagLen, NEW key \in Seq(Nat), NEW base \in Nat,
                   NEW head \in HeaderCells, NEW meta \in Seq(NumCells), NEW data \in Seq(NumCells)
            PROVE  LET made == SealedChunks(key, base, head, meta, ChunksOf(data, size))
                   IN  /\ made \in Seq(Seq(BodyCells)) /\ Len(made) = Len(ChunksOf(data, size))
                       /\ \A i \in 1..Len(made) : Len(made[i]) <= MaxU32
        BY BodiesAreSealed
      <3>. QED
        BY <1>1, <2>1, <3>1
    <2>. QED
      BY <1>2, <1>3, <1>5, <2>2 DEF Bodies
  <1>. QED
    BY <1>4, <1>5

(* The one-shot encoder makes the same container of the accepted bytes.    *)
LEMMA PlannedOneShot ==
  ASSUME PlainInv, PlanError = NoError, header = HeaderOf
  PROVE  OneShotContainer = Encoded(Whole)
  <1>. DEFINE meta == EncodeMetadata(Entries)
              size == options.ChunkSize
  <1>1. /\ size # 0 /\ meta.ok /\ region = meta.region /\ (region # <<>>) = (Entries # <<>>)
        /\ totalSize = Len(accepted) /\ validate(header) = NoError
        /\ encrypted <=> Len(options.Key) = KeyLen
    <2>1. size \in 1..MaxU32
      BY PlanIsNumbers
    <2>2. size # 0
      BY <2>1
    <2>. QED
      BY <2>2, PlanIsNumbers DEF region
  <1>2. CASE ~encrypted
    <2>1. header = PlainHeader(size, Len(accepted), meta.region # <<>>)
      BY <1>1, <1>2 DEF HeaderOf
    <2>2. OneShotContainer = EncodePlain(accepted, Entries, size)
      BY <1>2 DEF OneShotContainer
    <2>3. Whole = Container(NoKey, HeaderCell(header), meta.region, ChunksOf(accepted, size))
      BY <1>1, <1>2 DEF Whole, RootKey, TheHeader, Bodies
    <2>. HIDE DEF size
    <2>. QED
      BY <1>1, <2>1, <2>2, <2>3 DEF EncodePlain
  <1>3. CASE encrypted
    <2>1. header = EncryptedHeader(size, Len(accepted), meta.region # <<>>, options.BaseNonce)
      BY <1>1, <1>3 DEF HeaderOf
    <2>2. OneShotContainer = EncodeEncryptedWithFixedNonce(accepted, options.Key, options.BaseNonce,
                                                           Entries, size)
      BY <1>3 DEF OneShotContainer
    <2>3. Whole = Container(rootKey(options.Key, options.BaseNonce), HeaderCell(header), meta.region,
                            SealedChunks(options.Key, options.BaseNonce, HeaderCell(header),
                                         meta.region, ChunksOf(accepted, size)))
      BY <1>1, <1>3 DEF Whole, RootKey, TheHeader, Bodies
    <2>. HIDE DEF meta, size
    <2>. QED
      BY <1>1, <1>3, <2>1, <2>2, <2>3 DEF EncodeEncryptedWithFixedNonce, SealedChunks, meta
  <1>. QED
    BY <1>2, <1>3

-----------------------------------------------------------------------------
(* The pieces of the container, in the order finish writes them.           *)

Plan == PlanError = NoError /\ header = HeaderOf

TheFooter == <<RootCell(RootKey, Digest(Len(Bodies))), MagicEnd>>

LEMMA PlannedIsCells ==
  ASSUME PlainInv, Plan
  PROVE  /\ TheHeader \in HeaderCells /\ region \in Seq(NumCells)
         /\ Bodies \in Seq(Seq(BodyCells)) /\ \A i \in 1..Len(Bodies) : Len(Bodies[i]) <= MaxU32
         /\ RootKey \in {NoKey} \cup (Seq(Nat) \X Nat)
         /\ Len(Bodies) = header.chunkCount /\ Len(Bodies) \in Nat
  BY PlanIsNumbers, PlannedHeader, PlannedBodies DEF Plan

LEMMA PlannedStages ==
  ASSUME PlainInv, Plan
  PROVE  /\ SoFar(0) = <<TheHeader>> \o region /\ Digest(0) = <<TheHeader>> \o region
         /\ <<TheHeader>> \o region \in Seq(Cells)
         /\ \A k \in 0..Len(Bodies) - 1 :
              /\ SoFar(k + 1) = SoFar(k) \o Framed(Bodies[k + 1])
              /\ Digest(k + 1) = Append(Digest(k), Leaf(Bodies[k + 1]))
         /\ Whole = SoFar(Len(Bodies)) \o TheFooter
  <1>1. SoFar(0) = <<TheHeader>> \o region /\ Digest(0) = <<TheHeader>> \o region
    BY PlannedIsCells, NothingWritten DEF SoFar, Digest
  <1>2. <<TheHeader>> \o region \in Seq(Cells)
    BY PlannedIsCells, PrologueIsCells
  <1>3. ASSUME NEW k \in 0..Len(Bodies) - 1
        PROVE  /\ SoFar(k + 1) = SoFar(k) \o Framed(Bodies[k + 1])
               /\ Digest(k + 1) = Append(Digest(k), Leaf(Bodies[k + 1]))
    BY PlannedIsCells, ChunkWritten DEF SoFar, Digest
  <1>4. Whole = SoFar(Len(Bodies)) \o TheFooter
    BY PlannedIsCells, ContainerIsWritten DEF SoFar, Digest, TheFooter, Whole
  <1>. QED
    BY <1>1, <1>2, <1>3, <1>4

(* What is read for a chunk of a file that has all is that chunk.          *)
LEMMA ReadsItsChunk ==
  ASSUME PlainInv, Plan, Faithful, index \in 0..Len(Bodies) - 1
  PROVE  Body = Bodies[index + 1]
  <1>. DEFINE size == options.ChunkSize
              chunks == ChunksOf(accepted, size)
              start == index * size
  <1>1. /\ size \in Nat \ {0} /\ accepted \in Seq(NumCells) /\ totalSize = Len(accepted)
        /\ spool.data = accepted /\ Len(Bodies) = header.chunkCount /\ Len(Bodies) \in Nat
        /\ header.chunkCount = (Len(accepted) + size - 1) \div size
    <2>1. PlanError = NoError /\ header = HeaderOf /\ spool.data = accepted
      BY DEF Plan, Faithful
    <2>2. /\ size \in 1..MaxU32 /\ accepted \in Seq(NumCells) /\ totalSize = Len(accepted)
      BY <2>1, PlanIsNumbers, Zenon
    <2>3. size \in Nat \ {0}
      <3>. HIDE DEF size
      <3>. QED
        BY <2>2
    <2>4. header.chunkCount = (Len(accepted) + size - 1) \div size
      BY <2>1, PlannedHeader, Zenon
    <2>5. Len(Bodies) = header.chunkCount /\ Len(Bodies) \in Nat
      BY PlannedIsCells, Zenon
    <2>. QED
      BY <2>1, <2>2, <2>3, <2>4, <2>5, Zenon
  <1>. HIDE DEF size
  <1>2. /\ Len(chunks) = header.chunkCount /\ chunks \in Seq(Seq(NumCells))
        /\ \A i \in 1..Len(chunks) :
             chunks[i] = SubSeq(accepted, (i - 1) * size + 1,
                                (i - 1) * size + Lesser(size, Len(accepted) - (i - 1) * size))
    <2>1. CutOf(chunks, accepted, size)
      BY <1>1, TextIsCut, Zenon
    <2>2. Len(chunks) = (Len(accepted) + size - 1) \div size
      BY <2>1, Zenon DEF CutOf
    <2>3. Len(chunks) = header.chunkCount
      BY <1>1, <2>2
    <2>. QED
      BY <2>1, <2>3, Zenon DEF CutOf
  <1>3. index + 1 \in 1..Len(chunks) /\ (index + 1) - 1 = index /\ DOMAIN chunks = 1..Len(chunks)
    BY <1>1, <1>2
  <1>. HIDE DEF chunks
  <1>4. chunks[index + 1] = SubSeq(accepted, start + 1, start + Lesser(size, Len(accepted) - start))
    BY <1>2, <1>3
  <1>5. Plain = chunks[index + 1]
    <2>1. index < header.chunkCount /\ index \in Nat
      BY <1>1
    <2>2. start \in Nat
      BY <1>1, <2>1
    <2>3. Plain = SubSeq(accepted, start + 1,
                         Lesser(start + Lesser(size, Len(accepted) - start), Len(accepted)))
      BY <1>1 DEF Plain, size
    <2>. HIDE DEF start
    <2>4. /\ Len(accepted) \in Nat
          /\ start + Lesser(size, Len(accepted) - start) <= Len(accepted)
      BY <1>1, <2>2 DEF Lesser
    <2>5. Lesser(start + Lesser(size, Len(accepted) - start), Len(accepted))
            = start + Lesser(size, Len(accepted) - start)
      BY <2>4 DEF Lesser
    <2>. QED
      BY <1>4, <2>3, <2>5
  <1>6. CASE ~encrypted
    BY <1>5, <1>6 DEF Body, Bodies, chunks, size
  <1>7. CASE encrypted
    <2>1. Body = sealChunk(options.Key, options.BaseNonce, TheHeader, region, index, chunks[index + 1])
      BY <1>5, <1>7 DEF Body, TheHeader
    <2>2. Bodies = SealedChunks(options.Key, options.BaseNonce, TheHeader, region, chunks)
      BY <1>7 DEF Bodies, chunks, size
    <2>3. Bodies[index + 1] = sealChunk(options.Key, options.BaseNonce, TheHeader, region,
                                        (index + 1) - 1, chunks[index + 1])
      BY <1>3, <2>2 DEF SealedChunks
    <2>. QED
      BY <1>3, <2>1, <2>3
  <1>. QED
    BY <1>6, <1>7

(* No chunk has all of its bytes behind the end of a file that is too      *)
(* short, and the last chunk ends with the last byte.                      *)
LEMMA LastChunkTells ==
  ASSUME PlainInv, Plan, ReadInFull, index \in Nat, index + 1 = header.chunkCount
  PROVE  Faithful
  <1>. SUFFICES ASSUME Len(spool.data) < Len(accepted)
                PROVE  FALSE
    BY DEF PlainInv
  <1>. DEFINE size == options.ChunkSize
              start == index * size
              have == Len(spool.data)
              total == Len(accepted)
  <1>1. /\ size \in Nat \ {0} /\ totalSize = total /\ total \in Nat /\ have \in Nat /\ have < total
        /\ spool.data \in Seq(NumCells) /\ index + 1 = (total + size - 1) \div size
    BY PlanIsNumbers, PlannedHeader DEF Plan, PlainInv
  <1>. HIDE DEF size, have, total
  <1>2. start \in Nat /\ start < total /\ total - start <= size
    <2>1. total + size - 1 \in Nat
      BY <1>1
    <2>2. (index + 1) * size <= total + size - 1 /\ total + size - 1 < (index + 1) * size + size
      BY <1>1, <2>1, DivisionBounds
    <2>3. (index + 1) * size = start + size /\ start \in Nat
      BY <1>1
    <2>. HIDE DEF start
    <2>. QED
      BY <1>1, <2>2, <2>3
  <1>3. Plain = SubSeq(spool.data, start + 1, have) /\ Len(Plain) = total - start
    <2>1. Plain = SubSeq(spool.data, start + 1, Lesser(start + Lesser(size, total - start), have))
          /\ Len(Plain) = Lesser(size, total - start)
      BY <1>1 DEF Plain, ReadInFull, size, have, total
    <2>. HIDE DEF start
    <2>2. Lesser(size, total - start) = total - start
      BY <1>1, <1>2 DEF Lesser
    <2>3. start + (total - start) = total
      BY <1>1, <1>2
    <2>4. Lesser(total, have) = have
      BY <1>1 DEF Lesser
    <2>. QED
      BY <2>1, <2>2, <2>3, <2>4
  <1>. HIDE DEF start
  <1>4. Len(SubSeq(spool.data, start + 1, have)) = IF start + 1 <= have THEN have - start ELSE 0
    BY <1>1, <1>2 DEF have
  <1>. QED
    BY <1>1, <1>2, <1>3, <1>4

(* An empty plaintext cannot be stored badly.                              *)
LEMMA NoChunkIsFaithful ==
  ASSUME PlainInv, Plan, header.chunkCount = 0
  PROVE  Faithful
  <1>. DEFINE size == options.ChunkSize
              total == Len(accepted)
  <1>1. /\ size \in Nat \ {0} /\ total \in Nat /\ (total + size - 1) \div size = 0
    BY PlanIsNumbers, PlannedHeader DEF Plan
  <1>. HIDE DEF size
  <1>2. total = 0
    <2>. HIDE DEF total
    <2>1. total + size - 1 \in Nat
      BY <1>1
    <2>2. total + size - 1 < 0 * size + size
      BY <1>1, <2>1, DivisionBounds
    <2>. QED
      BY <1>1, <2>2
  <1>3. spool.data \in Seq(NumCells)
    BY DEF PlainInv
  <1>4. ~(Len(spool.data) < 0)
    BY <1>3
  <1>. QED
    BY <1>2, <1>4 DEF PlainInv

-----------------------------------------------------------------------------
(* What the file has: a write that is short leaves it short for good.      *)

LEMMA PlainStays ==
  ASSUME PlainInv, UNCHANGED <<options, piece, accepted, totalSize>>, spool'.data = spool.data
  PROVE  PlainInv'
  BY DEF PlainInv, Faithful

LEMMA WriteKeepsPlain ==
  ASSUME SpoolInv, PlainInv, WriteSucceeds
  PROVE  PlainInv'
  <1>1. PICK n \in 0..Len(piece) : spool' = [spool EXCEPT !.data = spool.data \o SubSeq(piece, 1, n)]
    BY DEF WriteSucceeds
  <1>. DEFINE part == SubSeq(piece, 1, n)
              data == spool.data
  <1>2. /\ piece \in Seq(NumCells) /\ accepted \in Seq(NumCells) /\ data \in Seq(NumCells)
        /\ totalSize = Len(accepted) /\ (data = accepted \/ Len(data) < Len(accepted))
        /\ Len(piece) \in Nat /\ n \in Nat /\ n <= Len(piece)
    BY DEF PlainInv, Faithful
  <1>3. part \in Seq(NumCells) /\ Len(part) = n
    BY <1>2, SubSeqProperties
  <1>4. n = Len(piece) => part = piece
    BY <1>2, <1>3, SubSeqProperties, SeqsAreEqual
  <1>5. /\ spool'.data = data \o part /\ accepted' = accepted \o piece
        /\ totalSize' = totalSize + Len(piece) /\ piece' = piece /\ options' = options
    BY <1>1 DEF WriteSucceeds, userVars, SpoolInv, FilesInv
  <1>. HIDE DEF part, data
  <1>6. /\ data \o part \in Seq(NumCells) /\ Len(data \o part) = Len(data) + n
        /\ accepted \o piece \in Seq(NumCells)
        /\ Len(accepted \o piece) = Len(accepted) + Len(piece)
    BY <1>2, <1>3, ConcatProperties
  <1>7. data \o part = accepted \o piece \/ Len(data \o part) < Len(accepted \o piece)
    <2>1. Len(data) \in Nat /\ Len(accepted) \in Nat
      BY <1>2
    <2>2. CASE n = Len(piece) /\ data = accepted
      BY <1>4, <2>2
    <2>3. CASE n # Len(piece) \/ data # accepted
      BY <1>2, <1>6, <2>1, <2>3
    <2>. QED
      BY <2>2, <2>3
  <1>. QED
    BY <1>2, <1>5, <1>6, <1>7 DEF PlainInv, Faithful

LEMMA StepPlain ==
  ASSUME SpoolInv, PlainInv, [EncNext]_encVars
  PROVE  PlainInv'
  <1>1. CASE MakesDir \/ CleanupRemoves
    <2>1. UNCHANGED <<options, piece, accepted, totalSize>>
          /\ (spool' = [spool EXCEPT !.exists = TRUE] \/ spool' = [spool EXCEPT !.exists = FALSE]
              \/ spool' = spool)
      BY <1>1 DEF MakesDir, CleanupRemoves, userVars, writeVars
    <2>2. spool'.data = spool.data
      BY <2>1 DEF SpoolInv, FilesInv
    <2>. QED
      BY <2>1, <2>2, PlainStays
  <1>2. ASSUME NEW p \in Pieces, Writes(p)
        PROVE  PlainInv'
    <2>1. p \in Seq(NumCells)
      BY NodeEncoderAssumption
    <2>. QED
      BY <1>2, <2>1 DEF Writes, PlainInv, Faithful, userVars, spoolVars
  <1>3. CASE OpensFile \/ CleanupCloses \/ Ends \/ EndClosesFile \/ UNCHANGED encVars
    BY <1>3, PlainStays DEF OpensFile, CleanupCloses, Ends, EndClosesFile, encVars, userVars, spoolVars, writeVars
  <1>4. CASE WriteFails \/ WriteReports \/ Destroys \/ Closes \/ EndStarts \/ EndOpensReader
             \/ EndWritesHeader \/ EndWritesChunk \/ EndWritesFooter \/ EndClosesReader \/ EndReturns
    <2>1. UNCHANGED <<options, piece, accepted, totalSize, spool>>
      BY <1>4 DEF WriteFails, WriteReports, Destroys, Closes, EndStarts, EndOpensReader,
                  EndWritesHeader, EndWritesChunk, EndWritesFooter, EndClosesReader, EndReturns,
                  userVars, spoolVars, writeVars
    <2>. QED
      BY <2>1, PlainStays
  <1>. QED
    BY <1>1, <1>2, <1>3, <1>4, WriteKeepsPlain DEF EncNext, Cleaning, Writing, Ending

-----------------------------------------------------------------------------
(* The steps of finish.                                                    *)

LEMMA SamePlan ==
  ASSUME UNCHANGED <<options, accepted, totalSize>>
  PROVE  /\ PlanError' = PlanError /\ HeaderOf' = HeaderOf /\ RootKey' = RootKey
         /\ region' = region /\ encrypted' = encrypted
         /\ header' = header => /\ Bodies' = Bodies /\ Whole' = Whole /\ TheHeader' = TheHeader
                                /\ Plan' = Plan
  <1>1. encrypted' = encrypted /\ region' = region
    BY DEF encrypted, region
  <1>2. HeaderOf' = HeaderOf
    BY <1>1 DEF HeaderOf
  <1>3. PlanError' = PlanError
    BY <1>2 DEF PlanError
  <1>4. RootKey' = RootKey
    BY <1>1 DEF RootKey
  <1>5. ASSUME header' = header
        PROVE  Bodies' = Bodies /\ Whole' = Whole /\ TheHeader' = TheHeader /\ Plan' = Plan
    BY <1>1, <1>2, <1>3, <1>4, <1>5 DEF Bodies, Whole, TheHeader, Plan
  <1>. QED
    BY <1>1, <1>2, <1>3, <1>4, <1>5

(* finish fails: nothing is promised of the sink.                          *)
LEMMA ThrowKeeps ==
  ASSUME NEW err, err # NoError, EndThrows(err), UNCHANGED <<ended, writing>>, ended, writing = "idle"
  PROVE  EndInv'
  <1>1. ending' \in {"reader", "cleanup"} /\ endError' = err
    BY DEF EndThrows
  <1>. QED
    BY <1>1 DEF EndInv, Planned

LEMMA StartKeeps ==
  ASSUME PlainInv, EndInv, EndStarts
  PROVE  EndInv'
  <1>1. /\ ending = "none" /\ ended /\ writing = "idle"
        /\ UNCHANGED <<options, accepted, totalSize, ended, writing, sink, spool>>
    BY DEF EndStarts, userVars, writeVars, spoolVars
  <1>2. CASE PlanError # NoError
    BY <1>1, <1>2, ThrowKeeps DEF EndStarts
  <1>3. CASE PlanError = NoError
    <2>1. /\ header' = HeaderOf /\ ending' = "handle" /\ endError' = endError /\ index' = index
          /\ root' = [key |-> RootKey, input |-> <<HeaderCell(header')>> \o region]
      BY <1>3 DEF EndStarts, Goes, RootKey
    <2>2. endError = NoError /\ index = 0 /\ sink = <<>>
      BY <1>1 DEF EndInv
    <2>3. /\ PlanError' = NoError /\ header' = HeaderOf' /\ RootKey' = RootKey /\ region' = region
          /\ TheHeader' = HeaderCell(header')
      BY <1>1, <1>3, <2>1, SamePlan DEF TheHeader
    <2>4. root' = [key |-> RootKey', input |-> <<TheHeader'>> \o region']
      BY <2>1, <2>3
    <2>. QED
      BY <1>1, <2>1, <2>2, <2>3, <2>4 DEF EndInv, Planned
  <1>. QED
    BY <1>2, <1>3

LEMMA OpenKeeps ==
  ASSUME PlainInv, EndInv, EndClosesFile \/ EndOpensReader
  PROVE  EndInv'
  <1>1. /\ ending \in {"handle", "open"} /\ UNCHANGED <<header, root, index>>
        /\ UNCHANGED <<options, accepted, totalSize, ended, writing, sink>>
    BY DEF EndClosesFile, EndOpensReader, userVars, writeVars, localVars
  <1>2. ended /\ writing = "idle" /\ Failure # NoError
    BY <1>1 DEF EndInv, Failure, NoError
  <1>3. CASE EndThrows(Failure)
    BY <1>1, <1>2, <1>3, ThrowKeeps
  <1>4. CASE Goes("open") \/ Goes("header")
    <2>1. ending' \in {"open", "header"} /\ endError' = endError
      BY <1>4 DEF Goes
    <2>. QED
      BY <1>1, <1>2, <2>1, SamePlan DEF EndInv, Planned
  <1>. QED
    BY <1>3, <1>4 DEF EndClosesFile, EndOpensReader

LEMMA HeaderKeeps ==
  ASSUME PlainInv, EndInv, EndWritesHeader
  PROVE  EndInv'
  <1>1. /\ ending = "header" /\ UNCHANGED <<header, root, index, spool>>
        /\ UNCHANGED <<options, accepted, totalSize, ended, writing>>
    BY DEF EndWritesHeader, userVars, writeVars, spoolVars, localVars
  <1>2. /\ ended /\ writing = "idle" /\ Failure # NoError /\ Plan /\ endError = NoError
        /\ index = 0 /\ sink = <<>> /\ root = [key |-> RootKey, input |-> <<TheHeader>> \o region]
    BY <1>1 DEF EndInv, Planned, Plan, Failure, NoError
  <1>3. CASE EndThrows(Failure)
    BY <1>1, <1>2, <1>3, ThrowKeeps
  <1>4. CASE Goes("chunks") /\ sink' = sink \o (<<TheHeader>> \o region)
    <2>1. ending' = "chunks" /\ endError' = NoError
      BY <1>2, <1>4 DEF Goes
    <2>2. /\ SoFar(0) = <<TheHeader>> \o region /\ Digest(0) = <<TheHeader>> \o region
          /\ <<TheHeader>> \o region \in Seq(Cells)
      BY <1>2, PlannedStages
    <2>3. <<>> \o (<<TheHeader>> \o region) = <<TheHeader>> \o region
      BY <2>2, ConcatEmptySeq
    <2>4. sink' = SoFar(0) /\ root' = [key |-> RootKey, input |-> Digest(0)] /\ index' = 0
      BY <1>1, <1>2, <1>4, <2>2, <2>3
    <2>5. 0 \in 0..header.chunkCount
      BY <1>2, PlannedIsCells
    <2>6. /\ PlanError' = NoError /\ header' = HeaderOf' /\ RootKey' = RootKey
          /\ Bodies' = Bodies /\ TheHeader' = TheHeader /\ region' = region
      BY <1>1, <1>2, SamePlan DEF Plan
    <2>7. sink' = SoFar(0)' /\ root' = [key |-> RootKey', input |-> Digest(0)']
      BY <2>4, <2>6 DEF SoFar, Digest
    <2>. QED
      BY <1>1, <1>2, <2>1, <2>4, <2>5, <2>6, <2>7 DEF EndInv, Planned, SoFar, Digest
  <1>. QED
    BY <1>3, <1>4 DEF EndWritesHeader, WriteTo, TheHeader

LEMMA ChunkKeeps ==
  ASSUME PlainInv, EndInv, EndWritesChunk
  PROVE  EndInv'
  <1>. DEFINE body == Body
              piece1 == Framed(body)
  <1>1. /\ ending = "chunks" /\ UNCHANGED <<header, spool>> /\ index < header.chunkCount
        /\ UNCHANGED <<options, accepted, totalSize, ended, writing>>
    BY DEF EndWritesChunk, MoreChunks, userVars, writeVars, spoolVars
  <1>2. /\ ended /\ writing = "idle" /\ Plan /\ endError = NoError
        /\ index \in 0..header.chunkCount
        /\ Faithful => sink = SoFar(index) /\ root = [key |-> RootKey, input |-> Digest(index)]
    BY <1>1 DEF EndInv, Planned, Plan
  <1>3. Failure # NoError /\ ShortFile # NoError
    BY DEF Failure, ShortFile, NoError
  <1>4. CASE EndThrows(Failure) \/ EndThrows(ShortFile)
    BY <1>1, <1>2, <1>3, <1>4, ThrowKeeps
  <1>5. CASE /\ ReadInFull /\ sink' = sink \o piece1 /\ Goes("chunks")
             /\ root' = [root EXCEPT !.input = Append(root.input, Leaf(body))] /\ index' = index + 1
    <2>1. ending' = "chunks" /\ endError' = NoError
      BY <1>2, <1>5 DEF Goes
    <2>2. /\ header.chunkCount \in Nat /\ Len(Bodies) = header.chunkCount
          /\ index \in 0..Len(Bodies) - 1 /\ index + 1 \in 0..header.chunkCount /\ index \in Nat
      BY <1>1, <1>2, PlannedIsCells
    <2>3. index + 1 = header.chunkCount => Faithful
      BY <1>2, <1>5, <2>2, LastChunkTells
    <2>4. ASSUME Faithful
          PROVE  sink' = SoFar(index + 1) /\ root' = [key |-> RootKey, input |-> Digest(index + 1)]
      <3>1. body = Bodies[index + 1]
        BY <1>2, <2>2, <2>4, ReadsItsChunk
      <3>2. /\ SoFar(index + 1) = SoFar(index) \o Framed(Bodies[index + 1])
            /\ Digest(index + 1) = Append(Digest(index), Leaf(Bodies[index + 1]))
        BY <1>2, <2>2, PlannedStages
      <3>3. sink = SoFar(index) /\ root = [key |-> RootKey, input |-> Digest(index)]
        BY <1>2, <2>4
      <3>. HIDE DEF body
      <3>. QED
        BY <1>5, <3>1, <3>2, <3>3
    <2>5. /\ PlanError' = NoError /\ header' = HeaderOf' /\ RootKey' = RootKey
          /\ Bodies' = Bodies /\ TheHeader' = TheHeader /\ region' = region
      BY <1>1, <1>2, SamePlan DEF Plan
    <2>6. Faithful' = Faithful
      BY <1>1 DEF Faithful
    <2>7. Faithful' => sink' = SoFar(index)' /\ root' = [key |-> RootKey', input |-> Digest(index)']
      BY <1>5, <2>4, <2>5, <2>6 DEF SoFar, Digest
    <2>. HIDE DEF body, piece1
    <2>. QED
      BY <1>1, <1>2, <1>5, <2>1, <2>2, <2>3, <2>5, <2>6, <2>7 DEF EndInv, Planned, SoFar, Digest
  <1>. QED
    BY <1>4, <1>5 DEF EndWritesChunk

LEMMA FooterKeeps ==
  ASSUME PlainInv, EndInv, EndWritesFooter
  PROVE  EndInv'
  <1>1. /\ ending = "chunks" /\ UNCHANGED <<header, spool>> /\ ~(index < header.chunkCount)
        /\ UNCHANGED <<options, accepted, totalSize, ended, writing>>
    BY DEF EndWritesFooter, MoreChunks, userVars, writeVars, spoolVars, localVars
  <1>2. /\ ended /\ writing = "idle" /\ Plan /\ endError = NoError /\ Failure # NoError
        /\ index \in 0..header.chunkCount /\ (index # 0 /\ index = header.chunkCount => Faithful)
        /\ Faithful => sink = SoFar(index) /\ root = [key |-> RootKey, input |-> Digest(index)]
    BY <1>1 DEF EndInv, Planned, Plan, Failure, NoError
  <1>3. index = header.chunkCount /\ header.chunkCount = Len(Bodies)
    BY <1>1, <1>2, PlannedIsCells
  <1>4. Faithful
    BY <1>2, <1>3, NoChunkIsFaithful
  <1>5. sink \o <<RootCell(root.key, root.input), MagicEnd>> = Whole
    <2>1. root.key = RootKey /\ root.input = Digest(Len(Bodies))
      BY <1>2, <1>3, <1>4
    <2>2. Whole = SoFar(Len(Bodies)) \o TheFooter
      BY <1>2, PlannedStages
    <2>. QED
      BY <1>2, <1>3, <1>4, <2>1, <2>2 DEF TheFooter
  <1>6. CASE EndThrows(Failure)
    BY <1>1, <1>2, <1>6, ThrowKeeps
  <1>7. CASE sink' = sink \o <<RootCell(root.key, root.input), MagicEnd>> /\ Goes("reader")
    <2>1. ending' = "reader" /\ sink' = Whole
      BY <1>5, <1>7 DEF Goes
    <2>2. PlanError' = NoError /\ header' = HeaderOf' /\ sink' = Whole'
      BY <1>1, <1>2, <2>1, SamePlan DEF Plan
    <2>. QED
      BY <1>1, <1>2, <2>1, <2>2 DEF EndInv, Planned
  <1>. QED
    BY <1>6, <1>7 DEF EndWritesFooter, WriteTo

LEMMA CloseKeeps ==
  ASSUME PlainInv, EndInv, EndClosesReader \/ EndReturns
  PROVE  EndInv'
  <1>1. /\ ending \in {"reader", "cleanup"} /\ ending' \in {"cleanup", "returned"}
        /\ UNCHANGED <<header, sink, options, accepted, totalSize, ended, writing>>
        /\ endError' \in {endError, Failure}
    BY DEF EndClosesReader, EndReturns, userVars, writeVars, localVars
  <1>2. ended /\ writing = "idle" /\ Failure # NoError
    BY <1>1 DEF EndInv, Failure, NoError
  <1>3. CASE endError' # NoError
    BY <1>1, <1>2, <1>3 DEF EndInv, Planned
  <1>4. CASE endError' = NoError
    <2>1. PlanError = NoError /\ header = HeaderOf /\ sink = Whole
      BY <1>1, <1>2, <1>4 DEF EndInv
    <2>2. PlanError' = NoError /\ header' = HeaderOf' /\ sink' = Whole'
      BY <1>1, <2>1, SamePlan
    <2>. QED
      BY <1>1, <1>2, <2>2 DEF EndInv, Planned
  <1>. QED
    BY <1>3, <1>4

-----------------------------------------------------------------------------
(* The steps of the others: before end() they change what is planned, and  *)
(* afterwards nothing that finish reads.                                   *)
LEMMA OtherStepKeeps ==
  ASSUME PlainInv, EndInv, UNCHANGED <<endVars, localVars, sink, options>>,
         \/ ending = "none"
         \/ /\ UNCHANGED <<accepted, totalSize, ended, writing>>
            /\ spool'.data = spool.data
  PROVE  EndInv'
  <1>1. UNCHANGED <<ending, endError, header, root, index, sink, options>>
    BY DEF endVars, localVars
  <1>2. CASE ending = "none"
    BY <1>1, <1>2 DEF EndInv, Planned
  <1>3. CASE UNCHANGED <<accepted, totalSize, ended, writing>> /\ spool'.data = spool.data
    <2>1. /\ PlanError' = PlanError /\ HeaderOf' = HeaderOf /\ RootKey' = RootKey
          /\ region' = region /\ Bodies' = Bodies /\ Whole' = Whole /\ TheHeader' = TheHeader
          /\ Faithful' = Faithful
      BY <1>1, <1>3, SamePlan DEF Faithful
    <2>. QED
      BY <1>1, <1>3, <2>1 DEF EndInv, SoFar, Digest
  <1>. QED
    BY <1>2, <1>3

LEMMA StepEnd ==
  ASSUME SpoolInv, PlainInv, EndInv, [EncNext]_encVars
  PROVE  EndInv'
  <1>1. CASE MakesDir \/ CleanupRemoves
    <2>1. /\ UNCHANGED <<endVars, localVars, sink, options>>
          /\ UNCHANGED <<accepted, totalSize, ended, writing>>
          /\ (spool' = [spool EXCEPT !.exists = TRUE] \/ spool' = [spool EXCEPT !.exists = FALSE]
              \/ spool' = spool)
      BY <1>1 DEF MakesDir, CleanupRemoves, userVars, writeVars
    <2>2. spool'.data = spool.data
      BY <2>1 DEF SpoolInv, FilesInv
    <2>. QED
      BY <2>1, <2>2, OtherStepKeeps
  <1>2. CASE OpensFile \/ CleanupCloses \/ Destroys \/ Closes \/ UNCHANGED encVars
    BY <1>2, OtherStepKeeps DEF OpensFile, CleanupCloses, Destroys, Closes, encVars, userVars,
                                spoolVars, writeVars
  <1>3. CASE Writing \/ Ends \/ (\E p \in Pieces : Writes(p))
    <2>1. ending = "none"
      BY <1>3 DEF EndInv, Writing, WriteSucceeds, WriteFails, WriteReports, Ends, Writes
    <2>2. UNCHANGED <<endVars, localVars, sink, options>>
      BY <1>3 DEF Writing, WriteSucceeds, WriteFails, WriteReports, Ends, Writes, userVars
    <2>. QED
      BY <2>1, <2>2, OtherStepKeeps
  <1>. QED
    BY <1>1, <1>2, <1>3, StartKeeps, OpenKeeps, HeaderKeeps, ChunkKeeps, FooterKeeps, CloseKeeps
    DEF EncNext, Cleaning, Ending

-----------------------------------------------------------------------------
(* A stream that has finished was not destroyed before, and no error       *)
(* follows.                                                                *)
LEMMA StepDone ==
  ASSUME EndInv, DoneInv, [EncNext]_encVars
  PROVE  DoneInv'
  <1>1. CASE EndReturns
    <2>. DEFINE err == IF cleaning = "failed" THEN Failure ELSE endError
    <2>1. /\ ending' = "returned" /\ endError' = err /\ Destroy(err) /\ cleaning \in {"done", "failed"}
          /\ finished' = (err = NoError /\ ~destroyed)
      BY <1>1 DEF EndReturns, Cleaned
    <2>2. ASSUME finished'
          PROVE  /\ err = NoError /\ ~destroyed /\ cleaning = "done"
      BY <2>1, <2>2 DEF Failure, NoError
    <2>3. ASSUME finished'
          PROVE  destroyed' /\ error' = NoError /\ cleaning' = "done"
      BY <2>1, <2>2, <2>3 DEF Destroy, Cleans
    <2>. QED
      BY <2>1, <2>2, <2>3 DEF DoneInv
  <1>2. CASE ~EndReturns
    <2>1. finished' = finished
      BY <1>2 DEF EncNext, Cleaning, Writing, Ending, MakesDir, OpensFile, CleanupCloses,
             CleanupRemoves, Writes, WriteSucceeds, WriteFails, WriteReports, Ends, EndStarts,
             EndClosesFile, EndOpensReader, EndWritesHeader, EndWritesChunk, EndWritesFooter,
             EndClosesReader, Destroys, Closes, userVars, encVars
    <2>2. ASSUME finished
          PROVE  UNCHANGED <<ending, endError, destroyed, error, cleaning>>
      <3>1. ending = "returned" /\ destroyed /\ error = NoError /\ cleaning = "done"
            /\ ended /\ writing = "idle"
        BY <2>2 DEF DoneInv, EndInv
      <3>2. ~Ending /\ ~Writing /\ ~Cleaning /\ ~Ends /\ ~Destroys /\ ~\E p \in Pieces : Writes(p)
        BY <3>1, <1>2 DEF Ending, EndStarts, EndClosesFile, EndOpensReader, EndWritesHeader,
             EndWritesChunk, EndWritesFooter, EndClosesReader, Writing, WriteSucceeds, WriteFails,
             WriteReports, Cleaning, CleanupCloses, CleanupRemoves, Ends, Destroys, Writes
      <3>. QED
        BY <3>1, <3>2 DEF EncNext, MakesDir, OpensFile, Closes, encVars, endVars, doneVars
    <2>. QED
      BY <2>1, <2>2 DEF DoneInv
  <1>. QED
    BY <1>1, <1>2

LEMMA InitFinish == EncInit => FinishInv
  <1>. SUFFICES ASSUME EncInit
                PROVE  FinishInv
    OBVIOUS
  <1>1. SpoolInv
    BY InitSpool
  <1>2. PlainInv
    <2>1. /\ options \in EncodeOptions /\ piece = <<>> /\ accepted = <<>> /\ spool.data = <<>>
          /\ totalSize = 0
      BY DEF EncInit
    <2>. QED
      BY <2>1, NodeEncoderAssumption, EmptySeq DEF PlainInv, Faithful
  <1>3. EndInv /\ DoneInv
    BY DEF EncInit, EndInv, DoneInv, Planned
  <1>. QED
    BY <1>1, <1>2, <1>3 DEF FinishInv

LEMMA StepFinish == FinishInv /\ [EncNext]_encVars => FinishInv'
  BY StepSpool, StepPlain, StepEnd, StepDone DEF FinishInv

(* A stream that finishes has the whole container of all that was accepted *)
(* in its sink, also if the file took less of a piece than it was given    *)
(* without an error: then a chunk, the last one at the latest, is read     *)
(* short, and finish throws.                                               *)
THEOREM FinishHonest == EncSpec => []FinishIsHonest
  <1>1. ASSUME FinishInv, finished
        PROVE  /\ OneShotContainer.err = NoError /\ sink = OneShotContainer.out
               /\ error = NoError
    <2>1. /\ PlainInv /\ PlanError = NoError /\ header = HeaderOf /\ sink = Whole
          /\ error = NoError
      BY <1>1 DEF FinishInv, DoneInv, EndInv
    <2>2. OneShotContainer = Encoded(Whole)
      BY <2>1, PlannedOneShot
    <2>. QED
      BY <2>1, <2>2 DEF Encoded
  <1>. QED
    BY <1>1, InitFinish, StepFinish, PTL DEF EncSpec, FinishIsHonest

(* And what is in the sink then decodes, under the options' key, to what   *)
(* was accepted and to all of the metadata in ascending order of tags.     *)
FinishDecodes ==
  finished => \A caps : AmpleCaps(caps) => DecodesBack(sink, options.Key, caps, accepted, Entries)

LEMMA FinishedIsRead ==
  ASSUME FinishInv, finished, NEW caps, AmpleCaps(caps)
  PROVE  DecodesBack(sink, options.Key, caps, accepted, Entries)
  <1>1. PlainInv /\ PlanError = NoError /\ header = HeaderOf /\ sink = Whole
    BY DEF FinishInv, DoneInv, EndInv
  <1>2. OneShotContainer.err = NoError /\ OneShotContainer.out = sink
    <2>1. OneShotContainer = Encoded(Whole)
      BY <1>1, PlannedOneShot
    <2>. QED
      BY <1>1, <2>1 DEF Encoded
  <1>3. /\ options.ChunkSize \in 0..MaxU32 /\ options.Key \in Seq(Nat) /\ options.BaseNonce \in Nat
        /\ accepted \in Seq(NumCells) /\ Len(accepted) <= MaxU64
    <2>1. /\ options.ChunkSize \in 1..MaxU32 /\ options.Key \in Seq(Nat) /\ options.BaseNonce \in Nat
          /\ totalSize \in 0..MaxU64 /\ totalSize = Len(accepted) /\ accepted \in Seq(NumCells)
      BY <1>1, PlanIsNumbers
    <2>2. totalSize <= MaxU64
      BY <2>1, WidthAssumption
    <2>3. options.ChunkSize \in 0..MaxU32
      BY <2>1, WidthAssumption
    <2>. QED
      BY <2>1, <2>2, <2>3, Zenon
  <1>4. Entries \in Seq(Entry)
    BY NodeEncoderAssumption DEF Entry
  <1>5. CASE ~encrypted
    <2>. DEFINE r == EncodePlain(accepted, Entries, options.ChunkSize)
    <2>1. OneShotContainer = r
      BY <1>5, Zenon DEF OneShotContainer
    <2>2. r.err = NoError /\ r.out = sink
      BY <1>2, <2>1, Zenon
    <2>3. DecodesBack(r.out, options.Key, caps, accepted, Entries)
      BY <1>3, <1>4, <2>2, PlainDecodes
    <2>. QED
      BY <2>2, <2>3, Zenon
  <1>6. CASE encrypted
    <2>. DEFINE r == EncodeEncryptedWithFixedNonce(accepted, options.Key, options.BaseNonce, Entries,
                                                   options.ChunkSize)
    <2>1. OneShotContainer = r
      BY <1>6, Zenon DEF OneShotContainer
    <2>2. r.err = NoError /\ r.out = sink
      BY <1>2, <2>1, Zenon
    <2>3. DecodesBack(r.out, options.Key, caps, accepted, Entries)
      BY <1>3, <1>4, <2>2, EncryptedDecodes
    <2>. QED
      BY <2>2, <2>3, Zenon
  <1>. QED
    BY <1>5, <1>6

(* When the Encoder of the Node SDK emits finish, decodeBytes reads its    *)
(* sink back to what was written to the stream.                            *)
THEOREM FinishedDecodes == EncSpec => []FinishDecodes
  <1>1. FinishInv => FinishDecodes
    BY FinishedIsRead DEF FinishDecodes
  <1>. QED
    BY <1>1, InitFinish, StepFinish, PTL DEF EncSpec
=============================================================================
