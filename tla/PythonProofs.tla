---------------------------- MODULE PythonProofs ----------------------------
(***************************************************************************)
(* What the streaming classes of sdk/python do: that the Decoder is the    *)
(* streaming reader of UbcReader over every stream, key and caps, until    *)
(* its source first raises; and what the sink of an Encoder holds, for any *)
(* writes, options and metadata, wherever the file or the sink breaks off, *)
(* and when that is decoded to what was written.                           *)
(***************************************************************************)
EXTENDS PyOriginals, PyReadBack, UbcFormatProofs

-----------------------------------------------------------------------------
(* The Decoder: types, and what its phases mean.                           *)

Errors == ErrorCode \cup {NoError}

PyTypes ==
  /\ stream \in Seq(Cells) /\ key \in Seq(Nat) /\ options \in Caps
  /\ pos \in 0..Len(stream) /\ faults \in Nat
  /\ phase \in {"new", "rejected", "open", "reading", "read all"}
  /\ want \in Nat /\ output \in Seq(Cells)
  /\ header \in Header /\ region \in Seq(Cells)
  /\ leaves \in Seq(Leaflets)
  /\ chunkIndex \in Nat /\ plainTotal \in Nat /\ pending \in Seq(Cells)
  /\ finalized \in BOOLEAN /\ terminal \in Errors
  /\ delivered \in Seq(Cells)

Fresh ==
  /\ delivered = <<>> /\ output = <<>> /\ pending = <<>> /\ leaves = <<>>
  /\ chunkIndex = 0 /\ plainTotal = 0 /\ finalized = FALSE /\ terminal = NoError

PyPhases ==
  /\ phase = "new" => Fresh /\ reply = NoError
  /\ phase = "rejected" => Fresh /\ reply \in ErrorCode \cup {OSError}
  /\ phase \in {"open", "reading", "read all"} => OpenError = NoError
  /\ phase # "read all" => output = <<>>
  /\ InRead => want \in Nat \ {0}
  /\ terminal # NoError => phase = "open" /\ ~finalized
  /\ finalized => pending = <<>>
  /\ reply = Empty => phase # "rejected" /\ finalized /\ output = <<>>

LEMMA SourceFacts ==
  PyTypes =>
    /\ stream \in Seq(Cells)
    /\ Len(stream) \in Nat /\ pos \in 0..Len(stream) /\ Available \in Nat
    /\ \A i \in 1..Len(stream) : stream[i] \in Cells
    /\ options.maxMetaBytes \in Nat /\ options.maxChunkLen \in Nat
    /\ options.maxChunkCount \in Nat /\ options.maxTotalSize \in Nat
  <1>. HAVE PyTypes
  <1>1. stream \in Seq(Cells) /\ pos \in 0..Len(stream) /\ options \in Caps
    BY DEF PyTypes
  <1>. HIDE DEF PyTypes
  <1>2. Len(stream) \in Nat /\ \A i \in 1..Len(stream) : stream[i] \in Cells
    BY <1>1, LenProperties, ElementOfSeq
  <1>3. Available \in Nat
    BY <1>1, <1>2 DEF Available
  <1>4. /\ options.maxMetaBytes \in Nat /\ options.maxChunkLen \in Nat
        /\ options.maxChunkCount \in Nat /\ options.maxTotalSize \in Nat
    BY <1>1 DEF Caps
  <1>. QED
    BY <1>1, <1>2, <1>3, <1>4

(* What the constructor takes of a stream it accepts.                      *)
LEMMA AcceptedPrefixFacts ==
  PyTypes /\ OpenError = NoError =>
    /\ stream[1].h \in Header /\ Len(stream) >= 1 /\ stream[1] \in Cells
    /\ MetaEnd(stream) \in 1..Len(stream) /\ RegionOf(stream) \in Seq(Cells)
    /\ stream[1].h.chunkCount \in Nat /\ stream[1].h.totalSize \in Nat
  <1>. HAVE PyTypes /\ OpenError = NoError
  <1>1. PrefixError = NoError
    BY DEF OpenError, MissingKey, Truncated, NoError
  <1>2. stream # <<>> /\ stream[1].t = "header" /\ (stream[1].h.hasMetadata => MetadataError = NoError)
    BY <1>1 DEF PrefixError, ParseHeader, Truncated, BadMagic, NoError
  <1>3. Len(stream) \in Nat /\ Len(stream) >= 1
    BY <1>2, EmptySeq, SourceFacts
  <1>4. 1 \in 1..Len(stream)
    BY <1>3
  <1>5. stream[1] \in Cells
    BY <1>4, SourceFacts
  <1>6. stream[1].h \in Header
    BY <1>2, <1>5, CellFacts
  <1>7. stream[1].h.chunkCount \in Nat /\ stream[1].h.totalSize \in Nat
    BY <1>6, WidthAssumption DEF Header
  <1>8. ASSUME stream[1].h.hasMetadata
        PROVE  2 + U32(stream[2]) \in 1..Len(stream)
    <2>1. /\ ~(Len(stream) < 2)
          /\ ~(2 + U32(stream[2]) > Len(stream))
      BY <1>2, <1>8 DEF MetadataError, Truncated, MetaMalformed, NoError
    <2>2. 2 \in 1..Len(stream)
      BY <1>3, <2>1
    <2>3. U32(stream[2]) \in Nat
      BY <2>2, SourceFacts, CellFacts
    <2>. QED
      BY <1>3, <2>1, <2>3
  <1>9. MetaEnd(stream) \in 1..Len(stream)
    BY <1>3, <1>8 DEF MetaEnd
  <1>10. RegionOf(stream) \in Seq(Cells)
    <2>1. stream \in Seq(Cells) /\ MetaEnd(stream) \in Nat /\ MetaEnd(stream) <= Len(stream)
      BY <1>3, <1>9, SourceFacts
    <2>2. 2 \in Nat /\ 2 >= 1
      OBVIOUS
    <2>. QED
      BY <2>1, <2>2, PartOf DEF RegionOf
  <1>. QED
    BY <1>3, <1>5, <1>6, <1>7, <1>9, <1>10

(* The constructor and decodeBytes find the same wrong with the prefix,    *)
(* but for the name of one error.                                          *)
LEMMA OpeningsAgree ==
  PyTypes =>
    PreambleError(stream, key, options) =
      IF OpenError = Truncated /\ CutAfterHeader THEN MetaMalformed ELSE OpenError
  <1>. HAVE PyTypes
  <1>1. Len(stream) \in Nat /\ (stream # <<>> => Len(stream) >= 1) /\ stream \in Seq(Cells)
    BY EmptySeq, SourceFacts
  <1>2. Len(stream) \in Nat
    BY SourceFacts
  <1>3. Len(stream) >= 2 => U32(stream[2]) \in Nat
    <2>. HAVE Len(stream) >= 2
    <2>1. 2 \in 1..Len(stream)
      BY <1>1
    <2>. QED
      BY <2>1, SourceFacts, CellFacts
  <1>. DEFINE cap == options.maxMetaBytes
              n   == U32(stream[2])
  <1>4. /\ Len(stream) < 2 => ~parse_metadata(stream, cap).ok /\ MetadataError = Truncated
        /\ Len(stream) >= 2 =>
             MetadataError = IF parse_metadata(stream, cap).ok THEN NoError ELSE MetaMalformed
    <2>1. ~Malformed.ok
      BY DEF Malformed
    <2>2. cap \in Nat
      BY SourceFacts
    <2>3. CASE Len(stream) < 2
      BY <2>1, <2>3 DEF parse_metadata, MetadataError
    <2>4. CASE Len(stream) >= 2
      <3>1. /\ ~(Len(stream) < 2) /\ n \in Nat
            /\ n > Len(stream) - 2 <=> 2 + n > Len(stream)
        BY <1>1, <1>3, <2>4
      <3>. QED
        BY <2>1, <3>1 DEF parse_metadata, MetadataError, Truncated, MetaMalformed, NoError
    <2>. QED
      BY <1>1, <2>3, <2>4
  <1>5. ParseHeader(stream[1]) # Truncated
    BY DEF ParseHeader, validate, Truncated, BadMagic, UnsupportedVer, UnsupportedAlgo, ReservedBits, NoError
  <1>6. stream # <<>> /\ ParseHeader(stream[1]) = NoError => stream[1].t = "header"
    BY DEF ParseHeader, BadMagic, NoError
  <1>. HIDE DEF cap
  <1>7. CASE stream = <<>>
    <2>1. Len(stream) = 0
      BY <1>7
    <2>2. Len(stream) # 1
      BY <2>1
    <2>3. ~CutAfterHeader
      BY <2>2, Zenon DEF CutAfterHeader
    <2>. QED
      BY <1>7, <2>3 DEF PreambleError, inspectError, OpenError, PrefixError, Truncated, NoError
  <1>8. CASE stream # <<>> /\ ParseHeader(stream[1]) # NoError
    BY <1>5, <1>8 DEF PreambleError, inspectError, OpenError, PrefixError
  <1>9. CASE stream # <<>> /\ ParseHeader(stream[1]) = NoError /\ ~stream[1].h.hasMetadata
    BY <1>9 DEF PreambleError, inspectError, OpenError, PrefixError, CutAfterHeader
  <1>10. CASE stream # <<>> /\ ParseHeader(stream[1]) = NoError /\ stream[1].h.hasMetadata
    <2>1. CASE Len(stream) < 2
      <3>1. Len(stream) = 1
        <4>1. Len(stream) # 0
          BY <1>1, <1>2, <1>10
        <4>. QED
          BY <1>2, <2>1, <4>1
      <3>2. CutAfterHeader
        BY <1>6, <1>10, <3>1 DEF CutAfterHeader
      <3>3. OpenError = Truncated
        BY <1>4, <1>10, <2>1 DEF OpenError, PrefixError, Truncated, NoError
      <3>4. PreambleError(stream, key, options) = MetaMalformed
        BY <1>4, <1>10, <2>1 DEF PreambleError, inspectError, MetaMalformed, NoError, cap
      <3>. QED
        BY <3>2, <3>3, <3>4
    <2>2. CASE Len(stream) >= 2
      <3>1. \A l \in Nat : l >= 2 => l # 1
        OBVIOUS
      <3>2. ~CutAfterHeader
        BY <1>2, <2>2, <3>1, Zenon DEF CutAfterHeader
      <3>3. inspectError(stream, options.maxMetaBytes) = PrefixError
        BY <1>4, <1>10, <2>2 DEF inspectError, PrefixError, cap
      <3>. QED
        BY <3>2, <3>3 DEF PreambleError, OpenError
    <2>. QED
      BY <1>1, <2>1, <2>2
  <1>. QED
    BY <1>7, <1>8, <1>9, <1>10

LEMMA OpeningsNamed ==
  PyTypes => PreambleError(stream, key, options) = OneShotName(OpenError)
  <1>. HAVE PyTypes
  <1>1. Len(stream) \in Nat
    BY SourceFacts
  <1>2. ASSUME CutAfterHeader, OpenError = MetaMalformed
        PROVE  FALSE
    <2>1. Len(stream) = 1 /\ stream[1].t = "header" /\ stream[1].h.hasMetadata
      BY <1>2 DEF CutAfterHeader
    <2>2. MetadataError = Truncated
      BY <2>1 DEF MetadataError
    <2>3. ParseHeader(stream[1]) # MetaMalformed
      BY DEF ParseHeader, validate, MetaMalformed, BadMagic, UnsupportedVer, UnsupportedAlgo,
             ReservedBits, NoError
    <2>4. PrefixError # MetaMalformed
      BY <2>2, <2>3 DEF PrefixError, Truncated, MetaMalformed, NoError
    <2>5. OpenError # MetaMalformed
      BY <2>4 DEF OpenError, Truncated, MetaMalformed, MissingKey, NoError
    <2>. QED
      BY <1>2, <2>5
  <1>3. MetaMalformed # Truncated
    BY DEF MetaMalformed, Truncated
  <1>4. PreambleError(stream, key, options) =
          IF OpenError = Truncated /\ CutAfterHeader THEN MetaMalformed ELSE OpenError
    BY OpeningsAgree
  <1>. QED
    BY <1>2, <1>3, <1>4, Zenon DEF OneShotName
-----------------------------------------------------------------------------
(* What one turn takes from the source.                                    *)

LEMMA LengthFacts ==
  PyTypes /\ Available >= 1 => pos + 1 \in 1..Len(stream) /\ clen \in Nat
  <1>. HAVE PyTypes /\ Available >= 1
  <1>1. pos + 1 \in 1..Len(stream)
    BY SourceFacts DEF Available
  <1>. QED
    BY <1>1, SourceFacts, CellFacts DEF clen

LEMMA AskedFacts ==
  PyTypes => Asked \in Nat /\ Lesser(pos + Asked, Len(stream)) \in 0..Len(stream)
  <1>. HAVE PyTypes
  <1>1. LengthReadable => clen \in Nat
    BY LengthFacts DEF LengthReadable
  <1>2. Asked \in Nat
    BY <1>1 DEF Asked
  <1>. HIDE DEF Asked
  <1>. QED
    BY <1>2, SourceFacts DEF Lesser

LEMMA TakenFacts ==
  PyTypes /\ LoadError # Truncated =>
    /\ LengthReadable /\ clen \in Nat /\ clen <= Available - 1
    /\ Body \in Seq(Cells) /\ Len(Body) = clen
  <1>. HAVE PyTypes /\ LoadError # Truncated
  <1>1. LengthReadable /\ ~(Available - 1 < clen)
    BY DEF LoadError
  <1>2. clen \in Nat /\ clen <= Available - 1
    BY <1>1, LengthFacts, SourceFacts DEF LengthReadable
  <1>. DEFINE first == pos + 2
              last  == pos + 1 + clen
  <1>3. /\ first \in Nat /\ last \in Nat /\ first >= 1 /\ last <= Len(stream)
        /\ (IF first <= last THEN last - first + 1 ELSE 0) = clen
    <2>1. Len(stream) \in Nat /\ pos \in Nat /\ clen <= (Len(stream) - pos) - 1 /\ clen \in Nat
      BY <1>2, SourceFacts DEF Available
    <2>. QED
      BY <2>1
  <1>4. Body = SubSeq(stream, first, last)
    BY DEF Body
  <1>. HIDE DEF first, last
  <1>5. Body \in Seq(Cells) /\ Len(Body) = clen
    BY <1>3, <1>4, PartOf, SourceFacts
  <1>. QED
    BY <1>1, <1>2, <1>5

LEMMA LoadedFacts ==
  PyTypes /\ LoadError = NoError =>
    /\ Authentic /\ Plain \in Seq(Cells) /\ Len(Plain) \in Nat
    /\ Len(Plain) = IF header.encrypted THEN clen - TagLen ELSE clen
    /\ Len(Plain) <= header.totalSize - plainTotal
    /\ ~AtFooter => Asked = 1 + clen /\ pos + Asked \in 0..Len(stream)
  <1>. HAVE PyTypes /\ LoadError = NoError
  <1>1. LoadError # Truncated
    BY DEF NoError, Truncated
  <1>2. /\ LengthReadable /\ clen \in Nat /\ clen <= Available - 1
        /\ Body \in Seq(Cells) /\ Len(Body) = clen
    BY <1>1, TakenFacts
  <1>3. Authentic /\ ~(Len(Plain) > header.totalSize - plainTotal)
    BY <1>1 DEF LoadError, ChunkAuth, RootMismatch, NoError
  <1>4. Plain \in Seq(Cells) /\ Len(Plain) = IF header.encrypted THEN clen - TagLen ELSE clen
    <2>1. CASE header.encrypted
      <3>1. Len(Body) >= TagLen
        BY <1>3, <2>1 DEF Authentic, Opens
      <3>. QED
        BY <1>2, <2>1, <3>1, OpenedChunk DEF Plain
    <2>2. CASE ~header.encrypted
      BY <1>2, <2>2 DEF Plain
    <2>. QED
      BY <2>1, <2>2
  <1>5. Len(Plain) \in Nat
    BY <1>4, LenProperties
  <1>6. plainTotal \in Nat /\ header.totalSize \in Nat
    <2>1. plainTotal \in Nat /\ header \in Header
      BY DEF PyTypes
    <2>. QED
      BY <2>1, WidthAssumption DEF Header
  <1>7. ASSUME ~AtFooter
        PROVE  Asked = 1 + clen /\ pos + Asked \in 0..Len(stream)
    <2>1. Asked = 1 + clen
      BY <1>2, <1>7 DEF Asked
    <2>. QED
      BY <1>2, <2>1, SourceFacts DEF Available
  <1>8. Len(Plain) <= header.totalSize - plainTotal
    BY <1>3, <1>5, <1>6
  <1>. QED
    BY <1>3, <1>4, <1>5, <1>7, <1>8

LEMMA PieceFacts ==
  PyTypes /\ InRead /\ want \in Nat \ {0} =>
    /\ Piece \in Seq(Cells) /\ SubSeq(pending, Len(Piece) + 1, Len(pending)) \in Seq(Cells)
    /\ Piece \o SubSeq(pending, Len(Piece) + 1, Len(pending)) = pending
    /\ pending # <<>> => Piece # <<>>
    /\ pending = <<>> => Piece = <<>> /\ SubSeq(pending, Len(Piece) + 1, Len(pending)) = <<>>
  <1>. HAVE PyTypes /\ InRead /\ want \in Nat \ {0}
  <1>. DEFINE n == Lesser(want, Len(pending))
              rest == SubSeq(pending, n + 1, Len(pending))
  <1>1. pending \in Seq(Cells) /\ Len(pending) \in Nat /\ (pending # <<>> => Len(pending) # 0)
    <2>1. pending \in Seq(Cells)
      BY DEF PyTypes
    <2>. QED
      BY <2>1, LenProperties, EmptySeq
  <1>2. n \in 0..Len(pending) /\ (pending # <<>> => n # 0)
    BY <1>1 DEF Lesser
  <1>. HIDE DEF n
  <1>3. Piece = SubSeq(pending, 1, n)
    BY DEF Piece, n
  <1>4. /\ Piece \in Seq(Cells) /\ rest \in Seq(Cells)
        /\ Len(Piece) + Len(rest) = Len(pending)
    BY <1>1, <1>2, <1>3, PendingSplits
  <1>5. /\ Len(Piece) = n /\ Len(rest) = Len(pending) - n
        /\ \A i \in 1..n : Piece[i] = pending[i]
        /\ \A i \in 1..Len(pending) - n : rest[i] = pending[n + i]
    <2>1. /\ 1 \in Nat /\ n \in Nat /\ n + 1 \in Nat /\ n + 1 >= 1 /\ n <= Len(pending)
          /\ Len(pending) \in Nat /\ 1 >= 1 /\ Len(pending) <= Len(pending)
      BY <1>1, <1>2
    <2>2. /\ Len(Piece) = IF 1 <= n THEN n - 1 + 1 ELSE 0
          /\ \A i \in 1..n - 1 + 1 : Piece[i] = pending[1 + i - 1]
      BY <1>1, <1>3, <2>1, PartOf
    <2>3. /\ Len(rest) = IF n + 1 <= Len(pending) THEN Len(pending) - (n + 1) + 1 ELSE 0
          /\ \A i \in 1..Len(pending) - (n + 1) + 1 : rest[i] = pending[n + 1 + i - 1]
      BY <1>1, <2>1, PartOf
    <2>. HIDE DEF rest
    <2>4. Len(Piece) = n /\ Len(rest) = Len(pending) - n
      BY <2>1, <2>2, <2>3
    <2>5. \A i \in 1..n : Piece[i] = pending[i]
      BY <2>1, <2>2
    <2>6. \A i \in 1..Len(pending) - n : rest[i] = pending[n + i]
      BY <2>1, <2>3
    <2>. QED
      BY <2>4, <2>5, <2>6
  <1>6. rest = SubSeq(pending, Len(Piece) + 1, Len(pending))
    BY <1>5
  <1>. HIDE DEF rest
  <1>7. Piece \o rest = pending
    <2>1. Piece \o rest \in Seq(Cells) /\ Len(Piece \o rest) = Len(pending)
      BY <1>4, ConcatProperties
    <2>2. \A i \in 1..Len(pending) : (Piece \o rest)[i] = pending[i]
      <3>1. ASSUME NEW i \in 1..Len(pending)
            PROVE  (Piece \o rest)[i] = pending[i]
        <4>1. (Piece \o rest)[i] = IF i <= Len(Piece) THEN Piece[i] ELSE rest[i - Len(Piece)]
          BY <1>4, <2>1, ConcatProperties
        <4>2. CASE i <= n
          BY <1>1, <1>2, <1>5, <4>1, <4>2
        <4>3. CASE i > n
          <5>1. i - n \in 1..Len(pending) - n /\ n + (i - n) = i
            BY <1>1, <1>2, <4>3
          <5>2. rest[i - n] = pending[i]
            BY <1>5, <5>1
          <5>3. ~(i <= Len(Piece)) /\ i - Len(Piece) = i - n
            BY <1>2, <1>5, <4>3
          <5>. QED
            BY <4>1, <5>2, <5>3
        <4>4. i <= n \/ i > n
          BY <1>1, <1>2
        <4>. QED
          BY <4>2, <4>3, <4>4
      <3>. QED
        BY <3>1
    <2>. QED
      BY <1>1, <2>1, <2>2, SeqsAreEqual
  <1>8. pending # <<>> => Piece # <<>>
    <2>. HAVE pending # <<>>
    <2>1. Len(Piece) # 0
      BY <1>2, <1>5
    <2>. QED
      BY <2>1
  <1>9. pending = <<>> => Piece = <<>> /\ rest = <<>>
    <2>. HAVE pending = <<>>
    <2>1. Len(pending) = 0
      OBVIOUS
    <2>2. n = 0 /\ Len(Piece) = 0 /\ Len(rest) = 0
      BY <1>2, <1>5, <2>1
    <2>. QED
      BY <1>4, <2>2, EmptySeq
  <1>. QED
    BY <1>4, <1>6, <1>7, <1>8, <1>9
-----------------------------------------------------------------------------
(* Types and phases are inductive.                                         *)

LEMMA PyInit == Init => PyTypes /\ PyPhases
  <1>. HAVE Init
  <1>1. stream \in Seq(Cells) /\ key \in Seq(Nat) /\ options \in Caps
    BY PyAssumption DEF Init
  <1>2. header \in Header
    <2>1. header = PlainHeader(1, 0, FALSE)
      BY DEF Init
    <2>2. 1 \in 1..MaxU32 /\ 0 \in 0..MaxU64
      BY WidthAssumption
    <2>3. HeaderCell(header) \in HeaderCells
      BY <2>1, <2>2, HeadersAreCells DEF ZeroNonce
    <2>. QED
      BY <2>3 DEF HeaderCell, HeaderCells
  <1>3. pos \in 0..Len(stream)
    <2>1. Len(stream) \in Nat /\ pos = 0
      BY <1>1, LenProperties DEF Init
    <2>. QED
      BY <2>1
  <1>4. <<>> \in Seq(Cells) /\ <<>> \in Seq(Leaflets)
    OBVIOUS
  <1>5. PyTypes
    BY <1>1, <1>2, <1>3, <1>4 DEF Init, PyTypes, Errors
  <1>6. PyPhases
    BY DEF Init, PyPhases, Fresh, InRead, Empty, NoError
  <1>. QED
    BY <1>5, <1>6

LEMMA OpenErrors == OpenError \in Errors
  <1>1. ParseHeader(stream[1]) \in Errors
    BY DEF ParseHeader, validate, Errors, ErrorCode
  <1>2. MetadataError \in Errors
    BY DEF MetadataError, Errors, ErrorCode
  <1>3. PrefixError \in Errors
    BY <1>1, <1>2 DEF PrefixError, Errors, ErrorCode
  <1>. QED
    BY <1>3 DEF OpenError, Errors, ErrorCode

LEMMA TurnErrors == LoadError \in Errors /\ FooterError \in Errors
  BY DEF LoadError, FooterError, Errors, ErrorCode

(* What Python keeps, and that it changes the source never.                *)
LEMMA StandsFixed ==
  [Next]_vars => UNCHANGED sourceVars /\ OpenError' = OpenError
  <1>. HAVE [Next]_vars
  <1>1. UNCHANGED sourceVars
    BY DEF Next, Construct, Starts, Proceeds, InitRaises, InitInterrupted, InitOpens, Rejects,
           ReadAgain, ReadStarts, ReadAllStarts, SourceRaises, ReadReturns, ReadAllCollects,
           ReadAllReturns, LoadRaises, ChunkLoaded, FinalizeRaises, Finalizes, RaisesUbcError,
           Raises, Returns, vars
  <1>. QED
    BY <1>1 DEF sourceVars, OpenError, PrefixError, MetadataError

LEMMA PyTypesStep == PyTypes /\ PyPhases /\ [Next]_vars => PyTypes'
  <1>. HAVE PyTypes /\ PyPhases /\ [Next]_vars
  <1>. USE DEF sourceVars, openVars, loadVars, callVars, outVars
  <1>0. UNCHANGED sourceVars /\ <<>> \in Seq(Cells)
    BY StandsFixed
  <1>1. CASE InitRaises \/ InitInterrupted
    <2>1. faults \in Nat
      BY DEF PyTypes
    <2>2. faults' \in Nat
      BY <1>1, <2>1 DEF InitRaises, InitInterrupted
    <2>. QED
      BY <1>1, <2>2 DEF InitRaises, InitInterrupted, Rejects, PyTypes
  <1>2. CASE InitOpens
    <2>1. header' \in Header /\ region' \in Seq(Cells) /\ pos' \in 0..Len(stream)
      BY <1>2, AcceptedPrefixFacts DEF InitOpens
    <2>. QED
      BY <1>2, <2>1 DEF InitOpens, PyTypes
  <1>3. CASE ReadAgain
    BY <1>3 DEF ReadAgain, PyTypes
  <1>4. CASE ReadStarts
    <2>1. want' \in Nat
      BY <1>4, PyAssumption DEF ReadStarts
    <2>. QED
      BY <1>4, <2>1 DEF ReadStarts, PyTypes
  <1>5. CASE ReadAllStarts
    <2>1. want' \in Nat
      BY <1>5, PyAssumption DEF ReadAllStarts
    <2>. QED
      BY <1>0, <1>5, <2>1 DEF ReadAllStarts, PyTypes
  <1>6. CASE SourceRaises
    <2>1. pos' \in 0..Len(stream)
      <3>1. pos' \in FaultAt(Asked) /\ Asked \in Nat /\ pos \in Nat /\ Len(stream) \in Nat
        BY <1>6, AskedFacts, SourceFacts DEF SourceRaises
      <3>. HIDE DEF Asked
      <3>. QED
        BY <3>1 DEF FaultAt
    <2>2. faults' \in Nat
      <3>1. faults \in Nat
        BY DEF PyTypes
      <3>. QED
        BY <1>6, <3>1 DEF SourceRaises
    <2>. QED
      BY <1>0, <1>6, <2>1, <2>2 DEF SourceRaises, Raises, PyTypes
  <1>7. CASE ReadReturns
    <2>1. /\ Piece \in Seq(Cells)
          /\ SubSeq(pending, Len(Piece) + 1, Len(pending)) \in Seq(Cells)
      BY <1>7, PieceFacts DEF ReadReturns, PyPhases, InRead
    <2>2. delivered \o Piece \in Seq(Cells)
      <3>1. delivered \in Seq(Cells)
        BY DEF PyTypes
      <3>. QED
        BY <2>1, <3>1, ConcatProperties
    <2>. QED
      BY <1>0, <1>7, <2>1, <2>2 DEF ReadReturns, Returns, PyTypes
  <1>8. CASE ReadAllCollects
    <2>1. /\ Piece \in Seq(Cells)
          /\ SubSeq(pending, Len(Piece) + 1, Len(pending)) \in Seq(Cells)
      BY <1>8, PieceFacts DEF ReadAllCollects, PyPhases, InRead
    <2>2. output \o Piece \in Seq(Cells)
      <3>1. output \in Seq(Cells)
        BY DEF PyTypes
      <3>. QED
        BY <2>1, <3>1, ConcatProperties
    <2>. QED
      BY <1>0, <1>8, <2>1, <2>2 DEF ReadAllCollects, PyTypes
  <1>9. CASE ReadAllReturns
    <2>1. delivered \o output \in Seq(Cells)
      <3>1. delivered \in Seq(Cells) /\ output \in Seq(Cells)
        BY DEF PyTypes
      <3>. QED
        BY <3>1, ConcatProperties
    <2>. QED
      BY <1>0, <1>9, <2>1 DEF ReadAllReturns, Returns, PyTypes
  <1>10. CASE LoadRaises
    <2>1. leaves' \in Seq(Leaflets)
      <3>1. leaves \in Seq(Leaflets)
        BY DEF PyTypes
      <3>2. LoadError # Truncated => Leaf(Body) \in Leaflets
        BY TakenFacts DEF Leaflets, Leaf
      <3>3. LoadError # Truncated => Append(leaves, Leaf(Body)) \in Seq(Leaflets)
        BY <3>1, <3>2, AppendProperties
      <3>. QED
        BY <1>10, <3>1, <3>3, Zenon DEF LoadRaises
    <2>2. pos' \in 0..Len(stream) /\ terminal' \in Errors
      BY <1>10, AskedFacts, TurnErrors DEF LoadRaises, RaisesUbcError, Kept
    <2>. QED
      BY <1>0, <1>10, <2>1, <2>2 DEF LoadRaises, RaisesUbcError, Raises, PyTypes
  <1>11. CASE ChunkLoaded
    <2>1. LoadError # Truncated /\ LoadError = NoError /\ Loading
      BY <1>11 DEF ChunkLoaded, NoError, Truncated
    <2>2. ~AtFooter
      BY <2>1 DEF Loading, AtFooter
    <2>3. leaves' \in Seq(Leaflets)
      <3>1. leaves \in Seq(Leaflets)
        BY DEF PyTypes
      <3>2. Leaf(Body) \in Leaflets
        BY <2>1, TakenFacts DEF Leaflets, Leaf
      <3>. QED
        BY <1>11, <3>1, <3>2, AppendProperties DEF ChunkLoaded
    <2>4. pos' \in 0..Len(stream) /\ pending' \in Seq(Cells)
      BY <1>11, <2>1, <2>2, LoadedFacts DEF ChunkLoaded
    <2>5. plainTotal' \in Nat /\ chunkIndex' \in Nat
      <3>1. plainTotal \in Nat /\ chunkIndex \in Nat /\ Len(Plain) \in Nat
        BY <2>1, LoadedFacts DEF PyTypes
      <3>. QED
        BY <1>11, <3>1 DEF ChunkLoaded
    <2>. QED
      BY <1>11, <2>3, <2>4, <2>5 DEF ChunkLoaded, PyTypes
  <1>12. CASE FinalizeRaises
    <2>1. TrailingData \in Errors
      BY DEF Errors, ErrorCode
    <2>2. pos' \in 0..Len(stream) /\ terminal' \in Errors
      BY <1>12, <2>1, AskedFacts, TurnErrors DEF FinalizeRaises, RaisesUbcError, Kept
    <2>. QED
      BY <1>0, <1>12, <2>2 DEF FinalizeRaises, RaisesUbcError, Raises, PyTypes
  <1>13. CASE Finalizes
    <2>1. pos' \in 0..Len(stream)
      BY <1>13, SourceFacts DEF Finalizes, Available
    <2>. QED
      BY <1>13, <2>1 DEF Finalizes, PyTypes
  <1>14. CASE UNCHANGED vars
    BY <1>14 DEF vars, PyTypes
  <1>. QED
    BY <1>1, <1>2, <1>3, <1>4, <1>5, <1>6, <1>7, <1>8, <1>9, <1>10, <1>11, <1>12, <1>13, <1>14
    DEF Next, Construct, Starts, Proceeds

LEMMA PyPhasesStep == PyTypes /\ PyPhases /\ [Next]_vars => PyPhases'
  <1>. HAVE PyTypes /\ PyPhases /\ [Next]_vars
  <1>. USE DEF sourceVars, openVars, loadVars, callVars, outVars
  <1>0. UNCHANGED sourceVars /\ OpenError' = OpenError
    BY StandsFixed
  <1>1. CASE InitRaises \/ InitInterrupted
    <2>1. phase = "new" /\ phase' = "rejected" /\ Fresh
      BY <1>1 DEF InitRaises, InitInterrupted, Rejects, PyPhases
    <2>2. reply' \in ErrorCode \cup {OSError}
      BY <1>1, OpenErrors DEF InitRaises, InitInterrupted, Rejects, Errors
    <2>3. reply' # Empty
      BY <2>2 DEF ErrorCode, OSError, Empty, BadMagic, UnsupportedVer, UnsupportedAlgo, ReservedBits,
         Truncated, MetaMalformed, RootMismatch, ChunkAuth, MissingKey, TrailingData
    <2>4. Fresh'
      BY <1>1, <2>1 DEF InitRaises, InitInterrupted, Rejects, Fresh
    <2>. QED
      BY <2>1, <2>2, <2>3, <2>4 DEF PyPhases, Fresh, InRead
  <1>2. CASE InitOpens
    <2>1. phase = "new" /\ phase' = "open" /\ Fresh /\ reply = NoError /\ OpenError = NoError
      BY <1>2 DEF InitOpens, PyPhases
    <2>2. UNCHANGED <<reply, output, terminal, finalized, pending>>
      BY <1>2 DEF InitOpens
    <2>. QED
      BY <1>0, <2>1, <2>2 DEF PyPhases, Fresh, InRead, NoError, Empty
  <1>3. CASE ReadAgain
    <2>1. terminal \in ErrorCode /\ reply' = terminal /\ phase = "open" /\ terminal # NoError
      BY <1>3 DEF ReadAgain, PyTypes, Errors
    <2>2. reply' # Empty
      BY <2>1 DEF ErrorCode, Empty, BadMagic, UnsupportedVer, UnsupportedAlgo, ReservedBits,
         Truncated, MetaMalformed, RootMismatch, ChunkAuth, MissingKey, TrailingData
    <2>. QED
      BY <1>0, <1>3, <2>1, <2>2 DEF ReadAgain, PyPhases, InRead
  <1>4. CASE ReadStarts
    <2>1. want' \in Nat \ {0} /\ phase = "open" /\ phase' = "reading" /\ terminal = NoError
      BY <1>4, PyAssumption DEF ReadStarts
    <2>. QED
      BY <1>0, <1>4, <2>1 DEF ReadStarts, PyPhases, InRead
  <1>5. CASE ReadAllStarts
    <2>1. want' \in Nat \ {0} /\ phase = "open" /\ phase' = "read all" /\ terminal = NoError
      BY <1>5, PyAssumption DEF ReadAllStarts
    <2>. QED
      BY <1>0, <1>5, <2>1 DEF ReadAllStarts, PyPhases, InRead
  <1>6. CASE SourceRaises
    <2>1. InRead /\ pending = <<>> /\ ~finalized /\ phase' = "open" /\ output' = <<>> /\ reply' = OSError
          /\ UNCHANGED <<pending, finalized, terminal>>
      BY <1>6 DEF SourceRaises, Raises, NeedsChunk
    <2>. QED
      BY <1>0, <2>1 DEF PyPhases, InRead, OSError, Empty
  <1>7. CASE ReadReturns
    <2>1. /\ phase = "reading" /\ phase' = "open" /\ output' = <<>>
          /\ pending' = SubSeq(pending, Len(Piece) + 1, Len(pending))
          /\ reply' = (IF Piece = <<>> THEN Empty ELSE NoError)
          /\ UNCHANGED <<finalized, terminal>> /\ (pending = <<>> => finalized)
      BY <1>7 DEF ReadReturns, Returns
    <2>2. want \in Nat \ {0} /\ InRead
      BY <2>1 DEF PyPhases, InRead
    <2>3. pending = <<>> => pending' = <<>> /\ Piece = <<>>
      BY <2>1, <2>2, PieceFacts
    <2>4. Piece = <<>> => pending = <<>>
      BY <2>2, PieceFacts
    <2>. QED
      BY <1>0, <2>1, <2>2, <2>3, <2>4 DEF PyPhases, InRead, Empty, NoError
  <1>8. CASE ReadAllCollects
    <2>1. /\ phase = "read all" /\ pending # <<>>
          /\ UNCHANGED <<phase, want, finalized, terminal, reply>>
      BY <1>8 DEF ReadAllCollects
    <2>. QED
      BY <1>0, <2>1 DEF PyPhases, InRead
  <1>9. CASE ReadAllReturns
    <2>1. /\ phase = "read all" /\ phase' = "open" /\ output' = <<>> /\ pending = <<>> /\ finalized
          /\ UNCHANGED <<finalized, terminal, pending>>
      BY <1>9 DEF ReadAllReturns, Returns
    <2>. QED
      BY <1>0, <2>1 DEF PyPhases, InRead
  <1>10. CASE LoadRaises \/ FinalizeRaises
    <2>1. /\ InRead /\ pending = <<>> /\ ~finalized /\ phase' = "open" /\ output' = <<>>
          /\ UNCHANGED <<pending, finalized>>
      BY <1>10 DEF LoadRaises, FinalizeRaises, RaisesUbcError, Raises, Loading, AtFooter, NeedsChunk
    <2>2. reply' \in Errors
      <3>1. TrailingData \in Errors
        BY DEF Errors, ErrorCode
      <3>. QED
        BY <1>10, <3>1, TurnErrors DEF LoadRaises, FinalizeRaises, RaisesUbcError, Raises
    <2>3. reply' # Empty
      BY <2>2 DEF Errors, ErrorCode, NoError, Empty, BadMagic, UnsupportedVer, UnsupportedAlgo,
         ReservedBits, Truncated, MetaMalformed, RootMismatch, ChunkAuth, MissingKey, TrailingData
    <2>. QED
      BY <1>0, <2>1, <2>3 DEF PyPhases, InRead
  <1>11. CASE ChunkLoaded
    <2>1. InRead /\ ~finalized /\ UNCHANGED <<phase, want, output, finalized, terminal, reply>>
      BY <1>11 DEF ChunkLoaded, Loading, NeedsChunk
    <2>. QED
      BY <1>0, <2>1 DEF PyPhases, InRead
  <1>12. CASE Finalizes
    <2>1. /\ InRead /\ pending = <<>> /\ ~finalized
          /\ UNCHANGED <<phase, want, output, pending, terminal, reply>>
      BY <1>12 DEF Finalizes, AtFooter, NeedsChunk
    <2>. QED
      BY <1>0, <2>1 DEF PyPhases, InRead
  <1>13. CASE UNCHANGED vars
    BY <1>13, <1>0 DEF vars, PyPhases, Fresh, InRead
  <1>. QED
    BY <1>1, <1>2, <1>3, <1>4, <1>5, <1>6, <1>7, <1>8, <1>9, <1>10, <1>11, <1>12, <1>13
    DEF Next, Construct, Starts, Proceeds
-----------------------------------------------------------------------------
(* The refinement: until its source raises, the Decoder stands where the   *)
(* loop of decodeBytes does after as many chunks.                          *)

PyTurned == AfterTurns(stream, key, options, chunkIndex)

PyFollows ==
  /\ header = stream[1].h /\ region = RegionOf(stream)
  /\ chunkIndex <= stream[1].h.chunkCount
  /\ PyTurned.err = NoError
  /\ PyTurned.plain = Accepted
  /\ plainTotal = Len(Accepted)
  /\ leaves = PyTurned.leaves
  /\ ~finalized => PyTurned.offset = pos
  /\ finalized => Reference.err = NoError /\ Reference.plain = Accepted

PyFollowInv ==
  faults = 0 /\ terminal = NoError /\ phase \in {"open", "reading", "read all"} => PyFollows

LEMMA PyLoopFacts ==
  ASSUME PyTypes, OpenError = NoError
  PROVE  /\ PreambleError(stream, key, options) = NoError
         /\ stream \in Seq(Cells) /\ MetaEnd(stream) \in 0..Len(stream)
         /\ chunkIndex \in Nat /\ stream[1].h.chunkCount \in Nat
         /\ TurnShape(stream, PyTurned)
         /\ AfterTurns(stream, key, options, chunkIndex + 1)
              = Turn(stream, key, options, PyTurned, chunkIndex)
  <1>1. PreambleError(stream, key, options) = NoError
    BY OpeningsAgree DEF Truncated, NoError
  <1>2. stream \in Seq(Cells) /\ chunkIndex \in Nat /\ stream[1].h.chunkCount \in Nat
    BY AcceptedPrefixFacts DEF PyTypes
  <1>3. MetaEnd(stream) \in 0..Len(stream)
    BY AcceptedPrefixFacts, SourceFacts
  <1>4. TurnShape(stream, PyTurned)
    BY <1>2, <1>3, TurnsShaped DEF PyTurned
  <1>5. AfterTurns(stream, key, options, chunkIndex + 1)
          = Turn(stream, key, options, PyTurned, chunkIndex)
    BY <1>2, AfterTurnsValues DEF PyTurned
  <1>. QED
    BY <1>1, <1>2, <1>3, <1>4, <1>5

(* They find the same wrong with a chunk.                                  *)
LEMMA LoadErrorsAgree ==
  ASSUME PyTypes, PyFollows, OpenError = NoError, Loading
  PROVE  ChunkError(stream, key, options, chunkIndex, PyTurned.offset, Len(PyTurned.plain))
           = LoadError
  <1>. DEFINE l == Len(stream)
              c == U32(stream[pos + 1])
              cap == options.maxChunkLen
              body == SubSeq(stream, pos + 2, pos + 1 + c)
              h == stream[1].h
              tag == IF h.encrypted THEN TagLen ELSE 0
  <1>1. /\ PyTurned.offset = pos /\ header = h /\ region = RegionOf(stream)
        /\ Len(PyTurned.plain) = plainTotal
    BY DEF PyFollows, Loading, NeedsChunk
  <1>2. /\ l \in Nat /\ pos \in Nat /\ cap \in Nat /\ plainTotal \in Nat /\ h.totalSize \in Nat
        /\ l - pos >= 1 => c \in Nat
    <2>1. l \in Nat /\ pos \in Nat /\ cap \in Nat /\ h.totalSize \in Nat
      BY SourceFacts, AcceptedPrefixFacts
    <2>2. plainTotal \in Nat
      BY DEF PyTypes
    <2>3. l - pos >= 1 => c \in Nat
      BY LengthFacts DEF Available, clen
    <2>. QED
      BY <2>1, <2>2, <2>3
  <1>3. /\ LengthReadable <=> l - pos >= 1 /\ c <= cap
        /\ Available = l - pos /\ clen = c /\ Body = body
    BY DEF LengthReadable, Available, clen, Body
  <1>4. Authentic <=> (h.encrypted => Opens(key, h.baseNonce, stream[1], RegionOf(stream), chunkIndex, body))
    BY <1>1, <1>3 DEF Authentic
  <1>5. ChunkError(stream, key, options, chunkIndex, pos, plainTotal) =
          IF l - pos < 1 THEN Truncated
          ELSE IF c > cap \/ c > l - pos - 1 THEN Truncated
          ELSE IF ~Authentic THEN ChunkAuth
          ELSE IF plainTotal + Len(body) - tag > h.totalSize THEN RootMismatch
          ELSE NoError
    <2>. HIDE DEF Authentic
    <2>. QED
      BY <1>4 DEF ChunkError
  <1>6. ASSUME l - pos >= 1, c <= cap, c <= l - pos - 1, Authentic
        PROVE  plainTotal + Len(body) - tag > h.totalSize <=> Len(Plain) > header.totalSize - plainTotal
    <2>1. Body \in Seq(Cells) /\ Len(Body) = c
      <3>1. LengthReadable /\ ~(Available - 1 < clen)
        BY <1>2, <1>3, <1>6
      <3>2. LoadError # Truncated
        BY <1>6, <3>1 DEF LoadError, Truncated, ChunkAuth, RootMismatch, NoError
      <3>. QED
        BY <1>3, <3>2, TakenFacts
    <2>2. c \in Nat /\ tag \in Nat
      BY <1>2, <1>6 DEF TagLen
    <2>3. Len(Plain) = c - tag
      <3>1. CASE h.encrypted
        <4>1. Len(Body) >= TagLen
          BY <1>1, <1>6, <3>1 DEF Authentic, Opens
        <4>. QED
          BY <1>1, <2>1, <3>1, <4>1, OpenedChunk DEF Plain
      <3>2. CASE ~h.encrypted
        BY <1>1, <2>1, <2>2, <3>2 DEF Plain
      <3>. QED
        BY <3>1, <3>2
    <2>4. Len(body) = c /\ header.totalSize = h.totalSize
      BY <1>1, <1>3, <2>1
    <2>. HIDE DEF tag, c, body, h
    <2>. QED
      BY <1>2, <2>2, <2>3, <2>4
  <1>7. LoadError = IF ~LengthReadable \/ Available - 1 < clen THEN Truncated
                    ELSE IF ~Authentic THEN ChunkAuth
                    ELSE IF Len(Plain) > header.totalSize - plainTotal THEN RootMismatch
                    ELSE NoError
    BY DEF LoadError
  <1>. HIDE DEF l, c, cap, body, h, tag
  <1>8. ChunkError(stream, key, options, chunkIndex, pos, plainTotal) = LoadError
    <2>1. CASE l - pos < 1
      BY <1>2, <1>3, <1>5, <1>7, <2>1
    <2>2. CASE ~(l - pos < 1) /\ (c > cap \/ c > l - pos - 1)
      BY <1>2, <1>3, <1>5, <1>7, <2>2
    <2>3. CASE ~(l - pos < 1) /\ ~(c > cap \/ c > l - pos - 1)
      <3>1. /\ l - pos >= 1 /\ c <= cap /\ c <= l - pos - 1
            /\ ~(~LengthReadable \/ Available - 1 < clen)
        BY <1>2, <1>3, <2>3
      <3>2. CASE ~Authentic
        BY <1>5, <1>7, <2>3, <3>1, <3>2
      <3>3. CASE Authentic
        BY <1>5, <1>6, <1>7, <2>3, <3>1, <3>3
      <3>. QED
        BY <3>2, <3>3
    <2>. QED
      BY <2>1, <2>2, <2>3
  <1>. QED
    BY <1>1, <1>8

(* So where the decoder fails, decodeBytes does, and for the same reason.  *)
LEMMA LoadFailureAgrees ==
  ASSUME PyTypes, PyFollows, OpenError = NoError, Loading, LoadError # NoError
  PROVE  Reference.err = LoadError
  <1>1. ChunkError(stream, key, options, chunkIndex, PyTurned.offset, Len(PyTurned.plain)) = LoadError
    BY LoadErrorsAgree
  <1>2. chunkIndex < stream[1].h.chunkCount
    <2>1. chunkIndex <= stream[1].h.chunkCount /\ chunkIndex # stream[1].h.chunkCount
      BY DEF PyFollows, Loading
    <2>2. chunkIndex \in Nat /\ stream[1].h.chunkCount \in Nat
      BY PyLoopFacts
    <2>. QED
      BY <2>1, <2>2
  <1>3. PyTurned = AfterTurns(stream, key, options, chunkIndex) /\ PyTurned.err = NoError
    BY DEF PyTurned, PyFollows
  <1>4. Reference = decodeBytes(stream, key, options)
    BY DEF Reference
  <1>. HIDE DEF PyTurned, LoadError, Reference
  <1>. QED
    BY <1>1, <1>2, <1>3, <1>4, PyLoopFacts, LoopStops

(* And the same with the footer.                                           *)
LEMMA FinalErrorsAgree ==
  ASSUME PyTypes, PyFollows, OpenError = NoError, AtFooter
  PROVE  /\ Reference.err = IF FooterError = NoError /\ Available > 2 THEN TrailingData ELSE FooterError
         /\ Reference.plain = Accepted
  <1>. DEFINE l == Len(stream)
              h == stream[1].h
              cell == RootCell(IF h.encrypted THEN rootKey(key, h.baseNonce) ELSE NoKey,
                               <<stream[1]>> \o RegionOf(stream) \o PyTurned.leaves)
  <1>1. /\ PyTurned.offset = pos /\ header = h /\ region = RegionOf(stream)
        /\ PyTurned.plain = Accepted /\ Len(PyTurned.plain) = plainTotal
        /\ PyTurned.err = NoError /\ leaves = PyTurned.leaves
    BY DEF PyFollows, AtFooter, NeedsChunk
  <1>2. Root = cell
    BY <1>1 DEF Root
  <1>3. /\ Reference.err = EndError(stream, key, PyTurned)
        /\ Reference.plain = PyTurned.plain
    <2>1. PyTurned = AfterTurns(stream, key, options, stream[1].h.chunkCount)
      BY <1>1 DEF PyTurned, AtFooter
    <2>2. PreambleError(stream, key, options) = NoError
      BY PyLoopFacts
    <2>. HIDE DEF PyTurned
    <2>. QED
      BY <1>1, <2>1, <2>2, LoopEnds DEF Reference
  <1>4. EndError(stream, key, PyTurned)
          = IF l - pos < 2 THEN Truncated
            ELSE IF stream[pos + 2] # MagicEnd THEN Truncated
            ELSE IF plainTotal # h.totalSize \/ stream[pos + 1] # cell THEN RootMismatch
            ELSE IF l - pos # 2 THEN TrailingData
            ELSE NoError
    <2>1. EndError(stream, key, PyTurned)
            = IF l - PyTurned.offset < 2 THEN Truncated
              ELSE IF stream[PyTurned.offset + 2] # MagicEnd THEN Truncated
              ELSE IF Len(PyTurned.plain) # h.totalSize \/ stream[PyTurned.offset + 1] # cell
              THEN RootMismatch
              ELSE IF l - PyTurned.offset # 2 THEN TrailingData
              ELSE NoError
      BY DEF EndError
    <2>. HIDE DEF cell, l
    <2>. QED
      BY <1>1, <2>1
  <1>5. FooterError = IF l - pos < 2 THEN Truncated
                      ELSE IF stream[pos + 2] # MagicEnd THEN Truncated
                      ELSE IF plainTotal # h.totalSize \/ stream[pos + 1] # cell THEN RootMismatch
                      ELSE NoError
    <2>. HIDE DEF cell
    <2>. QED
      BY <1>1, <1>2 DEF FooterError, RootMatches, Available
  <1>6. l \in Nat /\ pos \in Nat /\ Available = l - pos
    BY SourceFacts DEF Available
  <1>. HIDE DEF cell, l, h
  <1>7. EndError(stream, key, PyTurned)
          = IF FooterError = NoError /\ Available > 2 THEN TrailingData ELSE FooterError
    BY <1>4, <1>5, <1>6 DEF NoError, Truncated, RootMismatch
  <1>. QED
    BY <1>1, <1>3, <1>7

LEMMA PyFollowsKept ==
  ASSUME PyFollows, Accepted' = Accepted, UNCHANGED <<sourceVars, header, region, loadVars>>,
         finalized' = finalized, ~finalized => pos' = pos
  PROVE  PyFollows'
  <1>1. PyTurned' = PyTurned /\ Reference' = Reference
    BY DEF PyTurned, Reference, sourceVars, loadVars
  <1>. HIDE DEF PyTurned, Reference, Accepted
  <1>. QED
    BY <1>1 DEF PyFollows, sourceVars, loadVars

LEMMA FollowsOpens ==
  ASSUME PyTypes, PyPhases, InitOpens
  PROVE  PyFollows'
  <1>1. /\ OpenError = NoError /\ Fresh /\ pos' = MetaEnd(stream)
        /\ header' = stream[1].h /\ region' = RegionOf(stream)
        /\ UNCHANGED <<stream, key, options, chunkIndex, plainTotal, leaves, pending, delivered, output, finalized>>
    BY DEF InitOpens, PyPhases, sourceVars, loadVars, outVars, callVars
  <1>2. PyTurned' = Start(stream)
    <2>1. PyTurned' = AfterTurns(stream, key, options, 0)
      BY <1>1 DEF PyTurned, Fresh
    <2>. QED
      BY <2>1, AfterTurnsValues
  <1>3. /\ PyTurned'.err = NoError /\ PyTurned'.offset = MetaEnd(stream)
        /\ PyTurned'.plain = <<>> /\ PyTurned'.leaves = <<>>
    BY <1>2 DEF Start
  <1>4. Accepted' = <<>>
    BY <1>1 DEF Accepted, Fresh
  <1>5. stream[1].h.chunkCount \in Nat /\ chunkIndex' = 0 /\ plainTotal' = 0
    BY <1>1, AcceptedPrefixFacts DEF Fresh
  <1>6. 0 <= stream[1].h.chunkCount /\ Len(<<>>) = 0
    BY <1>5
  <1>. HIDE DEF PyTurned
  <1>. QED
    BY <1>1, <1>3, <1>4, <1>5, <1>6 DEF PyFollows, Fresh

(* A chunk is accepted when nothing is pending.                            *)
LEMMA LoadsAccept ==
  ASSUME PyTypes, NeedsChunk, pending' = Plain, UNCHANGED <<delivered, output>>
  PROVE  Accepted' = Accepted \o Plain /\ Accepted \in Seq(Cells) /\ Accepted = delivered \o output
  <1>1. delivered \in Seq(Cells) /\ output \in Seq(Cells) /\ pending = <<>>
    BY DEF PyTypes, NeedsChunk
  <1>2. delivered \o output \in Seq(Cells)
    BY <1>1, ConcatProperties
  <1>3. Accepted = (delivered \o output) \o <<>>
    BY <1>1 DEF Accepted
  <1>4. Accepted = delivered \o output
    BY <1>2, <1>3, ConcatEmptySeq
  <1>5. Accepted' = (delivered \o output) \o Plain
    BY DEF Accepted
  <1>. QED
    BY <1>2, <1>4, <1>5

LEMMA FollowsLoads ==
  ASSUME PyTypes, PyPhases, PyFollows, OpenError = NoError, ChunkLoaded
  PROVE  PyFollows'
  <1>1. /\ Loading /\ LoadError = NoError /\ pending = <<>> /\ ~finalized
        /\ leaves' = Append(leaves, Leaf(Body)) /\ plainTotal' = plainTotal + Len(Plain)
        /\ chunkIndex' = chunkIndex + 1 /\ pending' = Plain /\ pos' = pos + Asked
        /\ UNCHANGED <<stream, key, options, header, region, delivered, output, finalized>>
    BY DEF ChunkLoaded, Loading, NeedsChunk, sourceVars, openVars, outVars, callVars
  <1>2. TakesChunk(stream, key, options, chunkIndex, PyTurned)
    <2>1. ChunkError(stream, key, options, chunkIndex, PyTurned.offset, Len(PyTurned.plain)) = NoError
      BY <1>1, LoadErrorsAgree
    <2>2. stream \in Seq(Cells) /\ TurnShape(stream, PyTurned) /\ PyTurned.err = NoError
      BY PyLoopFacts DEF PyFollows
    <2>. QED
      BY <2>1, <2>2, GoodTurn, Zenon
  <1>3. /\ PyTurned.offset = pos /\ header = stream[1].h /\ PyTurned.plain = Accepted
        /\ leaves = PyTurned.leaves /\ plainTotal = Len(Accepted) /\ region = RegionOf(stream)
    BY <1>1 DEF PyFollows
  <1>4. TurnBody(stream, pos) = Body /\ TurnOpened(stream, pos) = Plain /\ U32(stream[pos + 1]) = clen
    BY <1>3 DEF TurnBody, TurnOpened, Body, Plain, clen
  <1>5. PyTurned' = Turn(stream, key, options, PyTurned, chunkIndex)
    <2>1. PyTurned' = AfterTurns(stream, key, options, chunkIndex + 1)
      BY <1>1 DEF PyTurned
    <2>. QED
      BY <2>1, PyLoopFacts
  <1>6. /\ PyTurned'.err = NoError /\ PyTurned'.offset = pos + 1 + clen
        /\ PyTurned'.plain = PyTurned.plain \o Plain
        /\ PyTurned'.leaves = Append(PyTurned.leaves, Leaf(Body))
    <2>1. Turn(stream, key, options, PyTurned, chunkIndex)
            = [err |-> NoError, offset |-> pos + 1 + clen, plain |-> PyTurned.plain \o Plain,
               leaves |-> Append(PyTurned.leaves, Leaf(Body)), inBody |-> PyTurned.inBody]
      <3>. HIDE DEF PyTurned
      <3>. QED
        BY <1>2, <1>3, <1>4, Zenon DEF TakesChunk
    <2>. QED
      BY <1>5, <2>1
  <1>. HIDE DEF PyTurned
  <1>7. Plain \in Seq(Cells) /\ Asked = 1 + clen /\ clen \in Nat
    <2>1. ~AtFooter /\ LoadError # Truncated
      BY <1>1 DEF Loading, AtFooter, NoError, Truncated
    <2>. QED
      BY <1>1, <2>1, LoadedFacts, TakenFacts
  <1>8. pos' = pos + 1 + clen
    BY <1>1, <1>7, SourceFacts
  <1>9. NeedsChunk
    BY <1>1 DEF Loading
  <1>10. Accepted' = Accepted \o Plain /\ Accepted \in Seq(Cells)
    BY <1>1, <1>9, LoadsAccept
  <1>11. plainTotal' = Len(Accepted')
    <2>1. Len(Accepted \o Plain) = Len(Accepted) + Len(Plain)
      BY <1>7, <1>10, ConcatProperties
    <2>. QED
      BY <1>1, <1>3, <1>10, <2>1
  <1>12. chunkIndex' <= stream[1].h.chunkCount
    <2>1. chunkIndex <= stream[1].h.chunkCount /\ chunkIndex # stream[1].h.chunkCount
      BY <1>1, <1>3 DEF PyFollows, Loading
    <2>. QED
      BY <1>1, <2>1, PyLoopFacts
  <1>. HIDE DEF Accepted
  <1>. QED
    BY <1>1, <1>3, <1>6, <1>8, <1>10, <1>11, <1>12 DEF PyFollows

LEMMA FollowsEnds ==
  ASSUME PyTypes, PyPhases, PyFollows, OpenError = NoError, Finalizes
  PROVE  PyFollows'
  <1>1. /\ AtFooter /\ FooterError = NoError /\ Available = 2 /\ finalized'
        /\ UNCHANGED <<stream, key, options, header, region, leaves, chunkIndex, plainTotal,
                       delivered, output, pending>>
    BY DEF Finalizes, sourceVars, openVars, loadVars, outVars, callVars
  <1>2. Reference.err = NoError /\ Reference.plain = Accepted
    BY <1>1, FinalErrorsAgree
  <1>3. PyTurned' = PyTurned /\ Reference' = Reference /\ Accepted' = Accepted
    BY <1>1 DEF PyTurned, Reference, Accepted
  <1>. HIDE DEF PyTurned, Reference, Accepted
  <1>. QED
    BY <1>1, <1>2, <1>3 DEF PyFollows

(* A read starts, takes what is pending, returns: nothing more is accepted.*)
Moves == Starts \/ ReadReturns \/ ReadAllCollects \/ ReadAllReturns

Under == phase \in {"open", "reading", "read all"}

LEMMA MovesKeep ==
  ASSUME PyTypes, PyPhases, Moves
  PROVE  /\ Accepted' = Accepted /\ Under /\ Under' /\ terminal = NoError
         /\ UNCHANGED <<sourceVars, pos, faults, header, region, loadVars, finalized, terminal, dropped>>
  <1>. USE DEF sourceVars, openVars, loadVars, callVars, outVars, Under
  <1>0. delivered \in Seq(Cells) /\ output \in Seq(Cells) /\ pending \in Seq(Cells)
    BY DEF PyTypes
  <1>1. CASE Starts
    <2>1. output' = output
      BY <1>1 DEF Starts, ReadStarts, ReadAllStarts, PyPhases
    <2>2. delivered' = delivered /\ pending' = pending
      BY <1>1 DEF Starts, ReadStarts, ReadAllStarts
    <2>3. Accepted' = Accepted
      BY <2>1, <2>2 DEF Accepted
    <2>. QED
      BY <1>1, <2>3 DEF Starts, ReadStarts, ReadAllStarts
  <1>2. CASE ReadReturns
    <2>1. /\ phase = "reading" /\ InRead /\ delivered' = delivered \o Piece /\ output' = <<>>
          /\ pending' = SubSeq(pending, Len(Piece) + 1, Len(pending))
      BY <1>2 DEF ReadReturns, Returns, InRead
    <2>2. output = <<>> /\ want \in Nat \ {0} /\ terminal = NoError
      BY <2>1 DEF PyPhases
    <2>3. Piece \in Seq(Cells) /\ pending' \in Seq(Cells) /\ Piece \o pending' = pending
      BY <2>1, <2>2, PieceFacts
    <2>4. Accepted' = Accepted
      <3>1. Accepted' = ((delivered \o Piece) \o <<>>) \o pending'
        BY <2>1 DEF Accepted
      <3>2. delivered \o Piece \in Seq(Cells)
        BY <1>0, <2>3, ConcatProperties
      <3>3. (delivered \o Piece) \o <<>> = delivered \o Piece /\ delivered \o <<>> = delivered
        BY <1>0, <3>2, ConcatEmptySeq
      <3>4. (delivered \o Piece) \o pending' = delivered \o pending
        <4>1. delivered \in Seq(Cells) /\ Piece \in Seq(Cells) /\ pending' \in Seq(Cells)
          BY <1>0, <2>3, Zenon
        <4>2. delivered \o (Piece \o pending') = (delivered \o Piece) \o pending'
          BY <4>1, CellTriples
        <4>. QED
          BY <2>3, <4>2
      <3>5. Accepted = (delivered \o <<>>) \o pending
        BY <2>2 DEF Accepted
      <3>. QED
        BY <3>1, <3>3, <3>4, <3>5
    <2>. QED
      BY <1>2, <2>2, <2>4 DEF ReadReturns, Returns
  <1>3. CASE ReadAllCollects
    <2>1. /\ phase = "read all" /\ InRead /\ delivered' = delivered /\ output' = output \o Piece
          /\ pending' = SubSeq(pending, Len(Piece) + 1, Len(pending))
      BY <1>3 DEF ReadAllCollects, InRead
    <2>2. want \in Nat \ {0} /\ terminal = NoError
      BY <2>1 DEF PyPhases
    <2>3. Piece \in Seq(Cells) /\ pending' \in Seq(Cells) /\ Piece \o pending' = pending
      BY <2>1, <2>2, PieceFacts
    <2>4. Accepted' = Accepted
      <3>1. Accepted' = (delivered \o (output \o Piece)) \o pending'
        BY <2>1 DEF Accepted
      <3>2. delivered \o output \in Seq(Cells)
        BY <1>0, ConcatProperties
      <3>3. delivered \o (output \o Piece) = (delivered \o output) \o Piece
        <4>1. delivered \in Seq(Cells) /\ output \in Seq(Cells) /\ Piece \in Seq(Cells)
          BY <1>0, <2>3, Zenon
        <4>. QED
          BY <4>1, CellTriples
      <3>4. (delivered \o output) \o (Piece \o pending')
              = ((delivered \o output) \o Piece) \o pending'
        <4>1. \A a, b, c \in Seq(Cells) : a \o (b \o c) = (a \o b) \o c
          BY Regrouped
        <4>. QED
          BY <2>3, <3>2, <4>1, Zenon
      <3>. QED
        BY <2>3, <3>1, <3>3, <3>4 DEF Accepted
    <2>. QED
      BY <1>3, <2>2, <2>4 DEF ReadAllCollects
  <1>4. CASE ReadAllReturns
    <2>1. /\ phase = "read all" /\ delivered' = delivered \o output /\ output' = <<>>
          /\ pending' = pending
      BY <1>4 DEF ReadAllReturns, Returns
    <2>2. Accepted' = Accepted
      <3>1. delivered \o output \in Seq(Cells)
        BY <1>0, ConcatProperties
      <3>2. (delivered \o output) \o <<>> = delivered \o output
        BY <3>1, ConcatEmptySeq
      <3>. QED
        BY <2>1, <3>2 DEF Accepted
    <2>3. terminal = NoError
      BY <2>1 DEF PyPhases
    <2>. QED
      BY <1>4, <2>2, <2>3 DEF ReadAllReturns, Returns
  <1>. QED
    BY <1>1, <1>2, <1>3, <1>4 DEF Moves

LEMMA PyFollowStep ==
  PyTypes /\ PyPhases /\ PyFollowInv /\ [Next]_vars => PyFollowInv'
  <1>15. SUFFICES ASSUME PyTypes, PyPhases, PyFollowInv, [Next]_vars,
                       faults' = 0, terminal' = NoError, phase' \in {"open", "reading", "read all"}
                PROVE  PyFollows'
    BY DEF PyFollowInv
  <1>. USE DEF sourceVars, openVars, loadVars, callVars, outVars
  <1>14. faults \in Nat
    BY <1>15 DEF PyTypes
  <1>1. ASSUME faults = 0, terminal = NoError, phase \in {"open", "reading", "read all"}
        PROVE  PyFollows /\ OpenError = NoError
    BY <1>1, <1>15 DEF PyFollowInv, PyPhases
  <1>2. CASE InitRaises \/ InitInterrupted
    BY <1>2, <1>15 DEF InitRaises, InitInterrupted, Rejects
  <1>3. CASE InitOpens
    BY <1>3, <1>15, FollowsOpens
  <1>4. CASE ReadAgain
    BY <1>4, <1>15 DEF ReadAgain
  <1>5. CASE Moves
    <2>1. /\ Accepted' = Accepted /\ faults = 0 /\ terminal = NoError /\ Under
          /\ UNCHANGED <<sourceVars, pos, header, region, loadVars, finalized>>
      BY <1>5, <1>15, MovesKeep
    <2>2. PyFollows
      BY <1>1, <2>1 DEF Under
    <2>. QED
      BY <2>1, <2>2, PyFollowsKept
  <1>6. CASE SourceRaises
    <2>1. faults' = faults + 1
      BY <1>6 DEF SourceRaises
    <2>2. faults + 1 # 0
      BY <1>14
    <2>. QED
      BY <1>15, <2>1, <2>2
  <1>10. CASE LoadRaises \/ FinalizeRaises
    <2>1. terminal' # NoError
      <3>1. TrailingData # NoError
        BY DEF TrailingData, NoError
      <3>. QED
        BY <1>10, <3>1 DEF LoadRaises, FinalizeRaises, RaisesUbcError, Kept
    <2>. QED
      BY <1>15, <2>1
  <1>11. CASE ChunkLoaded
    <2>1. faults = 0 /\ terminal = NoError /\ phase \in {"open", "reading", "read all"}
      BY <1>11, <1>15 DEF ChunkLoaded
    <2>. QED
      BY <1>1, <1>11, <1>15, <2>1, FollowsLoads
  <1>12. CASE Finalizes
    <2>1. faults = 0 /\ terminal = NoError /\ phase \in {"open", "reading", "read all"}
      BY <1>12, <1>15 DEF Finalizes
    <2>. QED
      BY <1>1, <1>12, <1>15, <2>1, FollowsEnds
  <1>13. CASE UNCHANGED vars
    <2>1. /\ faults = 0 /\ terminal = NoError /\ phase \in {"open", "reading", "read all"}
          /\ Accepted' = Accepted
          /\ UNCHANGED <<sourceVars, pos, header, region, loadVars, finalized>>
      BY <1>13, <1>15 DEF vars, Accepted
    <2>. QED
      BY <1>1, <2>1, PyFollowsKept
  <1>. QED
    BY <1>2, <1>3, <1>4, <1>5, <1>6, <1>10, <1>11, <1>12, <1>13, <1>15
    DEF Next, Construct, Moves, Proceeds

(* No identifier of an error is a name that a reader's outcome has besides. *)
LEMMA PyNames ==
  /\ \A e \in Errors : e # "open" /\ e # Empty
  /\ Empty # NoError /\ OSError # Empty /\ NoError # "open" /\ MetaMalformed # "open"
  /\ MetaMalformed # NoError
  BY DEF Errors, ErrorCode, Empty, OSError, NoError, BadMagic, UnsupportedVer, UnsupportedAlgo,
         ReservedBits, Truncated, MetaMalformed, RootMismatch, ChunkAuth, MissingKey, TrailingData

LEMMA ReaderStands ==
  ASSUME UNCHANGED sourceVars, delivered' = delivered, ReaderOutcome' = ReaderOutcome
  PROVE  UNCHANGED Reader!readerVars
  <1>. HIDE DEF ReaderOutcome
  <1>. QED
    BY DEF Reader!readerVars, Reader!inputVars, sourceVars

LEMMA ReaderFinishes ==
  ASSUME UNCHANGED sourceVars, delivered' = delivered, ReaderOutcome = "open",
         ReaderOutcome' # "open", ReaderOutcome' = Reference.err,
         ReaderOutcome' = NoError => delivered = Reference.plain
  PROVE  Reader!ReaderNext
  <1>. DEFINE whole == <<stream, key, options>>
  <1>1. Decoded(whole) = Reference
    BY DEF Decoded, Reference
  <1>2. whole' = whole
    BY DEF sourceVars
  <1>. HIDE DEF ReaderOutcome, Reference, whole
  <1>3. Reader!Finish
    BY <1>1, <1>2 DEF Reader!Finish, Reader!inputVars, whole
  <1>. QED
    BY <1>3 DEF Reader!ReaderNext

LEMMA ReaderReleases ==
  ASSUME PyTypes, PyFollows, OpenError = NoError, UNCHANGED sourceVars,
         NEW bytes \in Seq(Cells), bytes # <<>>, NEW rest \in Seq(Cells),
         Accepted = (delivered \o bytes) \o rest, delivered' = delivered \o bytes,
         ReaderOutcome = "open", ReaderOutcome' = "open"
  PROVE  Reader!ReaderNext
  <1>. DEFINE whole == <<stream, key, options>>
              plain == Reference.plain
  <1>1. Decoded(whole) = Reference
    BY DEF Decoded, Reference
  <1>2. whole' = whole
    BY DEF sourceVars
  <1>3. Begins(Accepted, plain, Cells) /\ plain \in Seq(Cells)
    <2>1. chunkIndex \in 0..stream[1].h.chunkCount
      BY PyLoopFacts DEF PyFollows
    <2>2. Begins(PyTurned.plain, plain, Cells) /\ plain \in Seq(Cells)
      BY <2>1, PyLoopFacts, LoopBegins DEF PyTurned, Reference
    <2>3. PyTurned.plain = Accepted
      BY DEF PyFollows
    <2>. QED
      BY <2>2, <2>3
  <1>4. delivered \in Seq(Cells)
    BY DEF PyTypes
  <1>5. /\ delivered \o bytes \in Seq(Cells)
        /\ Len(delivered \o bytes) = Len(delivered) + Len(bytes)
    BY <1>4, ConcatProperties
  <1>. HIDE DEF plain
  <1>6. Begins(delivered \o bytes, plain, Cells)
    BY <1>3, <1>5, BeginsShorter
  <1>7. /\ Len(delivered \o bytes) <= Len(plain) /\ Len(plain) \in Nat
        /\ delivered \o bytes = SubSeq(plain, 1, Len(delivered \o bytes))
    BY <1>3, <1>5, <1>6, BeginsIsPart
  <1>8. Len(bytes) \in Nat /\ Len(bytes) # 0 /\ Len(delivered) \in Nat
    BY <1>4, EmptySeq
  <1>9. Len(delivered \o bytes) \in Len(delivered) + 1..Len(plain)
    <2>. DEFINE n == Len(delivered \o bytes)
                d == Len(delivered)
                b == Len(bytes)
    <2>1. n = d + b /\ n <= Len(plain)
      BY <1>5, <1>7
    <2>2. d \in Nat /\ b \in Nat /\ b # 0 /\ Len(plain) \in Nat
      BY <1>7, <1>8
    <2>. HIDE DEF n, d, b
    <2>3. n \in d + 1..Len(plain)
      BY <2>1, <2>2
    <2>. QED
      BY <2>3 DEF n, d
  <1>10. \E n \in Len(delivered) + 1..Len(plain) : delivered' = SubSeq(plain, 1, n)
    BY <1>7, <1>9, Zenon
  <1>. HIDE DEF ReaderOutcome, Reference, whole
  <1>11. Reader!Release
    BY <1>1, <1>2, <1>10 DEF Reader!Release, Reader!inputVars, whole, plain
  <1>. QED
    BY <1>11 DEF Reader!ReaderNext

(* A call that returns bytes: all of Piece, or all that read(-1) has.      *)
LEMMA ReturnsReads ==
  ASSUME PyTypes, PyPhases, PyFollows, OpenError = NoError, UNCHANGED sourceVars, InRead,
         NEW bytes \in Seq(Cells), NEW rest \in Seq(Cells),
         Accepted = (delivered \o bytes) \o rest, bytes = <<>> => rest = <<>> /\ finalized,
         reply = Empty => bytes = <<>>,
         delivered' = delivered \o bytes, phase' = "open", terminal = NoError, terminal' = NoError,
         reply' = IF bytes = <<>> THEN Empty ELSE NoError
  PROVE  Reader!ReaderNext \/ UNCHANGED Reader!readerVars
  <1>1. phase # "rejected" /\ phase' # "rejected"
    BY DEF InRead
  <1>2. ReaderOutcome = IF reply = Empty THEN NoError ELSE "open"
    BY <1>1 DEF ReaderOutcome
  <1>3. ReaderOutcome' = IF bytes = <<>> THEN NoError ELSE "open"
    BY <1>1, PyNames DEF ReaderOutcome
  <1>4. delivered \in Seq(Cells)
    BY DEF PyTypes
  <1>. HIDE DEF ReaderOutcome
  <1>5. CASE bytes # <<>>
    BY <1>2, <1>3, <1>5, ReaderReleases
  <1>6. CASE bytes = <<>>
    <2>1. delivered' = delivered /\ Accepted = delivered
      BY <1>4, <1>6, ConcatEmptySeq
    <2>2. Reference.err = NoError /\ Reference.plain = delivered
      BY <1>6, <2>1 DEF PyFollows
    <2>3. CASE reply = Empty
      BY <1>2, <1>3, <1>6, <2>1, <2>3, ReaderStands
    <2>4. CASE reply # Empty
      BY <1>2, <1>3, <1>6, <2>1, <2>2, <2>4, ReaderFinishes, PyNames
    <2>. QED
      BY <2>3, <2>4
  <1>. QED
    BY <1>5, <1>6

(* A UbcError: it is the one that decodeBytes ends with.                   *)
LEMMA RaisesReads ==
  ASSUME PyTypes, PyPhases, PyFollows, OpenError = NoError, UNCHANGED sourceVars, InRead, ~finalized,
         NEW error \in Errors, error # NoError, error = Reference.err,
         delivered' = delivered, phase' = "open", terminal = NoError, terminal' = error
  PROVE  Reader!ReaderNext
  <1>1. phase # "rejected" /\ phase' # "rejected" /\ reply # Empty
    BY DEF InRead, PyPhases
  <1>2. ReaderOutcome = "open"
    BY <1>1 DEF ReaderOutcome
  <1>3. ReaderOutcome' = error /\ error # "open"
    BY <1>1, PyNames DEF ReaderOutcome
  <1>. HIDE DEF ReaderOutcome, Reference
  <1>. QED
    BY <1>2, <1>3, ReaderFinishes

(* No decoder at all: decodeBytes ends with the same error, but for the    *)
(* container cut after its header.                                         *)
LEMMA RejectsReads ==
  ASSUME PyTypes, PyPhases, InitRaises
  PROVE  Reader!ReaderNext
  <1>1. /\ phase = "new" /\ OpenError # NoError /\ phase' = "rejected" /\ reply' = OpenError
        /\ reply = NoError /\ terminal = NoError
        /\ UNCHANGED <<sourceVars, delivered>>
    BY DEF InitRaises, Rejects, PyPhases, Fresh, outVars
  <1>2. /\ PreambleError(stream, key, options) = OneShotName(OpenError)
        /\ PreambleError(stream, key, options) =
             IF OpenError = Truncated /\ CutAfterHeader THEN MetaMalformed ELSE OpenError
    BY OpeningsAgree, OpeningsNamed
  <1>3. PreambleError(stream, key, options) # NoError
    BY <1>1, <1>2, PyNames
  <1>4. Reference.err = PreambleError(stream, key, options)
    BY <1>3 DEF Reference, decodeBytes, Result
  <1>5. ReaderOutcome = "open"
    BY <1>1, PyNames DEF ReaderOutcome
  <1>6. CutAfterHeader' = CutAfterHeader
    BY <1>1 DEF CutAfterHeader, sourceVars
  <1>7. ReaderOutcome' = PreambleError(stream, key, options)
    BY <1>1, <1>2, <1>6 DEF ReaderOutcome, OneShotName
  <1>8. ReaderOutcome' # "open" /\ ReaderOutcome' # NoError
    BY <1>2, <1>3, <1>7, OpenErrors, PyNames
  <1>. HIDE DEF ReaderOutcome, Reference
  <1>. QED
    BY <1>1, <1>4, <1>5, <1>7, <1>8, ReaderFinishes

LEMMA PyReaderStep ==
  ASSUME PyTypes, PyPhases, PyFollowInv, [Next]_vars
  PROVE  (UNCHANGED sourceVars /\ (faults' = 0 \/ terminal # NoError))
           => Reader!ReaderNext \/ UNCHANGED Reader!readerVars
  <1>1. SUFFICES ASSUME faults' = 0 \/ terminal # NoError
                 PROVE  Reader!ReaderNext \/ UNCHANGED Reader!readerVars
    OBVIOUS
  <1>. USE DEF sourceVars, openVars, loadVars, callVars, outVars
  <1>2. /\ UNCHANGED sourceVars
        /\ delivered \in Seq(Cells) /\ output \in Seq(Cells) /\ pending \in Seq(Cells)
        /\ <<>> \in Seq(Cells)
    <2>1. UNCHANGED sourceVars
      BY StandsFixed
    <2>2. delivered \in Seq(Cells) /\ output \in Seq(Cells) /\ pending \in Seq(Cells)
      BY DEF PyTypes
    <2>3. <<>> \in Seq(Cells)
      OBVIOUS
    <2>. QED
      BY <2>1, <2>2, <2>3
  <1>3. faults \in Nat
    BY DEF PyTypes
  <1>4. ASSUME faults' = faults \/ phase \in {"reading", "read all"}, faults' = faults + 1 \/ faults' = faults,
               phase \in {"open", "reading", "read all"}, terminal = NoError
        PROVE  faults = 0 /\ PyFollows /\ OpenError = NoError
    <2>1. faults' = 0
      BY <1>1, <1>4
    <2>2. faults = 0
      <3>1. \A f, g \in Nat : g = 0 /\ (g = f + 1 \/ g = f) => f = 0
        OBVIOUS
      <3>2. faults' \in Nat
        BY <2>1
      <3>. QED
        BY <1>3, <1>4, <2>1, <3>1, <3>2, Zenon
    <2>. QED
      BY <1>4, <2>2 DEF PyFollowInv, PyPhases
  <1>5. ASSUME delivered' = delivered, terminal' = terminal,
               (phase = "rejected") = (phase' = "rejected"),
               reply' = reply
        PROVE  UNCHANGED Reader!readerVars
    <2>1. ReaderOutcome' = ReaderOutcome
      BY <1>2, <1>5 DEF ReaderOutcome, OneShotName, CutAfterHeader
    <2>. QED
      BY <1>2, <1>5, <2>1, ReaderStands
  <1>6. ASSUME delivered' = delivered, terminal' = terminal, terminal # NoError, phase = "open",
               phase' = "open"
        PROVE  UNCHANGED Reader!readerVars
    <2>1. ReaderOutcome' = ReaderOutcome
      BY <1>6 DEF ReaderOutcome
    <2>. QED
      BY <1>2, <1>6, <2>1, ReaderStands
  <1>7. CASE InitRaises
    BY <1>7, RejectsReads
  <1>8. CASE InitInterrupted \/ SourceRaises
    <2>1. faults' = faults + 1 /\ terminal = NoError
      BY <1>8 DEF InitInterrupted, SourceRaises, NeedsChunk, InRead, PyPhases, Fresh
    <2>2. faults + 1 # 0
      <3>1. \A f \in Nat : f + 1 # 0
        OBVIOUS
      <3>. QED
        BY <1>3, <3>1, Zenon
    <2>. QED
      BY <1>1, <2>1, <2>2
  <1>9. CASE InitOpens
    <2>1. phase = "new" /\ phase' = "open" /\ UNCHANGED <<delivered, terminal, reply>>
      BY <1>9 DEF InitOpens
    <2>. QED
      BY <1>5, <2>1
  <1>10. CASE ReadAgain
    <2>1. phase = "open" /\ phase' = "open" /\ terminal # NoError /\ UNCHANGED <<delivered, terminal>>
      BY <1>10 DEF ReadAgain
    <2>. QED
      BY <1>6, <2>1
  <1>11. CASE ReadStarts \/ ReadAllStarts
    <2>1. phase = "open" /\ phase' # "rejected" /\ UNCHANGED <<delivered, terminal, reply>>
      BY <1>11 DEF ReadStarts, ReadAllStarts
    <2>. QED
      BY <1>5, <2>1
  <1>12. CASE ReadReturns
    <2>1. /\ phase = "reading" /\ InRead /\ phase' = "open" /\ (pending = <<>> => finalized)
          /\ delivered' = delivered \o Piece /\ UNCHANGED <<faults, terminal>>
          /\ reply' = (IF Piece = <<>> THEN Empty ELSE NoError)
      BY <1>12 DEF ReadReturns, Returns, InRead
    <2>2. terminal = NoError /\ output = <<>> /\ want \in Nat \ {0} /\ (reply = Empty => pending = <<>>)
      BY <2>1 DEF PyPhases
    <2>. DEFINE rest == SubSeq(pending, Len(Piece) + 1, Len(pending))
    <2>3. /\ Piece \in Seq(Cells) /\ rest \in Seq(Cells) /\ Piece \o rest = pending
          /\ Piece = <<>> => pending = <<>>
          /\ pending = <<>> => Piece = <<>> /\ rest = <<>>
      BY <2>1, <2>2, PieceFacts
    <2>4. faults = 0 /\ PyFollows /\ OpenError = NoError
      BY <1>4, <2>1, <2>2
    <2>. HIDE DEF rest
    <2>5. Accepted = (delivered \o Piece) \o rest
      <3>1. delivered \in Seq(Cells) /\ Piece \in Seq(Cells) /\ rest \in Seq(Cells)
        BY <1>2, <2>3, Zenon
      <3>2. Accepted = (delivered \o <<>>) \o pending /\ delivered \o <<>> = delivered
        BY <1>2, <2>2, ConcatEmptySeq DEF Accepted
      <3>. QED
        <4>1. delivered \o (Piece \o rest) = (delivered \o Piece) \o rest
          BY <3>1, CellTriples
        <4>2. Accepted = delivered \o pending
          BY <3>2
        <4>. QED
          BY <2>3, <4>1, <4>2
    <2>6. terminal' = NoError /\ (Piece = <<>> => rest = <<>> /\ finalized) /\ (reply = Empty => Piece = <<>>)
      BY <2>1, <2>2, <2>3
    <2>. HIDE DEF ReaderOutcome, Reader!ReaderNext
    <2>. QED
      BY <1>2, <2>1, <2>2, <2>3, <2>4, <2>5, <2>6, ReturnsReads
  <1>13. CASE ReadAllReturns
    <2>1. /\ phase = "read all" /\ InRead /\ phase' = "open" /\ pending = <<>> /\ finalized
          /\ delivered' = delivered \o output /\ UNCHANGED <<faults, terminal>>
          /\ reply' = (IF output = <<>> THEN Empty ELSE NoError)
      BY <1>13 DEF ReadAllReturns, Returns, InRead
    <2>2. terminal = NoError /\ (reply = Empty => output = <<>>)
      BY <2>1 DEF PyPhases
    <2>3. faults = 0 /\ PyFollows /\ OpenError = NoError
      BY <1>4, <2>1, <2>2
    <2>4. Accepted = (delivered \o output) \o <<>>
      BY <2>1 DEF Accepted
    <2>. QED
      BY <1>2, <2>1, <2>2, <2>3, <2>4, ReturnsReads
  <1>14. CASE ReadAllCollects
    <2>1. phase = "read all" /\ phase' = phase /\ UNCHANGED <<delivered, terminal, reply>>
      BY <1>14 DEF ReadAllCollects
    <2>. QED
      BY <1>5, <2>1
  <1>15. CASE LoadRaises
    <2>1. /\ Loading /\ InRead /\ ~finalized /\ LoadError # NoError /\ terminal' = LoadError
          /\ phase' = "open" /\ UNCHANGED <<delivered, faults>> /\ chunkIndex # header.chunkCount
      BY <1>15 DEF LoadRaises, RaisesUbcError, Raises, Kept, Loading, NeedsChunk
    <2>2. terminal = NoError
      BY <2>1 DEF PyPhases, InRead
    <2>3. faults = 0 /\ PyFollows /\ OpenError = NoError
      BY <1>4, <2>1, <2>2 DEF InRead
    <2>4. Reference.err = LoadError
      BY <2>1, <2>3, LoadFailureAgrees
    <2>. QED
      BY <1>2, <2>1, <2>2, <2>3, <2>4, TurnErrors, RaisesReads
  <1>16. CASE FinalizeRaises
    <2>. DEFINE error == IF FooterError = NoError THEN TrailingData ELSE FooterError
    <2>1. /\ AtFooter /\ InRead /\ ~finalized /\ terminal' = error
          /\ phase' = "open" /\ UNCHANGED <<delivered, faults>>
          /\ FooterError = NoError => Available > 2
      BY <1>16 DEF FinalizeRaises, RaisesUbcError, Raises, Kept, AtFooter, NeedsChunk
    <2>2. terminal = NoError
      BY <2>1 DEF PyPhases, InRead
    <2>3. faults = 0 /\ PyFollows /\ OpenError = NoError
      BY <1>4, <2>1, <2>2 DEF InRead
    <2>4. Reference.err = error
      BY <2>1, <2>3, FinalErrorsAgree
    <2>5. error \in Errors /\ error # NoError
      <3>1. TrailingData \in Errors /\ TrailingData # NoError
        BY DEF TrailingData, NoError, Errors, ErrorCode
      <3>. QED
        BY <3>1, TurnErrors
    <2>. HIDE DEF error
    <2>. QED
      BY <1>2, <2>1, <2>2, <2>3, <2>4, <2>5, RaisesReads
  <1>17. CASE ChunkLoaded \/ Finalizes
    <2>1. phase' = phase /\ UNCHANGED <<delivered, terminal, reply>>
      BY <1>17 DEF ChunkLoaded, Finalizes
    <2>. QED
      BY <1>5, <2>1
  <1>18. CASE UNCHANGED vars
    <2>1. phase' = phase /\ UNCHANGED <<delivered, terminal, reply>>
      BY <1>18 DEF vars
    <2>. QED
      BY <1>5, <2>1
  <1>. QED
    BY <1>7, <1>8, <1>9, <1>10, <1>11, <1>12, <1>13, <1>14, <1>15, <1>16, <1>17, <1>18
    DEF Next, Construct, Starts, Proceeds

LEMMA PyReaderStarts ==
  ASSUME Init
  PROVE  Reader!ReaderInit /\ PyFollowInv
  <1>1. phase = "new" /\ terminal = NoError /\ reply = NoError /\ delivered = <<>>
    BY DEF Init
  <1>2. ReaderOutcome = "open"
    BY <1>1, PyNames DEF ReaderOutcome
  <1>. QED
    BY <1>1, <1>2 DEF Reader!ReaderInit, PyFollowInv

(* The Decoder of sdk/python/ubc/streaming.py implements the reader of     *)
(* UbcReader for every stream, key, caps and sequence of reads: it hands   *)
(* out the plaintext of decodeBytes in order and ends as decodeBytes ends. *)
(* This is so until its source first raises; and a decoder that has kept a *)
(* UbcError returns nothing more, and no other error, whatever happens.    *)
THEOREM PyRefines == Spec => ImplementsReader
  <1>1. PyTypes /\ PyPhases /\ PyFollowInv /\ [Next]_vars
          => PyTypes' /\ PyPhases' /\ PyFollowInv'
    BY PyTypesStep, PyPhasesStep, PyFollowStep
  <1>2. PyTypes /\ PyPhases /\ PyFollowInv /\ [Next]_vars
          => [UNCHANGED sourceVars /\ (faults' = 0 \/ terminal # NoError)
                => Reader!ReaderNext]_(Reader!readerVars)
    BY PyReaderStep
  <1>3. Init => PyTypes /\ PyPhases /\ PyFollowInv /\ Reader!ReaderInit
    BY PyInit, PyReaderStarts
  <1>. QED
    BY <1>1, <1>2, <1>3, PTL DEF Spec, ImplementsReader

-----------------------------------------------------------------------------
(* The streaming Encoder.  Its close writes the container in pieces, which *)
(* are two of the prologue, two of each chunk, the root and the end magic. *)

PyPairs(bodies) == [i \in DOMAIN bodies |-> <<<<Num(Len(bodies[i]))>>, bodies[i]>>]

PyPieces(rootkey, head, meta, bodies) ==
  (<<<<head>>, meta>> \o FlattenSeq(PyPairs(bodies)))
    \o <<<<RootCell(rootkey, RootInput(head, meta, bodies))>>, <<MagicEnd>>>>

LEMMA PairsAreFrames ==
  ASSUME NEW bodies \in Seq(Seq(BodyCells)), \A i \in 1..Len(bodies) : Len(bodies[i]) <= MaxU32
  PROVE  /\ PyPairs(bodies) \in Seq(Seq(Seq(Cells))) /\ Len(PyPairs(bodies)) = Len(bodies)
         /\ \A i \in 1..Len(bodies) : Frames(bodies)[i] = FlattenSeq(PyPairs(bodies)[i])
  <1>1. DOMAIN bodies = 1..Len(bodies) /\ Len(bodies) \in Nat
    OBVIOUS
  <1>2. ASSUME NEW i \in 1..Len(bodies)
        PROVE  /\ <<<<Num(Len(bodies[i]))>>, bodies[i]>> \in Seq(Seq(Cells))
               /\ Framed(bodies[i]) = FlattenSeq(<<<<Num(Len(bodies[i]))>>, bodies[i]>>)
    <2>. DEFINE a == <<Num(Len(bodies[i]))>>
                b == bodies[i]
    <2>1. b \in Seq(BodyCells) /\ Len(b) \in 0..MaxU32
      <3>1. b \in Seq(BodyCells) /\ Len(b) <= MaxU32
        OBVIOUS
      <3>2. Len(b) \in Nat
        BY <3>1
      <3>. HIDE DEF b
      <3>. QED
        BY <3>1, <3>2, WidthAssumption
    <2>2. Num(Len(b)) \in Cells /\ BodyCells \subseteq Cells
      <3>. DEFINE n == Len(b)
      <3>1. n \in 0..MaxU32
        BY <2>1
      <3>. HIDE DEF n, b
      <3>2. Num(n) \in NumCells
        BY <3>1 DEF Num, NumCells
      <3>3. NumCells \subseteq Cells /\ BodyCells \subseteq Cells
        BY DEF Cells, BodyCells
      <3>. QED
        BY <3>2, <3>3 DEF n
    <2>. HIDE DEF Cells, b
    <2>3. <<Num(Len(b))>> \in Seq(Cells) /\ b \in Seq(Cells)
      BY <2>1, <2>2
    <2>4. a \in Seq(Cells)
      BY <2>3 DEF b
    <2>5. Framed(b) = a \o b
      BY DEF Framed, b
    <2>. HIDE DEF a
    <2>6. FlattenSeq(<<a, b>>) = a \o b
      BY <2>3, <2>4, FlattenPair
    <2>7. <<a, b>> \in Seq(Seq(Cells))
      BY <2>3, <2>4
    <2>. QED
      BY <2>5, <2>6, <2>7 DEF a, b
  <1>3. PyPairs(bodies) = [i \in 1..Len(bodies) |-> <<<<Num(Len(bodies[i]))>>, bodies[i]>>]
    BY <1>1 DEF PyPairs
  <1>4. PyPairs(bodies) \in Seq(Seq(Seq(Cells))) /\ Len(PyPairs(bodies)) = Len(bodies)
    <2>. DEFINE pair(i) == <<<<Num(Len(bodies[i]))>>, bodies[i]>>
    <2>1. \A i \in 1..Len(bodies) : pair(i) \in Seq(Seq(Cells))
      BY <1>2
    <2>2. PyPairs(bodies) = [i \in 1..Len(bodies) |-> pair(i)]
      BY <1>3
    <2>. HIDE DEF pair, Cells
    <2>. QED
      BY <1>1, <2>1, <2>2
  <1>5. ASSUME NEW i \in 1..Len(bodies)
        PROVE  Frames(bodies)[i] = FlattenSeq(PyPairs(bodies)[i])
    <2>1. Frames(bodies)[i] = Framed(bodies[i])
      BY FramesAreSeqs
    <2>2. PyPairs(bodies)[i] = <<<<Num(Len(bodies[i]))>>, bodies[i]>>
      BY <1>3
    <2>. QED
      BY <1>2, <2>1, <2>2
  <1>. QED
    BY <1>4, <1>5

LEMMA PiecesFlatten ==
  ASSUME NEW head \in HeaderCells, NEW meta \in Seq(NumCells),
         NEW bodies \in Seq(Seq(BodyCells)), \A i \in 1..Len(bodies) : Len(bodies[i]) <= MaxU32,
         NEW rootkey \in {NoKey} \cup (Seq(Nat) \X Nat)
  PROVE  /\ PyPieces(rootkey, head, meta, bodies) \in Seq(Seq(Cells))
         /\ Len(PyPieces(rootkey, head, meta, bodies)) \in Nat \ {0}
         /\ FlattenSeq(PyPieces(rootkey, head, meta, bodies)) = Container(rootkey, head, meta, bodies)
         /\ Container(rootkey, head, meta, bodies) \in Seq(Cells)
  <1>. DEFINE all == PyPieces(rootkey, head, meta, bodies)
              whole == Container(rootkey, head, meta, bodies)
              root == RootCell(rootkey, RootInput(head, meta, bodies))
              frames == Frames(bodies)
              pairs == PyPairs(bodies)
              written == Written(head, meta, bodies, Len(bodies))
  <1>1. <<head>> \in Seq(Cells) /\ meta \in Seq(Cells) /\ <<head>> \o meta \in Seq(Cells)
    BY PrologueIsCells
  <1>2. frames \in Seq(Seq(Cells)) /\ Len(frames) = Len(bodies)
    BY FramesAreSeqs
  <1>3. pairs \in Seq(Seq(Seq(Cells))) /\ Len(pairs) = Len(bodies)
        /\ \A i \in 1..Len(bodies) : frames[i] = FlattenSeq(pairs[i])
    BY PairsAreFrames
  <1>4. RootInput(head, meta, bodies) = Hashed(head, meta, bodies, Len(bodies))
    <2>1. Upto(Leaves(bodies), Len(bodies)) = [i \in DOMAIN bodies |-> Leaf(bodies[i])]
      BY DEF Upto, Leaves
    <2>. QED
      BY <2>1 DEF Hashed, RootInput
  <1>5. /\ whole = (written \o <<root>>) \o <<MagicEnd>>
        /\ written \in Seq(Cells) /\ <<root>> \in Seq(Cells) /\ <<MagicEnd>> \in Seq(Cells)
        /\ whole \in Seq(Cells)
    BY <1>4, ContainerIsWritten
  <1>6. written = (<<head>> \o meta) \o FlattenSeq(frames)
    BY <1>2, JoinedAll DEF Written
  <1>. DEFINE h == <<head>>
              r == <<root>>
              e == <<MagicEnd>>
  <1>7. all = (<<h, meta>> \o FlattenSeq(pairs)) \o <<r, e>>
    BY DEF PyPieces
  <1>8. h \in Seq(Cells) /\ r \in Seq(Cells) /\ e \in Seq(Cells) /\ meta \in Seq(Cells)
    BY <1>1, <1>5
  <1>9. written = (h \o meta) \o FlattenSeq(frames) /\ whole = (written \o r) \o e
    BY <1>5, <1>6
  <1>. HIDE DEF all, whole, frames, pairs, written, h, r, e, Cells
  <1>10. /\ all \in Seq(Seq(Cells)) /\ Len(all) \in Nat \ {0}
         /\ FlattenSeq(all) = ((h \o meta) \o FlattenSeq(frames)) \o (r \o e)
    <2>1. Len(frames) = Len(pairs) /\ \A i \in 1..Len(pairs) : frames[i] = FlattenSeq(pairs[i])
      BY <1>2, <1>3
    <2>. QED
      <3>1. FlattensTo(Wrapped(h, meta, pairs, r, e), ((h \o meta) \o FlattenSeq(frames)) \o (r \o e))
        BY <1>2, <1>3, <1>8, <2>1, FlattenWrapped, Zenon
      <3>2. all = Wrapped(h, meta, pairs, r, e)
        BY <1>7 DEF Wrapped
      <3>. QED
        BY <3>1, <3>2, Zenon DEF FlattensTo
  <1>12. written \in Seq(Cells)
    BY <1>5
  <1>11. FlattenSeq(all) = whole
    <2>1. written \o (r \o e) = (written \o r) \o e
      BY <1>8, <1>12, CellTriples, Zenon
    <2>. QED
      BY <1>9, <1>10, <2>1
  <1>. QED
    BY <1>5, <1>10, <1>11 DEF all, whole

(* What close makes of the counted bytes with the base nonce it took.      *)
PyHead == HeaderCell(HeaderOf(base))

PyMeta == EncodeMetadata(entries).region

PyBodies ==
  LET chunks == ChunksOf(Spooled, encoding.chunk_size)
  IN  IF Encrypted THEN SealedChunks(encoding.key, base, PyHead, PyMeta, chunks) ELSE chunks

PyRootKey == IF Encrypted THEN rootKey(encoding.key, base) ELSE NoKey

PyParts == PiecesOf(base)

PyWhole == Container(PyRootKey, PyHead, PyMeta, PyBodies)

PyLegal == OptionsError = NoError /\ HeaderError(HeaderOf(base)) = NoError /\ base \in Nat

PyArgs ==
  /\ entries \in Seq(Entry)
  /\ encoding \in [chunk_size : 0..MaxU32, key : Seq(Nat), base_nonce : Nat \cup {NoNonce}]
  /\ spool \in Seq(NumCells) /\ totalSize \in Nat /\ totalSize <= Len(spool)
  /\ encPhase \notin {"new", "refused"} => OptionsError = NoError

LEMMA SpooledFacts ==
  ASSUME PyArgs
  PROVE  Spooled \in Seq(NumCells) /\ Len(Spooled) = totalSize /\ totalSize \in Nat
  <1>1. spool \in Seq(NumCells) /\ totalSize \in Nat /\ totalSize <= Len(spool)
    BY DEF PyArgs
  <1>2. 1 \in Nat /\ 1 >= 1
    OBVIOUS
  <1>3. Spooled \in Seq(NumCells) /\ Len(Spooled) = IF 1 <= totalSize THEN totalSize - 1 + 1 ELSE 0
    BY <1>1, <1>2, PartOf DEF Spooled
  <1>4. (IF 1 <= totalSize THEN totalSize - 1 + 1 ELSE 0) = totalSize
    BY <1>1
  <1>. QED
    BY <1>1, <1>3, <1>4

LEMMA LegalArgs ==
  ASSUME PyArgs, PyLegal
  PROVE  /\ encoding.chunk_size \in 1..MaxU32 /\ encoding.key \in Seq(Nat) /\ base \in Nat
         /\ Encrypted => Len(encoding.key) = KeyLen
         /\ EncodeMetadata(entries).ok /\ PyMeta \in Seq(NumCells)
         /\ (entries # <<>>) = (PyMeta # <<>>)
         /\ totalSize \in 0..MaxU64 /\ validate(HeaderOf(base)) = NoError
  <1>1. /\ encoding.chunk_size # 0 /\ (Encrypted => Len(encoding.key) = KeyLen)
        /\ EncodeMetadata(entries).ok
    BY DEF PyLegal, OptionsError, Encrypted, NoError, ReservedBits, MetaMalformed
  <1>2. encoding.chunk_size \in 0..MaxU32 /\ encoding.key \in Seq(Nat) /\ base \in Nat
    BY DEF PyArgs, PyLegal
  <1>3. encoding.chunk_size \in 1..MaxU32
    <2>. DEFINE n == encoding.chunk_size
    <2>1. n \in 0..MaxU32 /\ n # 0
      BY <1>1, <1>2
    <2>. HIDE DEF n
    <2>2. n \in 1..MaxU32
      BY <2>1, WidthAssumption
    <2>. QED
      BY <2>2 DEF n
  <1>4. PyMeta \in Seq(NumCells) /\ (PyMeta # <<>> <=> entries # <<>>)
    BY <1>1, RegionIsNumbers DEF PyArgs, PyMeta
  <1>5. validate(HeaderOf(base)) = NoError
    BY DEF PyLegal, HeaderError
  <1>6. ~(HeaderOf(base).totalSize > MaxU64)
    BY <1>5 DEF PyLegal, HeaderError, StructError, NoError
  <1>7. HeaderOf(base).totalSize = totalSize
    BY DEF HeaderOf, EncryptedHeader, PlainHeader
  <1>8. totalSize \in 0..MaxU64
    <2>1. totalSize \in Nat
      BY DEF PyArgs
    <2>. QED
      BY <1>6, <1>7, <2>1, WidthAssumption
  <1>. QED
    BY <1>1, <1>2, <1>3, <1>4, <1>5, <1>8

LEMMA PyLegalIsCells ==
  ASSUME PyArgs, PyLegal
  PROVE  /\ PyHead \in HeaderCells /\ PyRootKey \in {NoKey} \cup (Seq(Nat) \X Nat)
         /\ PyBodies \in Seq(Seq(BodyCells))
         /\ \A i \in 1..Len(PyBodies) : Len(PyBodies[i]) <= MaxU32
  <1>. DEFINE size == encoding.chunk_size
              chunks == ChunksOf(Spooled, size)
  <1>1. /\ size \in 1..MaxU32 /\ encoding.key \in Seq(Nat) /\ base \in Nat
        /\ PyMeta \in Seq(NumCells) /\ totalSize \in 0..MaxU64
        /\ validate(HeaderOf(base)) = NoError
    BY LegalArgs
  <1>2. Spooled \in Seq(NumCells)
    BY SpooledFacts
  <1>3. PyHead \in HeaderCells
    <2>1. (entries # <<>>) \in BOOLEAN
      OBVIOUS
    <2>2. /\ HeaderCell(PlainHeader(size, totalSize, entries # <<>>)) \in HeaderCells
          /\ HeaderCell(EncryptedHeader(size, totalSize, entries # <<>>, base)) \in HeaderCells
      BY <1>1, <2>1, HeadersAreCells
    <2>. QED
      BY <2>2 DEF PyHead, HeaderOf
  <1>4. PyRootKey \in {NoKey} \cup (Seq(Nat) \X Nat)
    BY <1>1 DEF PyRootKey, rootKey
  <1>5. CASE ~Encrypted
    <2>1. /\ chunks \in Seq(Seq(BodyCells))
          /\ \A i \in 1..Len(chunks) : Len(chunks[i]) <= MaxU32
      BY <1>1, <1>2, BodiesArePlain
    <2>2. PyBodies = chunks
      BY <1>5 DEF PyBodies
    <2>. QED
      BY <1>3, <1>4, <2>1, <2>2
  <1>6. CASE Encrypted
    <2>1. size \in 1..MaxU32 - TagLen
      <3>1. HeaderOf(base).encrypted /\ HeaderOf(base).chunkSize = size
        BY <1>6 DEF HeaderOf, EncryptedHeader, PlainHeader
      <3>2. ~(HeaderOf(base).chunkSize > MaxU32 - TagLen)
        BY <1>1, <3>1 DEF validate, NoError, ReservedBits, UnsupportedAlgo, UnsupportedVer
      <3>. HIDE DEF size
      <3>. QED
        BY <1>1, <3>1, <3>2, WidthAssumption DEF TagLen
    <2>. DEFINE sealed == SealedChunks(encoding.key, base, PyHead, PyMeta, chunks)
    <2>2. /\ sealed \in Seq(Seq(BodyCells))
          /\ \A i \in 1..Len(sealed) : Len(sealed[i]) <= MaxU32
      <3>1. ASSUME NEW n \in 1..MaxU32 - TagLen, NEW secret \in Seq(Nat), NEW nonce \in Nat,
                   NEW head \in HeaderCells, NEW meta \in Seq(NumCells), NEW data \in Seq(NumCells)
            PROVE  LET made == SealedChunks(secret, nonce, head, meta, ChunksOf(data, n))
                   IN  /\ made \in Seq(Seq(BodyCells))
                       /\ \A i \in 1..Len(made) : Len(made[i]) <= MaxU32
        BY BodiesAreSealed
      <3>. QED
        BY <1>1, <1>2, <1>3, <2>1, <3>1
    <2>3. PyBodies = sealed
      BY <1>6 DEF PyBodies
    <2>. QED
      BY <1>3, <1>4, <2>2, <2>3
  <1>. QED
    BY <1>5, <1>6

LEMMA PartsFacts ==
  ASSUME PyArgs, PyLegal
  PROVE  /\ PyParts \in Seq(Seq(Cells)) /\ Len(PyParts) \in Nat \ {0}
         /\ Joined(PyParts, Len(PyParts)) = PyWhole /\ PyWhole \in Seq(Cells)
  <1>1. PyMeta \in Seq(NumCells)
    BY LegalArgs
  <1>2. /\ PyPieces(PyRootKey, PyHead, PyMeta, PyBodies) \in Seq(Seq(Cells))
        /\ Len(PyPieces(PyRootKey, PyHead, PyMeta, PyBodies)) \in Nat \ {0}
        /\ FlattenSeq(PyPieces(PyRootKey, PyHead, PyMeta, PyBodies)) = PyWhole
        /\ PyWhole \in Seq(Cells)
    BY <1>1, PyLegalIsCells, PiecesFlatten DEF PyWhole
  <1>3. PyParts = PyPieces(PyRootKey, PyHead, PyMeta, PyBodies)
    <2>. DEFINE chunks == ChunksOf(Spooled, encoding.chunk_size)
                sealed == SealedChunks(encoding.key, base, PyHead, PyMeta, chunks)
    <2>1. DOMAIN sealed = DOMAIN chunks
          /\ sealed = [i \in DOMAIN chunks |->
                         sealChunk(encoding.key, base, PyHead, PyMeta, i - 1, chunks[i])]
      BY DEF SealedChunks
    <2>2. CASE Encrypted
      <3>1. PyBodies = sealed /\ PyRootKey = rootKey(encoding.key, base)
        BY <2>2 DEF PyBodies, PyRootKey
      <3>. QED
        BY <2>1, <2>2, <3>1 DEF PyParts, PiecesOf, PyPieces, PyPairs, PyHead, PyMeta
    <2>3. CASE ~Encrypted
      <3>1. PyBodies = chunks /\ PyRootKey = NoKey
        BY <2>3 DEF PyBodies, PyRootKey
      <3>2. [i \in DOMAIN chunks |-> chunks[i]] = chunks
        BY DEF ChunksOf
      <3>. QED
        BY <2>3, <3>1, <3>2 DEF PyParts, PiecesOf, PyPieces, PyPairs, PyHead, PyMeta
    <2>. QED
      BY <2>2, <2>3
  <1>4. Joined(PyParts, Len(PyParts)) = FlattenSeq(PyParts)
    BY <1>2, <1>3, JoinedAll
  <1>. QED
    BY <1>2, <1>3, <1>4

(* The one-shot encoder, given the counted bytes, returns this container.  *)
LEMMA PyOneShotAgrees ==
  ASSUME PyArgs, PyLegal
  PROVE  ContainerOf(Spooled).out = PyWhole
  <1>. DEFINE meta == EncodeMetadata(entries)
              size == encoding.chunk_size
  <1>1. size # 0 /\ meta.ok /\ (Encrypted => Len(encoding.key) = KeyLen)
        /\ (entries # <<>>) = (meta.region # <<>>) /\ validate(HeaderOf(base)) = NoError
    <2>1. size \in 1..MaxU32
      BY LegalArgs
    <2>2. size # 0
      BY <2>1
    <2>. QED
      BY <2>2, LegalArgs DEF PyMeta
  <1>2. Len(Spooled) = totalSize
    BY SpooledFacts
  <1>3. CASE ~Encrypted
    <2>1. HeaderOf(base) = PlainHeader(size, Len(Spooled), meta.region # <<>>)
      BY <1>1, <1>2, <1>3 DEF HeaderOf
    <2>2. ContainerOf(Spooled) = EncodePlain(Spooled, entries, size)
      BY <1>3 DEF ContainerOf
    <2>3. PyWhole = Container(NoKey, HeaderCell(HeaderOf(base)), meta.region, ChunksOf(Spooled, size))
      BY <1>3 DEF PyWhole, PyRootKey, PyHead, PyMeta, PyBodies
    <2>. HIDE DEF size
    <2>. QED
      BY <1>1, <2>1, <2>2, <2>3 DEF EncodePlain, Encoded
  <1>4. CASE Encrypted
    <2>1. HeaderOf(base) = EncryptedHeader(size, Len(Spooled), meta.region # <<>>, base)
      BY <1>1, <1>2, <1>4 DEF HeaderOf
    <2>2. ContainerOf(Spooled)
            = EncodeEncryptedWithFixedNonce(Spooled, encoding.key, base, entries, size)
      BY <1>4 DEF ContainerOf
    <2>3. PyWhole = Container(rootKey(encoding.key, base), HeaderCell(HeaderOf(base)), meta.region,
                              SealedChunks(encoding.key, base, HeaderCell(HeaderOf(base)),
                                           meta.region, ChunksOf(Spooled, size)))
      BY <1>4 DEF PyWhole, PyRootKey, PyHead, PyMeta, PyBodies
    <2>. HIDE DEF meta, size
    <2>. QED
      BY <1>1, <1>4, <2>1, <2>2, <2>3 DEF EncodeEncryptedWithFixedNonce, SealedChunks, meta, Encoded
  <1>. QED
    BY <1>3, <1>4

-----------------------------------------------------------------------------
(* The invariant of the encoder.  While close writes, the sink has the     *)
(* first pieces of the container and `pieces` the rest; afterwards it has  *)
(* nothing, close having refused the header, or the beginning of one       *)
(* container, all of it when nothing was raised.                           *)
PyHalfway ==
  /\ PyLegal /\ outcome = NoError
  /\ \E k \in 0..Len(PyParts) - 1 : /\ sink = Joined(PyParts, k)
                                    /\ pieces = SubSeq(PyParts, k + 1, Len(PyParts))

PyEnded ==
  \/ sink = <<>> /\ outcome # NoError
  \/ /\ PyLegal /\ sink \in Seq(Cells) /\ Begins(sink, PyWhole, Cells)
     /\ outcome = NoError => sink = PyWhole

PySinkInv ==
  /\ PyArgs /\ closed \in BOOLEAN
  /\ ~closed => sink = <<>> /\ encPhase \in {"new", "refused", "idle"}
  /\ closed => encPhase \in {"idle", "closing", "finally"}
  /\ encPhase = "closing" => PyHalfway
  /\ closed /\ encPhase # "closing" => PyEnded

PyFixed == UNCHANGED <<entries, encoding, spool, totalSize, base>>

LEMMA PyFixedFacts ==
  ASSUME PyFixed
  PROVE  PyParts' = PyParts /\ PyWhole' = PyWhole /\ PyLegal' = PyLegal
         /\ (PyArgs /\ (encPhase' \in {"new", "refused"} \/ encPhase \notin {"new", "refused"}) => PyArgs')
  <1>1. PyParts' = PyParts
    BY DEF PyFixed, PyParts, PiecesOf, HeaderOf, Encrypted, Spooled
  <1>2. PyWhole' = PyWhole
    BY DEF PyFixed, PyWhole, PyRootKey, PyHead, PyMeta, PyBodies, HeaderOf, Encrypted, Spooled
  <1>3. PyLegal' = PyLegal
    BY DEF PyFixed, PyLegal, OptionsError, HeaderOf, Encrypted
  <1>4. ASSUME PyArgs, encPhase' \in {"new", "refused"} \/ encPhase \notin {"new", "refused"}
        PROVE  PyArgs'
    <2>1. OptionsError' = OptionsError
      BY DEF PyFixed, OptionsError
    <2>. QED
      BY <1>4, <2>1 DEF PyFixed, PyArgs
  <1>. QED
    BY <1>1, <1>2, <1>3, <1>4

LEMMA PyEndedKept ==
  ASSUME PyFixed, sink' = sink, outcome' = outcome
  PROVE  PyEnded' = PyEnded
  BY PyFixedFacts DEF PyEnded

LEMMA PySinkInit == EncInit => PySinkInv
  <1>. SUFFICES ASSUME EncInit
                PROVE  PySinkInv
    OBVIOUS
  <1>1. Metadata \subseteq Seq(Entry)
    BY PyEncoderAssumption DEF Entry
  <1>2. entries \in Seq(Entry)
        /\ encoding \in [chunk_size : 0..MaxU32, key : Seq(Nat), base_nonce : Nat \cup {NoNonce}]
    BY <1>1, PyEncoderAssumption DEF EncInit
  <1>3. encPhase = "new" /\ spool = <<>> /\ totalSize = 0 /\ closed = FALSE /\ sink = <<>>
    BY DEF EncInit
  <1>4. <<>> \in Seq(NumCells) /\ Len(<<>>) = 0
    OBVIOUS
  <1>5. PyArgs
    BY <1>2, <1>3, <1>4 DEF PyArgs
  <1>. QED
    BY <1>3, <1>5 DEF PySinkInv

(* What construction, the writes and the refused calls leave alone.        *)
LEMMA PySinkConstruct == PySinkInv /\ EncConstruct => PySinkInv'
  <1>1. SUFFICES ASSUME PySinkInv, EncConstruct
                 PROVE  PySinkInv'
    OBVIOUS
  <1>2. encPhase = "new" /\ ~closed /\ sink = <<>> /\ PyArgs /\ closed' = closed /\ sink' = sink
        /\ UNCHANGED <<entries, encoding, spool, totalSize>>
    BY <1>1 DEF PySinkInv, EncConstruct, argVars, fileVars
  <1>3. encPhase' = "refused" \/ (encPhase' = "idle" /\ OptionsError = NoError)
    <2>1. PICK error \in IF OptionsError = NoError THEN {NoError, Failure} ELSE {OptionsError} :
            encPhase' = IF error = NoError THEN "idle" ELSE "refused"
      BY <1>1 DEF EncConstruct
    <2>2. Failure # NoError
      BY DEF Failure, NoError
    <2>. QED
      BY <2>1, <2>2
  <1>4. OptionsError' = OptionsError
    BY <1>2 DEF OptionsError
  <1>5. PyArgs'
    BY <1>2, <1>3, <1>4 DEF PyArgs
  <1>. QED
    BY <1>1, <1>2, <1>3, <1>5 DEF PySinkInv

LEMMA PySinkWrites == PySinkInv /\ Write => PySinkInv'
  <1>1. SUFFICES ASSUME PySinkInv, Write
                 PROVE  PySinkInv'
    OBVIOUS
  <1>2. CASE WriteRefused
    <2>1. PyFixed /\ encPhase = "idle" /\ encPhase' = encPhase /\ closed' = closed /\ sink' = sink
          /\ outcome' = outcome /\ closed
      BY <1>2 DEF WriteRefused, Writable, PyFixed, argVars
    <2>2. PyArgs'
      BY <1>1, <2>1, PyFixedFacts DEF PySinkInv
    <2>. QED
      BY <1>1, <2>1, <2>2, PyEndedKept DEF PySinkInv
  <1>3. ASSUME NEW data \in Buffers, WriteReturns(data) \/ WriteRaises(data)
        PROVE  PySinkInv'
    <2>1. encPhase = "idle" /\ encPhase' = encPhase /\ ~closed /\ closed' = closed /\ sink' = sink
          /\ UNCHANGED <<entries, encoding>> /\ PyArgs /\ sink = <<>>
      BY <1>1, <1>3 DEF WriteReturns, WriteRaises, Writable, PySinkInv, argVars
    <2>2. spool \in Seq(NumCells) /\ totalSize \in Nat /\ totalSize <= Len(spool)
      BY <2>1 DEF PyArgs
    <2>3. data \in Seq(NumCells)
      BY PyEncoderAssumption
    <2>4. spool' \in Seq(NumCells) /\ totalSize' \in Nat /\ totalSize' <= Len(spool')
      <3>1. CASE WriteReturns(data)
        <4>1. spool' = spool \o data /\ totalSize' = totalSize + Len(data)
          BY <3>1 DEF WriteReturns
        <4>. QED
          BY <2>2, <2>3, <4>1, ConcatProperties
      <3>2. CASE WriteRaises(data)
        <4>1. PICK n \in 0..Len(data) : spool' = spool \o SubSeq(data, 1, n)
          BY <3>2 DEF WriteRaises
        <4>2. totalSize' = totalSize
          BY <3>2 DEF WriteRaises
        <4>3. SubSeq(data, 1, n) \in Seq(NumCells)
          BY <2>3, PartOf
        <4>. HIDE DEF NumCells
        <4>. DEFINE part == SubSeq(data, 1, n)
        <4>4. part \in Seq(NumCells) /\ spool' = spool \o part
          BY <4>1, <4>3
        <4>. HIDE DEF part
        <4>5. spool' \in Seq(NumCells) /\ Len(spool') = Len(spool) + Len(part) /\ Len(part) \in Nat
              /\ Len(spool) \in Nat
          BY <2>2, <4>4, ConcatProperties
        <4>. QED
          BY <2>2, <4>2, <4>5
      <3>. QED
        BY <1>3, <3>1, <3>2
    <2>5. OptionsError' = OptionsError
      BY <2>1 DEF OptionsError
    <2>6. PyArgs'
      BY <2>1, <2>4, <2>5 DEF PyArgs
    <2>. QED
      BY <1>1, <2>1, <2>6 DEF PySinkInv
  <1>. QED
    BY <1>1, <1>2, <1>3 DEF Write

LEMMA PySinkRefused == PySinkInv /\ CloseRefused => PySinkInv'
  <1>1. SUFFICES ASSUME PySinkInv, CloseRefused
                 PROVE  PySinkInv'
    OBVIOUS
  <1>2. PyFixed /\ encPhase = "idle" /\ encPhase' = encPhase /\ closed' = closed /\ sink' = sink
        /\ outcome' = outcome /\ closed
    BY <1>1 DEF CloseRefused, PyFixed, argVars, fileVars
  <1>3. PyArgs'
    BY <1>1, <1>2, PyFixedFacts DEF PySinkInv
  <1>. QED
    BY <1>1, <1>2, <1>3, PyEndedKept DEF PySinkInv

LEMMA PartsTyped ==
  PyArgs /\ PyLegal => PyParts \in Seq(Seq(Cells)) /\ Len(PyParts) \in Nat \ {0}
  BY PartsFacts

LEMMA PartsNext ==
  PyArgs' /\ PyLegal' => PyParts' \in Seq(Seq(Cells)) /\ Len(PyParts') \in Nat \ {0}
  <1>1. (PyArgs /\ PyLegal => PyParts \in Seq(Seq(Cells)) /\ Len(PyParts) \in Nat \ {0})'
    BY PartsTyped, PTL
  <1>. QED
    BY <1>1

(* Close takes a base nonce: the header is legal or nothing is written.    *)
LEMMA PySinkStarts == PySinkInv /\ CloseStarts => PySinkInv'
  <1>1. SUFFICES ASSUME PySinkInv, CloseStarts
                 PROVE  PySinkInv'
    OBVIOUS
  <1>2. /\ encPhase = "idle" /\ ~closed /\ closed' = TRUE /\ sink = <<>> /\ sink' = sink /\ PyArgs
        /\ UNCHANGED <<entries, encoding, spool, totalSize>>
    BY <1>1 DEF PySinkInv, CloseStarts, argVars, fileVars
  <1>3. OptionsError = NoError
    BY <1>2 DEF PyArgs
  <1>4. PyArgs' /\ OptionsError' = NoError
    <2>1. OptionsError' = OptionsError
      BY <1>2 DEF OptionsError
    <2>. QED
      BY <1>2, <1>3, <2>1 DEF PyArgs
  <1>5. base' \in Nat
    <2>1. base' \in Nonces
      BY <1>1 DEF CloseStarts
    <2>2. Nonces \subseteq Nat
      <3>1. encoding.base_nonce \in Nat \cup {NoNonce}
        BY <1>2 DEF PyArgs
      <3>2. 0 \in Nat
        OBVIOUS
      <3>. QED
        BY <3>1, <3>2, PyEncoderAssumption DEF Nonces, ZeroNonce
    <2>. QED
      BY <2>1, <2>2
  <1>6. HeaderOf(base)' = HeaderOf(base')
    BY <1>2 DEF HeaderOf, Encrypted
  <1>7. outcome' = HeaderError(HeaderOf(base))' /\ PyParts' = PiecesOf(base')
    <2>1. HeaderError(HeaderOf(base))' = HeaderError(HeaderOf(base'))
      BY <1>6 DEF HeaderError
    <2>2. PyParts' = PiecesOf(base')
      BY <1>2 DEF PyParts, PiecesOf, HeaderOf, Encrypted, Spooled
    <2>. QED
      BY <1>1, <2>1, <2>2 DEF CloseStarts
  <1>8. CASE outcome' = NoError
    <2>1. PyLegal'
      BY <1>4, <1>5, <1>7, <1>8 DEF PyLegal
    <2>2. encPhase' = "closing" /\ pieces' = PiecesOf(base')
      BY <1>1, <1>8 DEF CloseStarts
    <2>3. PyParts' \in Seq(Seq(Cells)) /\ Len(PyParts') \in Nat \ {0}
      BY <1>4, <2>1, PartsNext
    <2>4. 0 \in 0..Len(PyParts') - 1 /\ Joined(PyParts', 0) = <<>>
          /\ SubSeq(PyParts', 0 + 1, Len(PyParts')) = PyParts'
      BY <2>3, JoinedNone, SubSeqFull
    <2>5. PyHalfway'
      BY <1>2, <1>7, <1>8, <2>1, <2>2, <2>4 DEF PyHalfway
    <2>. QED
      BY <1>2, <1>4, <2>2, <2>5 DEF PySinkInv
  <1>9. CASE outcome' # NoError
    <2>1. encPhase' = "finally"
      BY <1>1, <1>9 DEF CloseStarts
    <2>. QED
      BY <1>2, <1>4, <1>9, <2>1 DEF PySinkInv, PyEnded
  <1>. QED
    BY <1>8, <1>9

(* Halfway, the piece that comes next follows what the sink has.           *)
LEMMA PyNextPiece ==
  ASSUME PySinkInv, encPhase = "closing"
  PROVE  /\ closed /\ PyArgs /\ PyLegal /\ outcome = NoError
         /\ Head(pieces) \in Seq(Cells) /\ sink \in Seq(Cells)
         /\ sink \o Head(pieces) \in Seq(Cells) /\ Begins(sink \o Head(pieces), PyWhole, Cells)
         /\ \/ Tail(pieces) = <<>> /\ sink \o Head(pieces) = PyWhole
            \/ /\ Tail(pieces) # <<>>
               /\ \E k \in 0..Len(PyParts) - 1 : /\ sink \o Head(pieces) = Joined(PyParts, k)
                                                 /\ Tail(pieces) = SubSeq(PyParts, k + 1, Len(PyParts))
  <1>1. closed /\ PyArgs /\ PyLegal /\ outcome = NoError
    BY DEF PySinkInv, PyHalfway
  <1>2. PICK k \in 0..Len(PyParts) - 1 : /\ sink = Joined(PyParts, k)
                                         /\ pieces = SubSeq(PyParts, k + 1, Len(PyParts))
    BY DEF PySinkInv, PyHalfway
  <1>3. /\ PyParts \in Seq(Seq(Cells)) /\ Len(PyParts) \in Nat \ {0}
        /\ Joined(PyParts, Len(PyParts)) = PyWhole /\ PyWhole \in Seq(Cells)
    BY <1>1, PartsFacts
  <1>. DEFINE parts == PyParts
              n == Len(parts)
  <1>4. parts \in Seq(Seq(Cells)) /\ n \in Nat \ {0} /\ n = Len(parts) /\ k \in 0..n - 1
    BY <1>2, <1>3
  <1>. HIDE DEF Cells
  <1>5. Head(pieces) = parts[k + 1] /\ Tail(pieces) = SubSeq(parts, k + 2, n)
    <2>1. k + 1 \in 1..Len(parts) /\ Len(parts) \in k + 1..Len(parts)
      BY <1>4
    <2>2. /\ Head(SubSeq(parts, k + 1, Len(parts))) = parts[k + 1]
          /\ Tail(SubSeq(parts, k + 1, Len(parts))) = SubSeq(parts, (k + 1) + 1, Len(parts))
      BY <1>4, <2>1, HeadTailOfSubSeq
    <2>3. (k + 1) + 1 = k + 2
      BY <1>4
    <2>. QED
      BY <1>2, <2>2, <2>3
  <1>6. /\ k \in 0..Len(parts) - 1 /\ k \in 0..Len(parts) /\ k + 1 \in 0..Len(parts)
        /\ k + 1 \in 1..Len(parts) /\ Len(parts) \in k + 1..Len(parts)
    BY <1>4
  <1>. HIDE DEF parts, n
  <1>7. parts[k + 1] \in Seq(Cells) /\ Joined(parts, k) \in Seq(Cells)
        /\ Joined(parts, k + 1) \in Seq(Cells)
        /\ Joined(parts, k + 1) = Joined(parts, k) \o parts[k + 1]
        /\ Begins(Joined(parts, k + 1), Joined(parts, Len(parts)), Cells)
    <2>1. parts[k + 1] \in Seq(Cells)
      BY <1>4, <1>6
    <2>2. Joined(parts, k) \in Seq(Cells) /\ Joined(parts, k + 1) \in Seq(Cells)
      BY <1>4, <1>6, JoinedIsSeq
    <2>3. Joined(parts, k + 1) = Joined(parts, k) \o parts[k + 1]
      BY <1>4, <1>6, JoinedNext
    <2>4. Begins(Joined(parts, k + 1), Joined(parts, Len(parts)), Cells)
      BY <1>4, <1>6, JoinedBegins
    <2>. QED
      BY <2>1, <2>2, <2>3, <2>4
  <1>8. sink = Joined(parts, k) /\ PyWhole = Joined(parts, Len(parts))
    BY <1>2, <1>3 DEF parts
  <1>9. \/ Tail(pieces) = <<>> /\ sink \o Head(pieces) = PyWhole
        \/ /\ Tail(pieces) # <<>>
           /\ \E m \in 0..Len(parts) - 1 : /\ sink \o Head(pieces) = Joined(parts, m)
                                           /\ Tail(pieces) = SubSeq(parts, m + 1, Len(parts))
    <2>1. sink \o Head(pieces) = Joined(parts, k + 1)
      BY <1>5, <1>7, <1>8
    <2>2. CASE k + 1 = n
      <3>1. SubSeq(parts, k + 2, n) = <<>>
        <4>1. k + 2 > n /\ k + 2 \in Nat /\ k + 2 >= 1 /\ n <= Len(parts) /\ n \in Nat
          BY <1>4, <2>2
        <4>2. Len(SubSeq(parts, k + 2, n)) = 0 /\ SubSeq(parts, k + 2, n) \in Seq(Seq(Cells))
          BY <1>4, <4>1, PartOf
        <4>. QED
          BY <4>2, EmptySeq
      <3>. QED
        BY <1>4, <1>5, <1>8, <2>1, <2>2, <3>1
    <2>3. CASE k + 1 # n
      <3>1. k + 2 <= n /\ k + 2 \in Nat /\ k + 2 >= 1 /\ n <= Len(parts) /\ n \in Nat
            /\ k + 1 \in 0..Len(parts) - 1 /\ (k + 1) + 1 = k + 2 /\ n - (k + 2) + 1 # 0
        BY <1>4, <2>3
      <3>2. Len(SubSeq(parts, k + 2, n)) = n - (k + 2) + 1
        BY <1>4, <3>1, PartOf
      <3>3. SubSeq(parts, k + 2, n) # <<>>
        <4>1. Len(<<>>) = 0
          OBVIOUS
        <4>. QED
          BY <3>1, <3>2, <4>1
      <3>. QED
        BY <1>4, <1>5, <2>1, <3>1, <3>3
    <2>. QED
      BY <2>2, <2>3
  <1>. QED
    BY <1>1, <1>5, <1>7, <1>8, <1>9 DEF parts

LEMMA PySinkPiece == PySinkInv /\ PieceWritten => PySinkInv'
  <1>1. SUFFICES ASSUME PySinkInv, PieceWritten
                 PROVE  PySinkInv'
    OBVIOUS
  <1>2. /\ encPhase = "closing" /\ sink' = sink \o Head(pieces) /\ pieces' = Tail(pieces)
        /\ closed' = closed /\ outcome' = outcome /\ PyFixed
    BY <1>1 DEF PieceWritten, PyFixed, argVars, fileVars
  <1>3. closed /\ PyArgs /\ PyLegal /\ outcome = NoError
        /\ sink \o Head(pieces) \in Seq(Cells) /\ Begins(sink \o Head(pieces), PyWhole, Cells)
    BY <1>1, <1>2, PyNextPiece
  <1>4. PyParts' = PyParts /\ PyWhole' = PyWhole /\ PyLegal' /\ PyArgs'
    BY <1>2, <1>3, PyFixedFacts
  <1>5. CASE Tail(pieces) = <<>>
    <2>1. sink \o Head(pieces) = PyWhole
      BY <1>1, <1>2, <1>5, PyNextPiece
    <2>2. encPhase' = "finally"
      BY <1>1, <1>2, <1>5 DEF PieceWritten
    <2>3. PyEnded'
      BY <1>2, <1>3, <1>4, <2>1 DEF PyEnded
    <2>. QED
      BY <1>2, <1>3, <1>4, <2>2, <2>3 DEF PySinkInv
  <1>6. CASE Tail(pieces) # <<>>
    <2>1. PICK k \in 0..Len(PyParts) - 1 : /\ sink \o Head(pieces) = Joined(PyParts, k)
                                           /\ Tail(pieces) = SubSeq(PyParts, k + 1, Len(PyParts))
      BY <1>1, <1>2, <1>6, PyNextPiece
    <2>2. encPhase' = "closing"
      BY <1>1, <1>2, <1>6 DEF PieceWritten
    <2>3. PyHalfway'
      BY <1>2, <1>3, <1>4, <2>1 DEF PyHalfway
    <2>. QED
      BY <1>2, <1>3, <1>4, <2>2, <2>3 DEF PySinkInv
  <1>. QED
    BY <1>5, <1>6

LEMMA PySinkBreaks == PySinkInv /\ PieceBreaks => PySinkInv'
  <1>1. SUFFICES ASSUME PySinkInv, PieceBreaks
                 PROVE  PySinkInv'
    OBVIOUS
  <1>2. /\ encPhase = "closing" /\ encPhase' = "finally" /\ outcome' = Failure
        /\ closed' = closed /\ PyFixed
    BY <1>1 DEF PieceBreaks, PyFixed, argVars, fileVars
  <1>3. PICK n \in 0..Len(Head(pieces)) - 1 : sink' = sink \o SubSeq(Head(pieces), 1, n)
    BY <1>1 DEF PieceBreaks
  <1>4. /\ closed /\ PyArgs /\ PyLegal /\ Head(pieces) \in Seq(Cells) /\ sink \in Seq(Cells)
        /\ Begins(sink \o Head(pieces), PyWhole, Cells)
    BY <1>1, <1>2, PyNextPiece
  <1>5. /\ SubSeq(Head(pieces), 1, n) \in Seq(Cells)
        /\ Begins(sink \o SubSeq(Head(pieces), 1, n), PyWhole, Cells)
    <2>1. n \in 0..Len(Head(pieces))
      BY <1>4
    <2>. HIDE DEF Cells
    <2>. QED
      BY <1>4, <2>1, BeginsWithPart
  <1>6. sink' \in Seq(Cells)
    <2>. HIDE DEF Cells
    <2>. DEFINE part == SubSeq(Head(pieces), 1, n)
    <2>1. part \in Seq(Cells) /\ sink' = sink \o part
      BY <1>3, <1>5
    <2>. HIDE DEF part
    <2>. QED
      BY <1>4, <2>1, ConcatProperties
  <1>7. PyWhole' = PyWhole /\ PyLegal' /\ PyArgs'
    BY <1>2, <1>4, PyFixedFacts
  <1>8. Failure # NoError
    BY DEF Failure, NoError
  <1>9. PyEnded'
    BY <1>2, <1>3, <1>5, <1>6, <1>7, <1>8 DEF PyEnded
  <1>. QED
    BY <1>2, <1>4, <1>7, <1>9 DEF PySinkInv

LEMMA PySinkReturns == PySinkInv /\ CloseReturns => PySinkInv'
  <1>1. SUFFICES ASSUME PySinkInv, CloseReturns
                 PROVE  PySinkInv'
    OBVIOUS
  <1>2. encPhase = "finally" /\ encPhase' = "idle" /\ closed' = closed /\ sink' = sink /\ PyFixed
    BY <1>1 DEF CloseReturns, PyFixed, argVars, fileVars
  <1>3. outcome' = outcome \/ outcome' = Failure
    BY <1>1 DEF CloseReturns, FinalOutcome
  <1>4. closed /\ PyArgs /\ PyEnded
    BY <1>1, <1>2 DEF PySinkInv
  <1>5. PyWhole' = PyWhole /\ PyLegal' = PyLegal /\ PyArgs'
    BY <1>2, <1>4, PyFixedFacts
  <1>6. Failure # NoError
    BY DEF Failure, NoError
  <1>7. PyEnded'
    BY <1>2, <1>3, <1>4, <1>5, <1>6 DEF PyEnded
  <1>. QED
    BY <1>2, <1>4, <1>5, <1>7 DEF PySinkInv

LEMMA PySinkStep == PySinkInv /\ [EncNext]_encVars => PySinkInv'
  <1>1. ASSUME PySinkInv, UNCHANGED encVars
        PROVE  PySinkInv'
    <2>1. PyFixed /\ UNCHANGED <<encPhase, closed, sink, pieces, outcome>>
      BY <1>1 DEF encVars, PyFixed, argVars, fileVars
    <2>2. PyArgs' /\ PyEnded' = PyEnded
      BY <1>1, <2>1, PyFixedFacts, PyEndedKept DEF PySinkInv
    <2>3. PyHalfway' = PyHalfway
      BY <2>1, PyFixedFacts DEF PyHalfway
    <2>. QED
      BY <1>1, <2>1, <2>2, <2>3 DEF PySinkInv
  <1>2. EncNext => \/ EncConstruct \/ Write \/ CloseRefused \/ CloseStarts
                   \/ PieceWritten \/ PieceBreaks \/ CloseReturns
    BY DEF EncNext, Close, Closing
  <1>. QED
    BY <1>1, <1>2, PySinkConstruct, PySinkWrites, PySinkRefused, PySinkStarts, PySinkPiece,
       PySinkBreaks, PySinkReturns

(* A prefix of the one container, and all of it when close returned.       *)
LEMMA PySinkIsOne == PySinkInv => SinkHoldsOneContainer
  <1>1. SUFFICES ASSUME PySinkInv, closed, sink # <<>>
                 PROVE  /\ IsPrefix(sink, ContainerOf(Spooled).out)
                        /\ Closed => sink = ContainerOf(Spooled).out
    BY DEF SinkHoldsOneContainer
  <1>2. PyArgs
    BY <1>1 DEF PySinkInv
  <1>3. PyLegal /\ sink \in Seq(Cells) /\ Begins(sink, PyWhole, Cells) /\ (Closed => sink = PyWhole)
    <2>1. CASE encPhase = "closing"
      <3>1. PyLegal /\ sink \in Seq(Cells) /\ Head(pieces) \in Seq(Cells)
            /\ Begins(sink \o Head(pieces), PyWhole, Cells)
        BY <1>1, <2>1, PyNextPiece
      <3>2. Begins(sink, PyWhole, Cells)
        <4>. HIDE DEF Cells
        <4>. QED
          BY <3>1, BeginsShorter
      <3>3. ~Closed
        BY <2>1 DEF Closed
      <3>. QED
        BY <3>1, <3>2, <3>3
    <2>2. CASE encPhase # "closing"
      BY <1>1, <2>2 DEF PySinkInv, PyEnded, Closed
    <2>. QED
      BY <2>1, <2>2
  <1>4. PyWhole \in Seq(Cells) /\ ContainerOf(Spooled).out = PyWhole
    BY <1>2, <1>3, PartsFacts, PyOneShotAgrees
  <1>5. IsPrefix(sink, PyWhole)
    BY <1>3, <1>4, BeginsIsPrefix
  <1>. QED
    BY <1>3, <1>4, <1>5

(* Wherever the sink of the Python Encoder stops, raises or takes only a   *)
(* part of a piece, and whatever writes to the spool failed before, what   *)
(* it holds is a prefix of the one container that the one-shot encoder     *)
(* makes of the counted bytes with the base nonce close took; and close    *)
(* returns without an exception only when the sink holds all of it.        *)
THEOREM PySinkHolds == EncSpec => []SinkHoldsOneContainer
  BY PySinkInit, PySinkStep, PySinkIsOne, PTL DEF EncSpec

(* What close writes is what a one-shot encoder makes of the counted bytes *)
(* and the base nonce it took.                                             *)
PlainMade == EncodePlain(Spooled, entries, encoding.chunk_size)

SealedMade ==
  EncodeEncryptedWithFixedNonce(Spooled, encoding.key, base, entries, encoding.chunk_size)

LEMMA PyContainerMade ==
  ASSUME PyArgs, PyLegal
  PROVE  /\ entries \in Seq(Entry) /\ encoding.chunk_size \in 0..MaxU32
         /\ encoding.key \in Seq(Nat) /\ base \in Nat
         /\ Spooled \in Seq(NumCells) /\ Len(Spooled) <= MaxU64
         /\ ~Encrypted => PlainMade.err = NoError /\ PlainMade.out = PyWhole
         /\ Encrypted => SealedMade.err = NoError /\ SealedMade.out = PyWhole
  <1>2. ContainerOf(Spooled).out = PyWhole
    BY PyOneShotAgrees
  <1>3. /\ encoding.chunk_size \in 0..MaxU32 /\ encoding.chunk_size # 0
        /\ encoding.key \in Seq(Nat) /\ base \in Nat
        /\ (Encrypted => Len(encoding.key) = KeyLen)
        /\ EncodeMetadata(entries).ok /\ (entries # <<>>) = (EncodeMetadata(entries).region # <<>>)
        /\ validate(HeaderOf(base)) = NoError
    <2>. DEFINE size == encoding.chunk_size
    <2>1. size \in 1..MaxU32
      BY LegalArgs
    <2>. HIDE DEF size
    <2>2. size \in 0..MaxU32 /\ size # 0
      BY <2>1, WidthAssumption
    <2>3. encoding.chunk_size \in 0..MaxU32 /\ encoding.chunk_size # 0
      BY <2>2 DEF size
    <2>. QED
      BY <2>3, LegalArgs DEF PyMeta
  <1>4. Spooled \in Seq(NumCells) /\ Len(Spooled) = totalSize /\ Len(Spooled) <= MaxU64
    <2>1. Spooled \in Seq(NumCells) /\ Len(Spooled) = totalSize
      BY SpooledFacts
    <2>2. totalSize \in 0..MaxU64
      BY LegalArgs
    <2>3. totalSize <= MaxU64
      BY <2>2, WidthAssumption
    <2>. QED
      BY <2>1, <2>3, Zenon
  <1>5. entries \in Seq(Entry)
    BY DEF PyArgs
  <1>6. CASE ~Encrypted
    <2>. DEFINE h == PlainHeader(encoding.chunk_size, Len(Spooled), EncodeMetadata(entries).region # <<>>)
    <2>1. ContainerOf(Spooled) = PlainMade
      BY <1>6, Zenon DEF ContainerOf, PlainMade
    <2>2. HeaderOf(base) = h
      BY <1>3, <1>4, <1>6, Zenon DEF HeaderOf
    <2>3. validate(h) = NoError
      BY <1>3, <2>2, Zenon
    <2>4. PlainMade = Encoded(Container(NoKey, HeaderCell(h), EncodeMetadata(entries).region,
                                        ChunksOf(Spooled, encoding.chunk_size)))
      BY <1>3, <2>3, Zenon DEF EncodePlain, PlainMade
    <2>5. PlainMade.err = NoError
      BY <2>4 DEF Encoded
    <2>. QED
      BY <1>2, <1>3, <1>4, <1>5, <1>6, <2>1, <2>5, Zenon
  <1>7. CASE Encrypted
    <2>. DEFINE h == EncryptedHeader(encoding.chunk_size, Len(Spooled),
                                     EncodeMetadata(entries).region # <<>>, base)
                chunks == ChunksOf(Spooled, encoding.chunk_size)
    <2>1. ContainerOf(Spooled) = SealedMade
      BY <1>7, Zenon DEF ContainerOf, SealedMade
    <2>2. HeaderOf(base) = h
      BY <1>3, <1>4, <1>7, Zenon DEF HeaderOf
    <2>3. validate(h) = NoError /\ Len(encoding.key) = KeyLen
      BY <1>3, <1>7, <2>2, Zenon
    <2>4. SealedMade = Encoded(Container(rootKey(encoding.key, base), HeaderCell(h),
                                         EncodeMetadata(entries).region,
                                         SealedChunks(encoding.key, base, HeaderCell(h),
                                                      EncodeMetadata(entries).region, chunks)))
      BY <1>3, <2>3, Zenon DEF EncodeEncryptedWithFixedNonce, SealedChunks, SealedMade
    <2>5. SealedMade.err = NoError
      BY <2>4 DEF Encoded
    <2>. QED
      BY <1>2, <1>3, <1>4, <1>5, <1>7, <2>1, <2>5, Zenon
  <1>. QED
    BY <1>6, <1>7

(* What close reported as written decodes to what the file had counted and *)
(* to all of the metadata in ascending order of tags.                      *)
CloseDecodes == Closed => DecodesBack(sink, encoding.key, Uncapped, Spooled, entries)

LEMMA PyClosedIsRead ==
  ASSUME PySinkInv, Closed
  PROVE  DecodesBack(sink, encoding.key, Uncapped, Spooled, entries)
  <1>1. PyArgs /\ PyLegal /\ sink = PyWhole
    BY DEF PySinkInv, PyEnded, Closed
  <1>2. AmpleCaps(Uncapped)
    BY DEF AmpleCaps, Uncapped
  <1>3. CASE ~Encrypted
    BY <1>1, <1>2, <1>3, PyContainerMade, PlainDecodes, Zenon DEF PlainMade
  <1>4. CASE Encrypted
    BY <1>1, <1>2, <1>4, PyContainerMade, EncryptedDecodes, Zenon DEF SealedMade
  <1>. QED
    BY <1>3, <1>4

(* When close of the Python Encoder has returned, decodeBytes accepts      *)
(* what is in the sink, and gives the content of the temporary file.       *)
THEOREM PyCloseDecodes == EncSpec => []CloseDecodes
  <1>1. PySinkInv => CloseDecodes
    BY PyClosedIsRead DEF CloseDecodes
  <1>. QED
    BY <1>1, PySinkInit, PySinkStep, PTL DEF EncSpec

(* What the file holds, if no write that raised stored anything, is what   *)
(* the writes that returned were given.                                    *)
PyUntorn ==
  /\ accepted \in Seq(NumCells) /\ spool \in Seq(NumCells) /\ torn \in BOOLEAN
  /\ totalSize = Len(accepted) /\ (~torn => spool = accepted)

LEMMA PyUntornInit == EncInit => PyUntorn
  <1>. SUFFICES ASSUME EncInit
                PROVE  PyUntorn
    OBVIOUS
  <1>1. accepted = <<>> /\ spool = <<>> /\ torn = FALSE /\ totalSize = 0
    BY DEF EncInit
  <1>. QED
    BY <1>1, EmptySeq DEF PyUntorn

LEMMA PyUntornStep == PyUntorn /\ [EncNext]_encVars => PyUntorn'
  <1>. SUFFICES ASSUME PyUntorn, [EncNext]_encVars
                PROVE  PyUntorn'
    OBVIOUS
  <1>1. CASE UNCHANGED <<spool, totalSize, accepted, torn>>
    BY <1>1 DEF PyUntorn
  <1>2. ASSUME NEW d \in Buffers, WriteReturns(d)
        PROVE  PyUntorn'
    <2>1. d \in Seq(NumCells)
      BY PyEncoderAssumption
    <2>2. spool' = spool \o d /\ totalSize' = totalSize + Len(d) /\ accepted' = accepted \o d /\ torn' = torn
      BY <1>2 DEF WriteReturns
    <2>3. accepted \in Seq(NumCells) /\ spool \in Seq(NumCells) /\ torn \in BOOLEAN
          /\ totalSize = Len(accepted) /\ (~torn => spool = accepted)
      BY DEF PyUntorn
    <2>4. accepted \o d \in Seq(NumCells) /\ spool \o d \in Seq(NumCells)
          /\ Len(accepted \o d) = Len(accepted) + Len(d)
      BY <2>1, <2>3, ConcatProperties
    <2>. QED
      BY <2>2, <2>3, <2>4 DEF PyUntorn
  <1>3. ASSUME NEW d \in Buffers, WriteRaises(d)
        PROVE  PyUntorn'
    <2>1. PICK n \in 0..Len(d) : spool' = spool \o SubSeq(d, 1, n) /\ torn' = (torn \/ n > 0)
      BY <1>3 DEF WriteRaises
    <2>2. totalSize' = totalSize /\ accepted' = accepted
      BY <1>3 DEF WriteRaises
    <2>3. accepted \in Seq(NumCells) /\ spool \in Seq(NumCells) /\ torn \in BOOLEAN
          /\ totalSize = Len(accepted) /\ (~torn => spool = accepted) /\ d \in Seq(NumCells)
      BY PyEncoderAssumption DEF PyUntorn
    <2>. DEFINE part == SubSeq(d, 1, n)
    <2>4. part \in Seq(NumCells) /\ (n = 0 => part = <<>>)
      BY <2>3
    <2>. HIDE DEF part
    <2>5. spool \o part \in Seq(NumCells) /\ (n = 0 => spool \o part = spool)
      BY <2>3, <2>4, ConcatProperties, ConcatEmptySeq
    <2>6. spool' = spool \o part /\ (~torn' => ~torn /\ n = 0) /\ torn' \in BOOLEAN
      <3>1. n > 0 \/ n = 0
        <4>1. Len(d) \in Nat
          BY <2>3, LenProperties
        <4>. QED
          BY <4>1
      <3>2. (torn \/ n > 0) \in BOOLEAN
        BY Zenon
      <3>. QED
        BY <2>1, <3>1, <3>2, Zenon DEF part
    <2>. QED
      BY <2>2, <2>3, <2>5, <2>6 DEF PyUntorn
  <1>4. \/ UNCHANGED <<spool, totalSize, accepted, torn>>
        \/ \E d \in Buffers : WriteReturns(d) \/ WriteRaises(d)
    <2>1. CASE UNCHANGED encVars
      BY <2>1 DEF encVars, fileVars
    <2>2. CASE EncConstruct
      BY <2>2 DEF EncConstruct, fileVars
    <2>3. CASE WriteRefused
      BY <2>3 DEF WriteRefused
    <2>4. CASE Close
      BY <2>4 DEF Close, CloseRefused, CloseStarts, fileVars
    <2>5. CASE Closing
      BY <2>5 DEF Closing, PieceWritten, PieceBreaks, CloseReturns, fileVars
    <2>. QED
      BY <2>1, <2>2, <2>3, <2>4, <2>5, Zenon DEF EncNext, Write
  <1>. QED
    BY <1>1, <1>2, <1>3, <1>4

LEMMA UntornIsSpooled == PyUntorn /\ ~torn => Spooled = accepted
  <1>. HAVE PyUntorn /\ ~torn
  <1>1. accepted \in Seq(NumCells) /\ spool = accepted /\ totalSize = Len(accepted)
    BY DEF PyUntorn
  <1>. QED
    BY <1>1 DEF Spooled

(* A round trip through the Python Encoder loses nothing, except after a   *)
(* write that raised and had stored a part of its data.                    *)
THEOREM PyLossless == EncSpec => []LosslessUnlessTorn
  <1>1. PySinkInv /\ PyUntorn => LosslessUnlessTorn
    <2>. SUFFICES ASSUME PySinkInv, PyUntorn, ~torn, Closed
                  PROVE  SinkDecodes
      BY DEF LosslessUnlessTorn, CloseIsLossless
    <2>1. DecodesBack(sink, encoding.key, Uncapped, Spooled, entries)
      BY PyClosedIsRead
    <2>2. Spooled = accepted
      BY UntornIsSpooled
    <2>. QED
      BY <2>1, <2>2, Zenon DEF DecodesBack, SinkDecodes
  <1>. QED
    BY <1>1, PySinkInit, PySinkStep, PyUntornInit, PyUntornStep, PTL DEF EncSpec

-----------------------------------------------------------------------------
(* Only originals.  When the source has raised the decoder may have lost   *)
(* its place in the stream, and need not follow the loop of decodeBytes.   *)
(* But the bodies it has accepted are in the stream and opened, each at    *)
(* its index, and their text is what it has accepted and what it dropped.  *)
PyTaken(taken, text) ==
  /\ Taken(stream, key, taken, chunkIndex, text)
  /\ terminal = NoError => leaves = taken
  /\ Len(dropped) + Len(Accepted) = Len(text)
  /\ dropped = <<>> => Accepted = text

PyTrail ==
  /\ dropped \in Seq(Cells)
  /\ ~Under => dropped = <<>>
  /\ Under => header = stream[1].h /\ region = RegionOf(stream)
  /\ finalized => terminal = NoError /\ Root \in Range(stream) /\ MagicEnd \in Range(stream)
  /\ \E taken, text : PyTaken(taken, text)

LEMMA FreshAccepts == Fresh => Accepted = <<>>
  <1>. HAVE Fresh
  <1>1. Accepted = (<<>> \o <<>>) \o <<>>
    BY DEF Fresh, Accepted
  <1>2. <<>> \in Seq(Cells)
    OBVIOUS
  <1>. QED
    BY <1>1, <1>2, ConcatEmptySeq

PyFresh == Fresh /\ dropped = <<>> /\ (Under => header = stream[1].h /\ region = RegionOf(stream))

LEMMA PyTrailStarts == PyFresh => PyTrail
  <1>. HAVE PyFresh
  <1>1. Taken(stream, key, <<>>, 0, <<>>)
    BY NothingTaken
  <1>2. Accepted = <<>>
    BY FreshAccepts DEF PyFresh
  <1>3. Len(<<>>) = 0 /\ <<>> \in Seq(Cells)
    OBVIOUS
  <1>4. PyTaken(<<>>, <<>>)
    BY <1>1, <1>2, <1>3 DEF PyTaken, PyFresh, Fresh
  <1>. QED
    BY <1>3, <1>4 DEF PyTrail, PyFresh, Fresh

LEMMA PyTrailBegins == PyFresh' => PyTrail'
  BY PyTrailStarts, PTL

LEMMA PyTrailKept ==
  ASSUME PyTrail, Accepted' = Accepted, Under' <=> Under,
         UNCHANGED <<sourceVars, header, region, leaves, chunkIndex, finalized, terminal, dropped>>
  PROVE  PyTrail'
  <1>1. Root' = Root
    BY DEF Root, sourceVars
  <1>2. PICK taken, text : PyTaken(taken, text)
    BY DEF PyTrail
  <1>. HIDE DEF Root, Accepted
  <1>3. PyTaken(taken, text)'
    BY <1>2 DEF PyTaken, sourceVars
  <1>4. (\E ta, te : PyTaken(ta, te))'
    BY <1>3
  <1>5. /\ dropped \in Seq(Cells) /\ (~Under => dropped = <<>>)
        /\ Under => header = stream[1].h /\ region = RegionOf(stream)
        /\ finalized => terminal = NoError /\ Root \in Range(stream) /\ MagicEnd \in Range(stream)
    BY DEF PyTrail
  <1>. QED
    BY <1>1, <1>4, <1>5 DEF PyTrail, sourceVars

(* What read(-1) had collected is dropped with an exception.               *)
LEMMA PyTrailRaises ==
  ASSUME PyTypes, PyTrail, NeedsChunk, NEW error, Raises(error),
         terminal' # NoError \/ UNCHANGED <<leaves, terminal>>
  PROVE  PyTrail'
  <1>1. /\ dropped' = dropped \o output /\ output' = <<>> /\ delivered' = delivered
        /\ pending' = pending /\ finalized' = finalized /\ chunkIndex' = chunkIndex /\ Under'
        /\ UNCHANGED <<stream, key, header, region>>
    BY DEF Raises, sourceVars, openVars, Under
  <1>2. Under /\ pending = <<>> /\ ~finalized
    BY DEF NeedsChunk, InRead, Under
  <1>3. delivered \in Seq(Cells) /\ output \in Seq(Cells) /\ dropped \in Seq(Cells)
    BY DEF PyTypes, PyTrail
  <1>4. /\ delivered \o output \in Seq(Cells)
        /\ Len(delivered \o output) = Len(delivered) + Len(output)
        /\ dropped \o output \in Seq(Cells)
        /\ Len(dropped \o output) = Len(dropped) + Len(output)
        /\ Len(delivered) \in Nat /\ Len(output) \in Nat /\ Len(dropped) \in Nat
    BY <1>3, ConcatProperties, LenProperties
  <1>5. Accepted = delivered \o output
    BY <1>2, <1>4, ConcatEmptySeq DEF Accepted
  <1>6. Accepted' = delivered
    <2>1. Accepted' = (delivered \o <<>>) \o <<>>
      BY <1>1, <1>2 DEF Accepted
    <2>. QED
      BY <1>3, <2>1, ConcatEmptySeq
  <1>7. dropped' = <<>> => dropped = <<>> /\ output = <<>>
    <2>. HAVE dropped' = <<>>
    <2>1. Len(dropped \o output) = 0
      BY <1>1, <1>4, EmptySeq
    <2>2. Len(dropped) = 0 /\ Len(output) = 0
      BY <1>4, <2>1
    <2>. QED
      BY <1>3, <2>2, EmptySeq
  <1>8. PICK taken, text : PyTaken(taken, text)
    BY DEF PyTrail
  <1>9. PyTaken(taken, text)'
    <2>1. Taken(stream, key, taken, chunkIndex, text)'
      BY <1>1, <1>8 DEF PyTaken
    <2>2. (terminal = NoError => leaves = taken)'
      BY <1>8 DEF PyTaken
    <2>3. Len(dropped) + Len(Accepted) = Len(text) /\ (dropped = <<>> => Accepted = text)
      BY <1>8 DEF PyTaken
    <2>4. (Len(dropped) + Len(Accepted) = Len(text))'
      BY <1>1, <1>4, <1>5, <1>6, <2>3
    <2>5. (dropped = <<>> => Accepted = text)'
      BY <1>3, <1>5, <1>6, <1>7, <2>3, ConcatEmptySeq
    <2>. QED
      BY <2>1, <2>2, <2>4, <2>5 DEF PyTaken
  <1>10. (\E ta, te : PyTaken(ta, te))'
    BY <1>9
  <1>11. header = stream[1].h /\ region = RegionOf(stream)
    BY <1>2 DEF PyTrail
  <1>. QED
    BY <1>1, <1>2, <1>4, <1>10, <1>11 DEF PyTrail

(* The body of the next chunk is in the stream.                            *)
LEMMA BodyIsThere ==
  ASSUME PyTypes, LoadError # Truncated
  PROVE  Body \in Seq(Cells) /\ \A q \in 1..Len(Body) : Body[q] \in Range(stream)
  <1>1. /\ clen \in Nat /\ clen <= Available - 1 /\ Body \in Seq(Cells) /\ Len(Body) = clen
    BY TakenFacts
  <1>. DEFINE m == pos + 2
              n == pos + 1 + clen
  <1>2. stream \in Seq(Cells) /\ pos \in Nat /\ Len(stream) \in Nat /\ clen <= (Len(stream) - pos) - 1
    BY <1>1, SourceFacts DEF Available
  <1>3. m \in Nat /\ n \in Nat /\ m >= 1 /\ n <= Len(stream) /\ n - m + 1 = clen
    BY <1>1, <1>2
  <1>4. Body = SubSeq(stream, m, n)
    BY DEF Body
  <1>5. ASSUME NEW q \in 1..Len(Body)
        PROVE  Body[q] \in Range(stream)
    <2>1. q \in 1..clen /\ m + q - 1 \in 1..Len(stream)
      BY <1>1, <1>2
    <2>. HIDE DEF m, n
    <2>2. Body[q] = stream[m + q - 1]
      BY <1>2, <1>3, <1>4, <2>1, PartOf
    <2>. QED
      BY <1>2, <2>1, <2>2, IntoRange
  <1>. QED
    BY <1>1, <1>5

LEMMA PyTrailLoads ==
  ASSUME PyTypes, PyPhases, PyTrail, ChunkLoaded
  PROVE  PyTrail'
  <1>1. /\ NeedsChunk /\ LoadError = NoError /\ ~finalized /\ ~AtFooter
        /\ leaves' = Append(leaves, Leaf(Body)) /\ pending' = Plain
        /\ chunkIndex' = chunkIndex + 1
        /\ UNCHANGED <<stream, key, phase, header, region, delivered, output, dropped, finalized, terminal>>
    BY DEF ChunkLoaded, Loading, AtFooter, NeedsChunk, sourceVars, openVars, outVars, callVars
  <1>2. Under /\ Under' /\ OpenError = NoError /\ terminal = NoError
    BY <1>1 DEF NeedsChunk, InRead, Under, PyPhases
  <1>3. header = stream[1].h /\ region = RegionOf(stream) /\ dropped \in Seq(Cells)
    BY <1>2 DEF PyTrail
  <1>4. header.encrypted \in BOOLEAN
    <2>1. header \in Header
      BY DEF PyTypes
    <2>. QED
      BY <2>1 DEF Header
  <1>5. Authentic /\ Plain \in Seq(Cells)
    BY <1>1, LoadedFacts
  <1>6. LoadError # Truncated
    BY <1>1 DEF NoError, Truncated
  <1>7. Body \in Seq(Cells) /\ \A q \in 1..Len(Body) : Body[q] \in Range(stream)
    BY <1>6, BodyIsThere
  <1>8. Plain = OpenedBody(header.encrypted, Body)
    BY DEF Plain, OpenedBody
  <1>9. header.encrypted => Opens(key, header.baseNonce, stream[1], region, chunkIndex, Body)
    BY <1>5 DEF Authentic
  <1>10. PICK taken, text : PyTaken(taken, text)
    BY DEF PyTrail
  <1>11. /\ Taken(stream, key, taken, chunkIndex, text) /\ leaves = taken
         /\ Len(dropped) + Len(Accepted) = Len(text) /\ (dropped = <<>> => Accepted = text)
    BY <1>2, <1>10 DEF PyTaken
  <1>12. text \in Seq(Cells)
    <2>. DEFINE opened == OpenedOf(stream[1].h.encrypted, taken)
    <2>1. opened \in Seq(Seq(Cells)) /\ text = FlattenSeq(opened)
      BY <1>11, Zenon DEF Taken
    <2>. HIDE DEF opened
    <2>. QED
      BY <2>1, FlattenIsSeq
  <1>13. Accepted' = Accepted \o Plain /\ Accepted \in Seq(Cells)
    BY <1>1, LoadsAccept
  <1>14. /\ Len(Accepted \o Plain) = Len(Accepted) + Len(Plain)
         /\ Len(text \o Plain) = Len(text) + Len(Plain)
         /\ Len(Accepted) \in Nat /\ Len(Plain) \in Nat /\ Len(text) \in Nat /\ Len(dropped) \in Nat
    BY <1>3, <1>5, <1>12, <1>13, ConcatProperties, LenProperties
  <1>. DEFINE body == Body
              e == header.encrypted
  <1>15. Taken(stream, key, Append(leaves, Leaf(body)), chunkIndex + 1, text \o OpenedBody(e, body))
    <2>1. chunkIndex \in Nat
      BY DEF PyTypes
    <2>2. /\ stream[1].h.encrypted \in BOOLEAN /\ Taken(stream, key, leaves, chunkIndex, text)
          /\ body \in Seq(Cells) /\ \A q \in 1..Len(body) : body[q] \in Range(stream)
          /\ OpenedBody(stream[1].h.encrypted, body) \in Seq(Cells)
          /\ stream[1].h.encrypted =>
               Opens(key, stream[1].h.baseNonce, stream[1], RegionOf(stream), chunkIndex, body)
      BY <1>3, <1>4, <1>5, <1>7, <1>8, <1>9, <1>11
    <2>. HIDE DEF body
    <2>3. Taken(stream, key, Append(leaves, Leaf(body)), chunkIndex + 1,
                text \o OpenedBody(stream[1].h.encrypted, body))
      <3>1. MayBeTaken(stream, key, chunkIndex, body)
        BY <2>2, Zenon DEF MayBeTaken
      <3>. QED
        <4>1. stream[1].h.encrypted \in BOOLEAN /\ Taken(stream, key, leaves, chunkIndex, text)
          BY <2>2, Zenon
        <4>. QED
          BY <2>1, <3>1, <4>1, TakenGrows
    <2>. QED
      BY <1>3, <2>3
  <1>16. PICK longer, more : longer = Append(leaves, Leaf(body)) /\ more = text \o Plain
    OBVIOUS
  <1>17. PyTaken(longer, more)'
    <2>1. Taken(stream', key', longer, chunkIndex', more)
      <3>1. text \o OpenedBody(e, body) = more
        BY <1>8, <1>16
      <3>2. stream' = stream /\ key' = key /\ chunkIndex' = chunkIndex + 1
        BY <1>1
      <3>. HIDE DEF body, e
      <3>3. Taken(stream, key, longer, chunkIndex + 1, more)
        BY <1>15, <1>16, <3>1, Zenon
      <3>. QED
        BY <3>2, <3>3, Zenon
    <2>2. leaves' = longer /\ Len(dropped') + Len(Accepted') = Len(more)
      <3>1. leaves' = longer
        BY <1>1, <1>16
      <3>2. Len(Accepted') = Len(Accepted) + Len(Plain) /\ Len(more) = Len(text) + Len(Plain)
        BY <1>13, <1>14, <1>16, Zenon
      <3>3. dropped' = dropped /\ Len(dropped) + Len(Accepted) = Len(text)
        BY <1>1, <1>11
      <3>. QED
        BY <1>14, <3>1, <3>2, <3>3
    <2>3. dropped' = <<>> => Accepted' = more
      BY <1>1, <1>11, <1>13, <1>16
    <2>. QED
      BY <2>1, <2>2, <2>3 DEF PyTaken
  <1>18. (\E ta, te : PyTaken(ta, te))'
    BY <1>17
  <1>. QED
    BY <1>1, <1>2, <1>3, <1>18 DEF PyTrail

LEMMA PyTrailEnds ==
  ASSUME PyTypes, PyPhases, PyTrail, Finalizes
  PROVE  PyTrail'
  <1>1. /\ NeedsChunk /\ FooterError = NoError /\ Available = 2 /\ (Under' <=> Under)
        /\ UNCHANGED <<stream, key, header, region, leaves, chunkIndex, terminal, dropped,
                       delivered, output, pending>>
    BY DEF Finalizes, AtFooter, sourceVars, openVars, loadVars, outVars, callVars, Under
  <1>2. Under /\ terminal = NoError
    BY <1>1 DEF NeedsChunk, InRead, Under, PyPhases
  <1>3. Accepted' = Accepted /\ Root' = Root
    BY <1>1 DEF Accepted, Root
  <1>4. stream[pos + 2] = MagicEnd /\ stream[pos + 1] = Root
    BY <1>1 DEF FooterError, RootMatches, NoError, Truncated, RootMismatch
  <1>5. stream \in Seq(Cells) /\ pos + 1 \in 1..Len(stream) /\ pos + 2 \in 1..Len(stream)
    BY <1>1, SourceFacts DEF Available
  <1>6. Root \in Range(stream) /\ MagicEnd \in Range(stream)
    BY <1>4, <1>5, IntoRange
  <1>7. PICK taken, text : PyTaken(taken, text)
    BY DEF PyTrail
  <1>. HIDE DEF Root, Accepted
  <1>8. PyTaken(taken, text)'
    BY <1>1, <1>3, <1>7 DEF PyTaken
  <1>9. (\E ta, te : PyTaken(ta, te))'
    BY <1>8
  <1>10. dropped \in Seq(Cells) /\ header = stream[1].h /\ region = RegionOf(stream)
    BY <1>2 DEF PyTrail
  <1>. QED
    BY <1>1, <1>2, <1>3, <1>6, <1>9, <1>10 DEF PyTrail

LEMMA PyTrailStep == PyTypes /\ PyPhases /\ PyTrail /\ [Next]_vars => PyTrail'
  <1>0. SUFFICES ASSUME PyTypes, PyPhases, PyTrail, [Next]_vars
                 PROVE  PyTrail'
    OBVIOUS
  <1>. USE DEF sourceVars, openVars, loadVars, callVars, outVars
  <1>1. CASE InitRaises \/ InitInterrupted
    <2>1. /\ ~Under /\ ~Under' /\ Fresh
          /\ UNCHANGED <<stream, key, header, region, leaves, chunkIndex, plainTotal, pending,
                         finalized, terminal, delivered, output, dropped>>
      BY <1>0, <1>1 DEF InitRaises, InitInterrupted, Rejects, PyPhases, Under
    <2>2. dropped = <<>>
      BY <1>0, <2>1 DEF PyTrail
    <2>3. PyFresh'
      BY <2>1, <2>2 DEF PyFresh, Fresh
    <2>. QED
      BY <2>3, PyTrailBegins
  <1>2. CASE InitOpens
    <2>1. /\ ~Under /\ Under' /\ Fresh
          /\ header' = stream[1].h /\ region' = RegionOf(stream)
          /\ UNCHANGED <<stream, leaves, chunkIndex, plainTotal, pending,
                         finalized, terminal, delivered, output, dropped>>
      BY <1>0, <1>2 DEF InitOpens, PyPhases, Under
    <2>2. dropped = <<>>
      BY <1>0, <2>1 DEF PyTrail
    <2>3. PyFresh'
      BY <2>1, <2>2 DEF PyFresh, Fresh
    <2>. QED
      BY <2>3, PyTrailBegins
  <1>3. CASE Moves
    <2>1. /\ Accepted' = Accepted /\ (Under' <=> Under)
          /\ UNCHANGED <<sourceVars, header, region, leaves, chunkIndex, finalized, terminal, dropped>>
      BY <1>0, <1>3, MovesKeep
    <2>. QED
      BY <1>0, <2>1, PyTrailKept
  <1>4. CASE ReadAgain \/ UNCHANGED vars
    <2>1. /\ Accepted' = Accepted /\ (Under' <=> Under)
          /\ UNCHANGED <<sourceVars, header, region, leaves, chunkIndex, finalized, terminal, dropped>>
      BY <1>4 DEF ReadAgain, vars, Accepted, Under
    <2>. QED
      BY <1>0, <2>1, PyTrailKept
  <1>5. CASE SourceRaises
    BY <1>0, <1>5, PyTrailRaises DEF SourceRaises
  <1>6. CASE LoadRaises
    <2>1. NeedsChunk /\ Raises(LoadError) /\ terminal' # NoError
      BY <1>6 DEF LoadRaises, Loading, RaisesUbcError, Kept
    <2>. QED
      BY <1>0, <2>1, PyTrailRaises
  <1>7. CASE FinalizeRaises
    <2>. DEFINE error == IF FooterError = NoError THEN TrailingData ELSE FooterError
    <2>1. error # NoError
      BY DEF TrailingData, NoError
    <2>2. NeedsChunk /\ Raises(error) /\ terminal' # NoError
      BY <1>7, <2>1 DEF FinalizeRaises, AtFooter, RaisesUbcError, Kept
    <2>. HIDE DEF error
    <2>. QED
      BY <1>0, <2>2, PyTrailRaises
  <1>8. CASE ChunkLoaded
    BY <1>0, <1>8, PyTrailLoads
  <1>9. CASE Finalizes
    BY <1>0, <1>9, PyTrailEnds
  <1>. QED
    BY <1>0, <1>1, <1>2, <1>3, <1>4, <1>5, <1>6, <1>7, <1>8, <1>9
    DEF Next, Construct, Moves, Proceeds

LEMMA FinalizedUnder == PyTypes /\ PyPhases /\ (finalized \/ Accepted # <<>>) => Under
  <1>. SUFFICES ASSUME PyTypes, PyPhases, finalized \/ Accepted # <<>>, ~Under, phase \in {"new", "rejected"}
                PROVE  FALSE
    BY DEF PyTypes, Under
  <1>1. Fresh
    BY DEF PyPhases
  <1>. QED
    BY <1>1, FreshAccepts DEF Fresh

(* The original of what was taken is the one MadeUnder names.              *)
LEMMA UnderHeader ==
  ASSUME PyTypes, PyPhases, PyTrail, Under
  PROVE  /\ header = stream[1].h /\ region = RegionOf(stream) /\ RegionOf(stream) \in Seq(Cells)
         /\ stream[1] = HeaderCell(header)
  <1>1. OpenError = NoError /\ header = stream[1].h /\ region = RegionOf(stream)
    BY DEF PyPhases, PyTrail, Under
  <1>2. stream[1] \in HeaderCells
    <2>1. PreambleError(stream, key, options) = NoError /\ stream \in Seq(Cells)
      BY <1>1, PyLoopFacts
    <2>2. options.maxMetaBytes \in Nat
      BY SourceFacts
    <2>. QED
      BY <2>1, <2>2, PrologueIsThere
  <1>3. stream[1] = HeaderCell(stream[1].h)
    BY <1>2 DEF HeaderCells, HeaderCell
  <1>. QED
    BY <1>1, <1>3, AcceptedPrefixFacts

LEMMA PyComplete ==
  ASSUME PyTypes, PyPhases, PyTrail, finalized, Unforged(stream, Known)
  PROVE  RetriesAreSound
  <1>1. Under
    BY FinalizedUnder
  <1>2. /\ header = stream[1].h /\ region = RegionOf(stream) /\ RegionOf(stream) \in Seq(Cells)
        /\ stream[1] = HeaderCell(header)
    BY <1>1, UnderHeader
  <1>3. terminal = NoError /\ Root \in Range(stream)
    BY DEF PyTrail
  <1>4. PICK taken, text : PyTaken(taken, text)
    BY DEF PyTrail
  <1>5. /\ Taken(stream, key, leaves, chunkIndex, text)
        /\ Len(dropped) + Len(Accepted) = Len(text) /\ (dropped = <<>> => Accepted = text)
    BY <1>3, <1>4 DEF PyTaken
  <1>6. Root = RootCell(RootKeyOf(key, stream[1]), (<<stream[1]>> \o RegionOf(stream)) \o leaves)
    BY <1>2 DEF Root, RootKeyOf
  <1>7. Encodable(Made) /\ Unforged(stream, Originals(Made))
    BY PyOriginalsAssumption DEF Known
  <1>. DEFINE root == Root
  <1>8. PICK o \in Originals(Made) : WholeOriginal(o, stream, key, leaves, text)
    <2>1. root = RootCell(RootKeyOf(key, stream[1]), (<<stream[1]>> \o RegionOf(stream)) \o leaves)
          /\ root \in Range(stream)
      BY <1>3, <1>6
    <2>. HIDE DEF root
    <2>. QED
      BY <1>2, <1>5, <1>7, <2>1, RootIsOriginal
  <1>9. MadeUnder(o) /\ o.plain = text
    BY <1>2, <1>8 DEF MadeUnder, WholeOriginal
  <1>10. o \in Known
    BY DEF Known
  <1>. HIDE DEF Accepted
  <1>. QED
    BY <1>5, <1>9, <1>10 DEF RetriesAreSound

LEMMA PyInOrder ==
  ASSUME PyTypes, PyPhases, PyTrail, Unforged(stream, Known)
  PROVE  EncryptedReleasesInOrder
  <1>0. SUFFICES ASSUME header.encrypted, dropped = <<>>, Accepted # <<>>
                 PROVE  \E o \in Known : MadeUnder(o) /\ IsPrefix(Accepted, o.plain)
    BY DEF EncryptedReleasesInOrder
  <1>1. Under
    BY <1>0, FinalizedUnder
  <1>2. header = stream[1].h /\ region = RegionOf(stream) /\ stream[1] = HeaderCell(header)
    BY <1>1, UnderHeader
  <1>3. PICK taken, text : PyTaken(taken, text)
    BY DEF PyTrail
  <1>4. Taken(stream, key, taken, chunkIndex, text) /\ Accepted = text /\ text # <<>>
    BY <1>0, <1>3 DEF PyTaken
  <1>5. chunkIndex \in Nat \ {0}
    <2>1. chunkIndex \in Nat
      BY DEF PyTypes
    <2>2. ASSUME chunkIndex = 0
          PROVE  FALSE
      <3>. DEFINE e == stream[1].h.encrypted
      <3>1. taken \in Seq(Leaflets) /\ Len(taken) = chunkIndex /\ text = FlattenSeq(OpenedOf(e, taken))
        BY <1>4, Zenon DEF Taken
      <3>2. taken = <<>>
        BY <2>2, <3>1, EmptySeq
      <3>3. Taken(stream, key, <<>>, 0, <<>>)
        BY NothingTaken
      <3>4. <<>> = FlattenSeq(OpenedOf(e, <<>>))
        BY <3>3, Zenon DEF Taken
      <3>. HIDE DEF e
      <3>. QED
        BY <1>4, <3>1, <3>2, <3>4, Zenon
    <2>. QED
      BY <2>1, <2>2
  <1>6. Encodable(Made) /\ Unforged(stream, Originals(Made))
    BY PyOriginalsAssumption DEF Known
  <1>7. PICK o \in Originals(Made) : PartOfOriginal(o, stream, key, text)
    BY <1>0, <1>2, <1>4, <1>5, <1>6, TakenIsOriginal
  <1>8. MadeUnder(o) /\ IsPrefix(text, o.plain)
    BY <1>2, <1>7 DEF MadeUnder, PartOfOriginal
  <1>. QED
    BY <1>4, <1>7, <1>8 DEF Known

(* Unforged streams release only originals, OnlyOriginals: the decoder     *)
(* takes for complete only what one was, whatever its source raised and    *)
(* the caller read again, and with a key nothing out of order on the way.  *)
THEOREM PyOriginality == Spec => []OnlyOriginals
  <1>1. Init => PyTypes /\ PyPhases /\ PyTrail
    <2>. HAVE Init
    <2>1. PyTypes /\ PyPhases
      BY PyInit
    <2>2. PyFresh
      BY DEF Init, PyFresh, Fresh, Under
    <2>. QED
      BY <2>1, <2>2, PyTrailStarts
  <1>2. PyTypes /\ PyPhases /\ PyTrail /\ [Next]_vars => (PyTypes /\ PyPhases /\ PyTrail)'
    BY PyTypesStep, PyPhasesStep, PyTrailStep
  <1>3. PyTypes /\ PyPhases /\ PyTrail => OnlyOriginals
    <2>. HAVE PyTypes /\ PyPhases /\ PyTrail
    <2>1. ASSUME Unforged(stream, Known)
          PROVE  RetriesAreSound
      <3>1. CASE finalized
        BY <2>1, <3>1, PyComplete
      <3>. QED
        BY <3>1 DEF RetriesAreSound
    <2>. QED
      BY <2>1, PyInOrder DEF OnlyOriginals
  <1>. QED
    BY <1>1, <1>2, <1>3, PTL DEF Spec

-----------------------------------------------------------------------------
(* What is read back.  A close that broke off left the sink short of the   *)
(* container, and `pieces` what it had not written.                        *)
PyRest ==
  /\ ~closed => pieces = <<>>
  /\ closed /\ encPhase # "closing" /\ pieces # <<>> => sink # PyWhole

LEMMA PyRestStep == PySinkInv /\ PyRest /\ [EncNext]_encVars => PyRest'
  <1>0. SUFFICES ASSUME PySinkInv, PyRest, [EncNext]_encVars
                 PROVE  PyRest'
    OBVIOUS
  <1>1. ASSUME PyFixed, UNCHANGED <<closed, sink, pieces>>, encPhase # "closing"
        PROVE  PyRest'
    <2>1. PyWhole' = PyWhole
      BY <1>1, PyFixedFacts
    <2>. QED
      BY <1>0, <1>1, <2>1 DEF PyRest
  <1>2. CASE UNCHANGED encVars
    <2>1. PyFixed /\ UNCHANGED <<closed, sink, pieces, encPhase>>
      BY <1>2 DEF encVars, argVars, fileVars, PyFixed
    <2>2. PyWhole' = PyWhole
      BY <2>1, PyFixedFacts
    <2>. QED
      BY <1>0, <2>1, <2>2 DEF PyRest
  <1>3. CASE EncConstruct \/ WriteRefused \/ CloseRefused \/ CloseReturns
    <2>1. PyFixed /\ UNCHANGED <<closed, sink, pieces>> /\ encPhase # "closing"
      BY <1>3 DEF EncConstruct, WriteRefused, Writable, CloseRefused, CloseReturns, argVars, fileVars, PyFixed
    <2>. QED
      BY <1>1, <2>1
  <1>4. ASSUME NEW data \in Buffers, WriteReturns(data) \/ WriteRaises(data)
        PROVE  PyRest'
    <2>1. ~closed /\ UNCHANGED <<closed, pieces>>
      BY <1>4 DEF WriteReturns, WriteRaises
    <2>. QED
      BY <1>0, <2>1 DEF PyRest
  <1>5. CASE CloseStarts
    <2>1. /\ pieces = <<>> /\ closed'
          /\ \/ encPhase' = "closing"
             \/ encPhase' = "finally" /\ pieces' = pieces
      BY <1>0, <1>5 DEF CloseStarts, PyRest
    <2>. QED
      BY <2>1 DEF PyRest
  <1>6. CASE PieceWritten
    <2>1. closed /\ closed' = closed
      BY <1>0, <1>6 DEF PieceWritten, PySinkInv
    <2>2. pieces' = <<>> \/ encPhase' = "closing"
      BY <1>6 DEF PieceWritten
    <2>. QED
      BY <2>1, <2>2 DEF PyRest
  <1>7. CASE PieceBreaks
    <2>1. /\ encPhase = "closing" /\ closed' = closed /\ PyFixed
      BY <1>7 DEF PieceBreaks, argVars, fileVars, PyFixed
    <2>2. /\ closed /\ PyArgs /\ PyLegal /\ Head(pieces) \in Seq(Cells) /\ sink \in Seq(Cells)
          /\ Begins(sink \o Head(pieces), PyWhole, Cells) /\ sink \o Head(pieces) \in Seq(Cells)
      BY <1>0, <2>1, PyNextPiece
    <2>3. PyWhole' = PyWhole
      BY <2>1, PyFixedFacts
    <2>4. PICK n \in 0..Len(Head(pieces)) - 1 : sink' = sink \o SubSeq(Head(pieces), 1, n)
      BY <1>7 DEF PieceBreaks
    <2>. HIDE DEF Cells
    <2>. DEFINE piece == Head(pieces)
                part == SubSeq(piece, 1, n)
    <2>5. PICK rest \in Seq(Cells) : PyWhole = (sink \o piece) \o rest
      BY <2>2 DEF Begins
    <2>6. Len(piece) \in Nat /\ n \in Nat /\ n < Len(piece) /\ part \in Seq(Cells) /\ Len(part) = n
      <3>1. Len(piece) \in Nat
        BY <2>2, LenProperties
      <3>2. n \in Nat /\ n < Len(piece)
        BY <2>4, <3>1
      <3>. HIDE DEF piece
      <3>3. piece \in Seq(Cells)
        BY <2>2 DEF piece
      <3>4. 1 \in Nat /\ 1 >= 1 /\ n <= Len(piece) /\ (IF 1 <= n THEN n - 1 + 1 ELSE 0) = n
        BY <3>1, <3>2
      <3>5. part \in Seq(Cells) /\ Len(part) = IF 1 <= n THEN n - 1 + 1 ELSE 0
        BY <3>2, <3>3, <3>4, PartOf
      <3>. QED
        BY <3>1, <3>2, <3>4, <3>5
    <2>. HIDE DEF piece, part
    <2>7. /\ Len(sink \o part) = Len(sink) + n /\ Len(sink \o piece) = Len(sink) + Len(piece)
          /\ Len((sink \o piece) \o rest) = Len(sink \o piece) + Len(rest)
          /\ Len(sink) \in Nat /\ Len(rest) \in Nat
      <3>1. piece \in Seq(Cells) /\ sink \o piece \in Seq(Cells)
        BY <2>2 DEF piece
      <3>. QED
        BY <2>2, <2>5, <2>6, <3>1, ConcatProperties, LenProperties
    <2>8. sink' = sink \o part
      BY <2>4 DEF piece, part
    <2>9. sink' # PyWhole
      <3>1. Len(sink') = Len(sink) + n /\ Len(PyWhole) = (Len(sink) + Len(piece)) + Len(rest)
        BY <2>5, <2>7, <2>8
      <3>2. Len(sink') # Len(PyWhole)
        BY <2>6, <2>7, <3>1
      <3>. QED
        BY <3>2
    <2>. QED
      BY <2>1, <2>2, <2>3, <2>9 DEF PyRest
  <1>8. EncNext => \/ EncConstruct \/ WriteRefused \/ CloseRefused \/ CloseStarts
                   \/ PieceWritten \/ PieceBreaks \/ CloseReturns
                   \/ \E data \in Buffers : WriteReturns(data) \/ WriteRaises(data)
    BY DEF EncNext, Write, Close, Closing
  <1>. QED
    BY <1>0, <1>2, <1>3, <1>4, <1>5, <1>6, <1>7, <1>8

LEMMA PyIsHonest ==
  ASSUME PyArgs, PyLegal
  PROVE  \E head, sorted, bodies :
           Honest(PyWhole, encoding.key, head, PyMeta, sorted, Spooled, encoding.chunk_size, bodies)
  <1>1. CASE ~Encrypted
    BY <1>1, PyContainerMade, PlainIsHonest, Zenon DEF PlainMade, PyMeta
  <1>2. CASE Encrypted
    <2>1. SealedMade.err = NoError /\ SealedMade.out = PyWhole
      BY <1>2, PyContainerMade
    <2>2. \E head, bodies :
            Honest(SealedMade.out, encoding.key, head, PyMeta, Sorted(entries), Spooled,
                   encoding.chunk_size, bodies)
      BY <2>1, PyContainerMade, EncryptedIsHonest, Zenon DEF SealedMade, PyMeta
    <2>. QED
      BY <2>1, <2>2, Zenon
  <1>. QED
    BY <1>1, <1>2

(* A decoder that calls what was left complete has read all of it.         *)
LEMMA PyReadsAll ==
  ASSUME PyTypes, PyPhases, PyTrail, PySinkInv, PyRest, finalized, closed, encPhase = "idle",
         stream = sink
  PROVE  pieces = <<>> /\ (dropped = <<>> => Accepted = Spooled)
  <1>1. Under
    BY FinalizedUnder
  <1>2. /\ header = stream[1].h /\ region = RegionOf(stream) /\ RegionOf(stream) \in Seq(Cells)
    BY <1>1, UnderHeader
  <1>3. terminal = NoError /\ Root \in Range(stream) /\ MagicEnd \in Range(stream)
    BY DEF PyTrail
  <1>4. stream # <<>> /\ stream \in Seq(Cells)
    <2>1. stream \in Seq(Cells)
      BY DEF PyTypes
    <2>2. PICK i \in 1..Len(stream) : stream[i] = MagicEnd
      BY <1>3, <2>1, InRange
    <2>. QED
      BY <2>1, <2>2
  <1>5. PyArgs /\ PyLegal /\ Begins(stream, PyWhole, Cells)
    BY <1>4 DEF PySinkInv, PyEnded
  <1>6. PICK head, sorted, bodies :
          Honest(PyWhole, encoding.key, head, PyMeta, sorted, Spooled, encoding.chunk_size, bodies)
    BY <1>5, PyIsHonest
  <1>7. stream = PyWhole
    <2>1. /\ IsMade(RootKeyOf(encoding.key, head), head, PyMeta, bodies)
          /\ PyWhole = Container(RootKeyOf(encoding.key, head), head, PyMeta, bodies)
      BY <1>6, HonestIsMade
    <2>. QED
      BY <1>3, <1>4, <1>5, <2>1, EndIsLast
  <1>8. pieces = <<>>
    BY <1>7 DEF PyRest
  <1>9. PICK taken, text : PyTaken(taken, text)
    BY DEF PyTrail
  <1>10. Taken(stream, key, leaves, chunkIndex, text) /\ (dropped = <<>> => Accepted = text)
    BY <1>3, <1>9 DEF PyTaken
  <1>11. Root = RootCell(RootKeyOf(key, stream[1]), (<<stream[1]>> \o RegionOf(stream)) \o leaves)
    BY <1>2 DEF Root, RootKeyOf
  <1>12. RootCell(RootKeyOf(key, stream[1]), (<<stream[1]>> \o RegionOf(stream)) \o leaves)
           \in Range(PyWhole)
    BY <1>3, <1>7, <1>11
  <1>13. RootIsIts(stream, key, leaves, text, PyWhole, encoding.key, head, PyMeta, Spooled, bodies)
    BY <1>2, <1>6, <1>10, <1>12, RootIsOf
  <1>14. text = Spooled
    BY <1>13, Zenon DEF RootIsIts
  <1>. HIDE DEF Accepted
  <1>. QED
    BY <1>8, <1>10, <1>14

(* Until the source raises, what the decoder finds wrong decodeBytes does. *)
PyVerdict ==
  faults = 0 => /\ phase = "rejected" => reply = OpenError /\ OpenError # NoError
                /\ terminal # NoError => Reference.err = terminal

LEMMA PyVerdictStep == PyTypes /\ PyPhases /\ PyFollowInv /\ PyVerdict /\ [Next]_vars => PyVerdict'
  <1>0. SUFFICES ASSUME PyTypes, PyPhases, PyFollowInv, PyVerdict, [Next]_vars, faults' = 0
                 PROVE  /\ phase' = "rejected" => reply' = OpenError' /\ OpenError' # NoError
                        /\ terminal' # NoError => Reference'.err = terminal'
    BY DEF PyVerdict
  <1>. USE DEF sourceVars, openVars, loadVars, callVars, outVars
  <1>1. OpenError' = OpenError /\ Reference' = Reference
    <2>1. UNCHANGED <<stream, key, options>>
      BY <1>0, StandsFixed
    <2>. QED
      BY <2>1 DEF OpenError, PrefixError, MetadataError, Reference
  <1>. HIDE DEF OpenError, Reference
  <1>2. faults \in Nat
    BY <1>0 DEF PyTypes
  <1>3. CASE InitRaises
    <2>1. OpenError # NoError /\ reply' = OpenError /\ terminal' = terminal /\ terminal = NoError
      BY <1>0, <1>3 DEF InitRaises, Rejects, PyPhases, Fresh
    <2>. QED
      BY <1>1, <2>1
  <1>4. CASE InitInterrupted \/ SourceRaises
    <2>1. faults' = faults + 1
      BY <1>4 DEF InitInterrupted, SourceRaises
    <2>. QED
      BY <1>0, <1>2, <2>1
  <1>5. CASE UNCHANGED vars
    <2>1. UNCHANGED <<faults, phase, reply, terminal>>
      BY <1>5 DEF vars
    <2>. QED
      BY <1>0, <1>1, <2>1 DEF PyVerdict
  <1>6. CASE InitOpens \/ ReadAgain \/ Starts \/ ReadReturns \/ ReadAllCollects \/ ReadAllReturns
             \/ ChunkLoaded \/ Finalizes
    <2>1. UNCHANGED <<faults, terminal>> /\ phase' # "rejected"
      BY <1>6 DEF InitOpens, ReadAgain, Starts, ReadStarts, ReadAllStarts, ReadReturns, Returns,
                  ReadAllCollects, ReadAllReturns, ChunkLoaded, Finalizes, Loading, AtFooter,
                  NeedsChunk, InRead
    <2>. QED
      BY <1>0, <1>1, <2>1 DEF PyVerdict
  <1>7. ASSUME InRead, faults' = faults
        PROVE  PyFollows /\ OpenError = NoError
    BY <1>0, <1>7 DEF InRead, PyPhases, PyFollowInv
  <1>8. CASE LoadRaises
    <2>1. /\ Loading /\ InRead /\ LoadError # NoError /\ terminal' = LoadError
          /\ phase' = "open" /\ faults' = faults
      BY <1>8 DEF LoadRaises, RaisesUbcError, Raises, Kept, Loading, NeedsChunk
    <2>2. Reference.err = LoadError
      BY <1>0, <1>7, <2>1, LoadFailureAgrees
    <2>. QED
      BY <1>1, <2>1, <2>2
  <1>9. CASE FinalizeRaises
    <2>. DEFINE error == IF FooterError = NoError THEN TrailingData ELSE FooterError
    <2>1. /\ AtFooter /\ InRead /\ terminal' = error /\ phase' = "open" /\ faults' = faults
          /\ FooterError = NoError => Available > 2
      BY <1>9 DEF FinalizeRaises, RaisesUbcError, Raises, Kept, AtFooter, NeedsChunk
    <2>2. Reference.err = error
      BY <1>0, <1>7, <2>1, FinalErrorsAgree
    <2>. HIDE DEF error
    <2>. QED
      BY <1>1, <2>1, <2>2
  <1>. QED
    BY <1>0, <1>3, <1>4, <1>5, <1>6, <1>8, <1>9 DEF Next, Construct, Proceeds

(* Over what close reported as written it finds nothing wrong.             *)
LEMMA PyReadsWell ==
  ASSUME PyTypes, PyVerdict, PySinkInv, Closed, faults = 0,
         stream = sink, key = encoding.key, options = Uncapped
  PROVE  terminal = NoError /\ phase # "rejected"
  <1>1. Reference.err = NoError
    <2>1. DecodesBack(stream, key, options, Spooled, entries)
      BY PyClosedIsRead
    <2>. QED
      BY <2>1 DEF DecodesBack, Reference
  <1>2. OpenError = NoError
    <2>1. PreambleError(stream, key, options) = NoError
      <3>. DEFINE early == PreambleError(stream, key, options)
      <3>1. early # NoError => decodeBytes(stream, key, options) = Result(early, <<>>, <<>>, FALSE)
        BY Zenon DEF decodeBytes
      <3>2. early # NoError => decodeBytes(stream, key, options).err = early
        <4>. HIDE DEF early
        <4>. QED
          BY <3>1 DEF Result
      <3>. QED
        BY <1>1, <3>2 DEF Reference
    <2>. QED
      BY <2>1, OpeningsAgree DEF MetaMalformed, Truncated, NoError
  <1>. QED
    BY <1>1, <1>2 DEF PyVerdict

PyJob ==
  /\ job \in {"reads", "encodes", "reads back"}
  /\ job = "encodes" => phase = "new" /\ pos = 0 /\ faults = 0
  /\ job = "reads back" => /\ closed /\ encPhase = "idle" /\ stream = sink
                           /\ key = encoding.key /\ options = Uncapped

PyReads == PyTypes /\ PyPhases /\ PyTrail /\ PyFollowInv /\ PyVerdict

PyWrites == PySinkInv /\ PyRest /\ PyUntorn

LEMMA PyReadsStart == Init => PyReads
  <1>. HAVE Init
  <1>1. PyTypes /\ PyPhases
    BY PyInit
  <1>2. PyFresh /\ phase = "new" /\ terminal = NoError
    BY DEF Init, PyFresh, Fresh, Under
  <1>. QED
    BY <1>1, <1>2, PyTrailStarts DEF PyReads, PyFollowInv, PyVerdict

LEMMA PyReadsStep == PyReads /\ [Next]_vars => PyReads'
  BY PyTypesStep, PyPhasesStep, PyTrailStep, PyFollowStep, PyVerdictStep DEF PyReads

LEMMA PyWritesStep == PyWrites /\ [EncNext]_encVars => PyWrites'
  BY PySinkStep, PyRestStep, PyUntornStep DEF PyWrites

(* A decoder over what the sink has is a new one.                          *)
LEMMA PyHandsOver ==
  ASSUME PyReads, PyWrites, PyJob, HandOver
  PROVE  PyReads' /\ PyJob'
  <1>1. /\ job = "encodes" /\ job' = "reads back" /\ closed /\ encPhase = "idle"
        /\ stream' = sink /\ key' = encoding.key /\ options' = Uncapped
        /\ UNCHANGED <<pos, faults, phase, want, output, header, region, leaves, chunkIndex,
                       plainTotal, pending, finalized, terminal, reply, delivered, dropped>>
        /\ UNCHANGED encVars
    BY DEF HandOver, callVars, openVars, loadVars, outVars
  <1>2. phase = "new" /\ pos = 0 /\ faults = 0
    BY <1>1 DEF PyJob
  <1>3. PyTypes /\ PyPhases /\ Fresh /\ reply = NoError /\ dropped = <<>>
    BY <1>2 DEF PyReads, PyPhases, PyTrail, Under
  <1>4. sink \in Seq(Cells) /\ encoding.key \in Seq(Nat)
    <2>1. PyArgs /\ PyEnded
      BY <1>1 DEF PyWrites, PySinkInv
    <2>2. <<>> \in Seq(Cells)
      OBVIOUS
    <2>. QED
      BY <2>1, <2>2 DEF PyArgs, PyEnded
  <1>5. Uncapped \in Caps
    BY WidthAssumption DEF Uncapped, Caps
  <1>6. PyTypes'
    <2>1. pos' \in 0..Len(stream')
      <3>1. Len(stream') \in Nat
        BY <1>1, <1>4, LenProperties
      <3>2. pos' = 0
        BY <1>1, <1>2
      <3>. QED
        BY <3>1, <3>2
    <2>. QED
      BY <1>1, <1>3, <1>4, <1>5, <2>1 DEF PyTypes
  <1>7. Fresh' /\ phase' = "new" /\ reply' = NoError /\ dropped' = <<>> /\ output' = <<>>
    BY <1>1, <1>2, <1>3 DEF Fresh
  <1>8. PyPhases'
    BY <1>7 DEF PyPhases, Fresh, InRead, Empty, NoError
  <1>9. PyTrail'
    <2>1. PyFresh'
      BY <1>7 DEF PyFresh, Under
    <2>. QED
      BY <2>1, PyTrailBegins
  <1>10. PyFollowInv' /\ PyVerdict'
    BY <1>7 DEF PyFollowInv, PyVerdict, Fresh
  <1>11. PyJob'
    BY <1>1 DEF PyJob, encVars, argVars
  <1>. QED
    BY <1>6, <1>8, <1>9, <1>10, <1>11 DEF PyReads

LEMMA PyBothStep == PyReads /\ PyWrites /\ PyJob /\ [ReadBackNext]_readBackVars
                      => PyReads' /\ PyWrites' /\ PyJob'
  <1>0. SUFFICES ASSUME PyReads, PyWrites, PyJob, [ReadBackNext]_readBackVars
                 PROVE  PyReads' /\ PyWrites' /\ PyJob'
    OBVIOUS
  <1>1. CASE HandOver
    <2>1. UNCHANGED encVars
      BY <1>1 DEF HandOver
    <2>. QED
      BY <1>0, <1>1, <2>1, PyHandsOver, PyWritesStep
  <1>2. CASE Encodes
    <2>1. job = "encodes" /\ job' = job /\ EncNext /\ UNCHANGED vars
      BY <1>2 DEF Encodes
    <2>2. PyReads' /\ PyWrites'
      BY <1>0, <2>1, PyReadsStep, PyWritesStep
    <2>3. PyJob'
      BY <1>0, <2>1 DEF PyJob, vars
    <2>. QED
      BY <2>2, <2>3
  <1>3. CASE Decodes \/ UNCHANGED readBackVars
    <2>1. job' = job /\ UNCHANGED encVars /\ [Next]_vars /\ (job = "encodes" => UNCHANGED vars)
      BY <1>3 DEF Decodes, readBackVars
    <2>2. PyReads' /\ PyWrites'
      BY <1>0, <2>1, PyReadsStep, PyWritesStep
    <2>3. UNCHANGED <<stream, key, options>>
      BY <1>0, <2>1, StandsFixed DEF sourceVars, PyReads
    <2>4. UNCHANGED <<closed, encPhase, sink, encoding>> /\ (job = "encodes" => UNCHANGED <<phase, pos, faults>>)
      BY <2>1 DEF encVars, argVars, vars
    <2>5. PyJob'
      BY <1>0, <2>1, <2>3, <2>4 DEF PyJob
    <2>. QED
      BY <2>2, <2>5
  <1>. QED
    BY <1>0, <1>1, <1>2, <1>3 DEF ReadBackNext

(* A Decoder over whatever the Encoder left in its sink: it never calls    *)
(* the rest of a close that broke off complete, however often its source   *)
(* raised; if it ends, it gives what the file had counted; over what close *)
(* reported as written it raises nothing; and that is what the writes that *)
(* returned were given, unless one that raised had stored a part.          *)
THEOREM PyReadsBack == ReadBackSpec => []CloseWritesAccepted
  <1>1. ReadBackInit => PyReads /\ PyWrites /\ PyJob
    <2>. HAVE ReadBackInit
    <2>1. Init /\ EncInit /\ job \in {"reads", "encodes"}
      BY DEF ReadBackInit
    <2>2. PyReads
      BY <2>1, PyReadsStart
    <2>3. PySinkInv /\ PyUntorn
      BY <2>1, PySinkInit, PyUntornInit
    <2>4. PyRest
      BY <2>1 DEF PyRest, EncInit
    <2>5. PyJob
      BY <2>1 DEF PyJob, Init
    <2>. QED
      BY <2>2, <2>3, <2>4, <2>5 DEF PyWrites
  <1>2. PyReads /\ PyWrites /\ PyJob => CloseWritesAccepted
    <2>. SUFFICES ASSUME PyReads, PyWrites, PyJob, job = "reads back"
                  PROVE  /\ finalized => pieces = <<>> /\ (dropped = <<>> => Accepted = Spooled)
                         /\ (outcome = NoError /\ faults = 0) => terminal = NoError /\ phase # "rejected"
                         /\ ~torn => Spooled = accepted
      BY DEF CloseWritesAccepted
    <2>1. closed /\ encPhase = "idle" /\ stream = sink /\ key = encoding.key /\ options = Uncapped
      BY DEF PyJob
    <2>2. finalized => pieces = <<>> /\ (dropped = <<>> => Accepted = Spooled)
      BY <2>1, PyReadsAll DEF PyReads, PyWrites
    <2>3. (outcome = NoError /\ faults = 0) => terminal = NoError /\ phase # "rejected"
      BY <2>1, PyReadsWell DEF PyReads, PyWrites, Closed
    <2>4. ~torn => Spooled = accepted
      BY UntornIsSpooled DEF PyWrites
    <2>. QED
      BY <2>2, <2>3, <2>4
  <1>. QED
    BY <1>1, <1>2, PyBothStep, PTL DEF ReadBackSpec
=============================================================================
