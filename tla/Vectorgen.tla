----------------------------- MODULE Vectorgen ------------------------------
(***************************************************************************)
(* The generator of the shared test vectors, tools/vectorgen/main.go: an   *)
(* encoder and a metadata encoder of its own, written apart from every     *)
(* SDK, the positive vectors, and the table of negative vectors, each made *)
(* from a positive one by one function, with the error a reader must give. *)
(* Only the alphabet of UbcFormat is used here, none of its encoders.      *)
(***************************************************************************)
EXTENDS UbcFormat

CONSTANTS
  ChunkSize,    (* 1 << 20, the chunk size of every vector                  *)
  CapOfChunks   (* 1 << 20, the cap on chunks oversizedChunkCount exceeds   *)

ASSUME VectorAssumption ==
  /\ ChunkSize \in 2..MaxU32 - TagLen - 1
  /\ CapOfChunks \in 1..MaxU64 - 1
  /\ MaxAscii + 3 <= MaxU32 /\ CreatedAtLen + 15 <= MaxU32   \* of `metadata` below

FixedKey   == <<1>>
WrongKey   == <<2>>
FixedNonce == 1

(* Units of text beyond those UbcMeta names: a letter that is not ASCII,   *)
(* and two ASCII characters of the file name.                              *)
ThaiLetter == MaxAscii + 3
Hyphen     == 1
Underscore == 2

UserTag == 4          \* 0x1000: a tag the format gives no meaning

patterned(size) == [i \in 1..size |-> Num((i * 31 + 17) % 3)]

inputs ==
  [name \in {"empty", "one-byte", "chunk-1m", "chunk-1m-plus-one", "multi-3m"} |->
     CASE name = "empty"             -> <<>>
       [] name = "one-byte"          -> <<Num(1)>>
       [] name = "chunk-1m"          -> patterned(ChunkSize)
       [] name = "chunk-1m-plus-one" -> patterned(ChunkSize + 1)
       [] name = "multi-3m"          -> patterned(3 * ChunkSize)]

filename == <<Num(ThaiLetter), Num(Hyphen), Num(1)>>

metadata ==
  <<[tag |-> FileName,  value |-> filename],
    [tag |-> MimeType,  value |-> <<Num(1)>>],
    [tag |-> CreatedAt, value |-> [i \in 1..CreatedAtLen |-> Num(0)]],
    [tag |-> UserTag,   value |-> <<Num(Nul), Num(BadUtf8), Num(MaxAscii)>>]>>

-----------------------------------------------------------------------------
(* The generator's encoder.                                                *)

(* No rule on a reserved tag is checked here; a repeated tag stops the     *)
(* generator, and its table has none.                                      *)
encodeMetadata(entries) ==
  LET sorted == CHOOSE s \in [DOMAIN entries -> Range(entries)] : InTagOrder(s, entries)
      body   == FlattenSeq([i \in DOMAIN sorted |->
                  <<Num(sorted[i].tag), Num(Len(sorted[i].value))>> \o sorted[i].value])
  IN  IF entries = <<>> THEN <<>> ELSE <<Num(Len(body))>> \o body

(* With a bug: the index of a chunk is left out of its associated data.    *)
appendIndexNot(header, metadataDigest, index) == <<header, metadataDigest, 0>>

appendIndex(header, metadataDigest, index) == <<header, metadataDigest, index>>

(* aead.Seal under the nonce of chunk `index`.                             *)
SealedChunk(data, key, baseNonce, aad, index) ==
  LET ct == [i \in DOMAIN data |-> CtCell(key, <<baseNonce, index>>, data[i].n)]
  IN  Append(ct, TagCell(key, <<baseNonce, index>>, aad, ct))

encode(input, key, baseNonce, encrypted, entries) ==
  LET meta   == encodeMetadata(entries)
      count  == (Len(input) + ChunkSize - 1) \div ChunkSize
      header == HeaderCell(
        [version     |-> 1,
         encrypted   |-> encrypted,
         hasMetadata |-> Len(meta) > 0,
         reserved    |-> FALSE,
         hashAlgo    |-> IF encrypted THEN 1 ELSE 0,
         aeadAlgo    |-> IF encrypted THEN 1 ELSE 0,
         chunkSize   |-> ChunkSize,
         chunkCount  |-> count,
         totalSize   |-> Len(input),
         baseNonce   |-> IF encrypted THEN baseNonce ELSE ZeroNonce])
      piece(index) == SubSeq(input, index * ChunkSize + 1,
                             Lesser((index + 1) * ChunkSize, Len(input)))
      data == [i \in 1..count |->
                 IF encrypted
                 THEN SealedChunk(piece(i - 1), key, baseNonce, appendIndex(header, meta, i - 1), i - 1)
                 ELSE piece(i - 1)]
      leaves == [i \in 1..count |-> Leaf(data[i])]
      root   == RootCell(IF encrypted THEN <<key, baseNonce>> ELSE NoKey,
                         <<header>> \o meta \o leaves)
  IN  <<header>> \o meta
      \o FlattenSeq([i \in 1..count |-> <<Num(Len(data[i]))>> \o data[i]])
      \o <<root, MagicEnd>>

(* A vector of the manifest: what it was made from (if anything), with the *)
(* options it names, the container and the error expected.                 *)
Positive(id, name, encrypted, entries) ==
  [id |-> id, input |-> inputs[name], entries |-> entries, encrypted |-> encrypted,
   key |-> IF encrypted THEN FixedKey ELSE NoKey,
   data |-> encode(inputs[name], FixedKey, FixedNonce, encrypted, entries),
   expectError |-> NoError]

positive ==
  {Positive("plain-" \o name, name, FALSE, <<>>) : name \in DOMAIN inputs} \cup
  {Positive("encrypted-" \o name, name, TRUE, <<>>) : name \in DOMAIN inputs} \cup
  {Positive("plain-metadata", "one-byte", FALSE, metadata),
   Positive("encrypted-metadata", "one-byte", TRUE, metadata)}

-----------------------------------------------------------------------------
(* What the negative vectors are made with.                                *)

(* A field of the header replaced.                                         *)
replace(data, field, value) ==
  ReplaceAt(data, 1, HeaderCell([data[1].h EXCEPT ![field] = value]))

(* A bit of a payload byte flipped: ciphertext is then nothing's image.    *)
flip(data, at) ==
  ReplaceAt(data, at, IF data[at].t = "num" THEN Num(data[at].n + 1) ELSE Junk)

AfterHeader == 2                       \* the first cell after the header
FirstTag    == AfterHeader + 1         \* after meta_len
SecondTag   == FirstTag + EntryPrefix + Len(filename)

swapMetadataTags(data) ==
  [data EXCEPT ![FirstTag] = data[SecondTag], ![SecondTag] = data[FirstTag]]

duplicateMetadataTag(data) == [data EXCEPT ![SecondTag] = data[FirstTag]]

metadataLengthOverrun(data) == [data EXCEPT ![FirstTag + 1] = Num(MaxU32)]

oversizedChunkLength(data) == [data EXCEPT ![AfterHeader] = Num(MaxU32)]

zeroChunkSize(data) == replace(data, "chunkSize", 0)

emptyMetadataBlock(data) ==
  InsertAt(replace(data, "hasMetadata", TRUE), AfterHeader, Num(0))

oversizedEncryptedChunkSize(data) == replace(data, "chunkSize", MaxU32)

(* The one chunk of data is left a byte less than a tag.                   *)
encryptedShortChunk(data) ==
  <<data[1], Num(TagLen - 1)>> \o SubSeq(data, 3, 2 + TagLen - 1)
  \o SubSeq(data, 3 + U32(data[AfterHeader]), Len(data))

(* The root of a plain container over what data now holds.                 *)
recomputeLegacyRoot(data) ==
  LET start == IF data[1].h.hasMetadata THEN 1 + 1 + U32(data[AfterHeader]) ELSE 1
      offset[i \in Nat] ==
        IF i = 0 THEN start ELSE offset[i - 1] + 1 + U32(data[offset[i - 1] + 1])
      leaves == [i \in 1..data[1].h.chunkCount |->
                   Leaf(SubSeq(data, offset[i - 1] + 2, offset[i]))]
  IN  ReplaceAt(data, Len(data) - 1, RootCell(NoKey, SubSeq(data, 1, start) \o leaves))

FilenameAt == FirstTag + EntryPrefix

tamperMetadata(data) == recomputeLegacyRoot([data EXCEPT ![FilenameAt + 1] = Num(Underscore)])

malformedReservedMetadata(data) == [data EXCEPT ![FilenameAt] = Num(BadUtf8)]

oversizedChunkCount(data) == replace(data, "chunkCount", CapOfChunks + 1)

byExpected(positives, id) == (CHOOSE v \in positives : v.id = id).data

(* The table of buildNegatives: the error expected and the bytes.          *)
items(positives) ==
  LET plain             == byExpected(positives, "plain-one-byte")
      encrypted         == byExpected(positives, "encrypted-one-byte")
      encryptedEmpty    == byExpected(positives, "encrypted-empty")
      encryptedMetadata == byExpected(positives, "encrypted-metadata")
      plainMetadata     == byExpected(positives, "plain-metadata")
  IN
  {<<"negative-bad-magic", BadMagic, ReplaceAt(plain, 1, Junk)>>,
   <<"negative-version-two", UnsupportedVer, replace(plain, "version", 2)>>,
   <<"negative-hash-algo", UnsupportedAlgo, replace(plain, "hashAlgo", 2)>>,
   <<"negative-aead-algo", UnsupportedAlgo, replace(plain, "aeadAlgo", 2)>>,
   <<"negative-reserved-flag", ReservedBits, replace(plain, "reserved", TRUE)>>,
   <<"negative-inconsistent-encryption", ReservedBits, replace(plain, "encrypted", TRUE)>>,
   <<"negative-truncated", Truncated, Front(plain)>>,
   <<"negative-root-mismatch", RootMismatch, flip(plain, 3)>>,
   <<"negative-chunk-auth", ChunkAuth, flip(encrypted, 3)>>,
   <<"negative-missing-key", MissingKey, encrypted>>,
   <<"negative-meta-out-of-order", MetaMalformed, swapMetadataTags(plainMetadata)>>,
   <<"negative-meta-duplicate", MetaMalformed, duplicateMetadataTag(plainMetadata)>>,
   <<"negative-meta-overrun", MetaMalformed, metadataLengthOverrun(plainMetadata)>>,
   <<"negative-oversized-clen", Truncated, oversizedChunkLength(plain)>>,
   <<"negative-zero-chunk-size", ReservedBits, zeroChunkSize(plain)>>,
   <<"negative-empty-metadata", MetaMalformed, emptyMetadataBlock(plain)>>,
   <<"negative-trailing-data", TrailingData, Append(plain, Junk)>>,
   <<"negative-encrypted-zero-chunk-size", ReservedBits, zeroChunkSize(encrypted)>>,
   <<"negative-encrypted-oversized-chunk-size", ReservedBits,
     oversizedEncryptedChunkSize(encrypted)>>,
   <<"negative-encrypted-short-clen", ChunkAuth, encryptedShortChunk(encrypted)>>,
   <<"negative-encrypted-metadata-tamper", ChunkAuth, tamperMetadata(encryptedMetadata)>>,
   <<"negative-encrypted-reserved-metadata", MetaMalformed,
     malformedReservedMetadata(encryptedMetadata)>>,
   <<"negative-encrypted-cap-missing-key", MissingKey, oversizedChunkCount(encrypted)>>,
   <<"negative-reserved-metadata", MetaMalformed, malformedReservedMetadata(plainMetadata)>>,
   <<"negative-encrypted-empty-wrong-key", RootMismatch, encryptedEmpty>>}

buildNegatives(positives) ==
  {[id |-> item[1], input |-> <<>>, entries |-> <<>>, encrypted |-> FALSE,
    key |-> IF item[1] = "negative-encrypted-empty-wrong-key" THEN WrongKey ELSE NoKey,
    data |-> item[3], expectError |-> item[2]] : item \in items(positives)}

buildArtifacts(positives) == positives \cup buildNegatives(positives)

vectors == buildArtifacts(positive)
=============================================================================
