----------------------------- MODULE UbcFormat ------------------------------
(***************************************************************************)
(* The container of spec/SPEC.md as sdk/go builds and validates it: the    *)
(* header rules, the cryptographic bindings of a chunk and of the root,    *)
(* and the two one-shot encoders EncodePlain and EncodeEncrypted.          *)
(*                                                                         *)
(*   header | metadata region | (clen, body)* | root | "UBCE"              *)
(***************************************************************************)
EXTENDS UbcMeta

NoKey  == <<>>       \* an absent key, and the "key" of plain SHA-256
KeyLen == 1          \* the length of an AES-256 key, in units of 32 bytes
TagLen == 1          \* cells of a GCM tag (16 bytes)

(* The error identifiers of sdk/go/errors.go.                              *)
BadMagic        == "ERR_BAD_MAGIC"
UnsupportedVer  == "ERR_UNSUPPORTED_VER"
UnsupportedAlgo == "ERR_UNSUPPORTED_ALGO"
ReservedBits    == "ERR_RESERVED_BITS"
Truncated       == "ERR_TRUNCATED"
MetaMalformed   == "ERR_META_MALFORMED"
RootMismatch    == "ERR_ROOT_MISMATCH"
ChunkAuth       == "ERR_CHUNK_AUTH"
MissingKey      == "ERR_MISSING_KEY"
TrailingData    == "ERR_TRAILING_DATA"

ErrorCode == {BadMagic, UnsupportedVer, UnsupportedAlgo, ReservedBits, Truncated,
              MetaMalformed, RootMismatch, ChunkAuth, MissingKey, TrailingData}

NoError == "nil"     \* Go's nil error

Header == [version : Nat, encrypted : BOOLEAN, hasMetadata : BOOLEAN, reserved : BOOLEAN,
           hashAlgo : Nat, aeadAlgo : Nat, chunkSize : 0..MaxU32,
           chunkCount : 0..MaxU64, totalSize : 0..MaxU64, baseNonce : Nat]

HashSHA256     == 0
HashHMACSHA256 == 1
AEADNone       == 0
AEADAESGCM     == 1
ZeroNonce      == 0

validate(h) ==
  IF h.version # 1 THEN UnsupportedVer
  ELSE IF \/ h.hashAlgo \notin {HashSHA256, HashHMACSHA256}
          \/ h.aeadAlgo \notin {AEADNone, AEADAESGCM} THEN UnsupportedAlgo
  ELSE IF \/ h.reserved
          \/ h.chunkSize = 0
          \/ h.encrypted /\ \/ h.aeadAlgo # AEADAESGCM \/ h.hashAlgo # HashHMACSHA256
                            \/ h.chunkSize > MaxU32 - TagLen
          \/ ~h.encrypted /\ \/ h.aeadAlgo # AEADNone \/ h.hashAlgo # HashSHA256
                             \/ h.baseNonce # ZeroNonce
       THEN ReservedBits
  ELSE NoError

(* ParseHeader on the 40 bytes of one cell.                                *)
ParseHeader(cell) == IF cell.t # "header" THEN BadMagic ELSE validate(cell.h)

(* The nonce of chunk `index`: the base with the index XORed into it, one  *)
(* nonce per index of a base.                                              *)
chunkNonce(base, index) == <<base, index>>

rootKey(key, base) == <<key, base>>

(* With a bug: a chunk is not bound to the metadata.                       *)
chunkAADUnbound(header, metadataDigest, index) == <<header, <<>>, index>>

chunkAAD(header, metadataDigest, index) == <<header, metadataDigest, index>>

CtCell(key, nonce, n) == [t |-> "ct", key |-> key, nonce |-> nonce, n |-> n]

TagCell(key, nonce, aad, ct) ==
  [t |-> "tag", key |-> key, nonce |-> nonce, aad |-> aad, ct |-> ct]

(* With a bug: every chunk has the associated data of the first.           *)
sealChunkAtZero(key, base, header, metadataDigest, index, plain) ==
  LET nonce == chunkNonce(base, index)
      ct    == [i \in DOMAIN plain |-> CtCell(key, nonce, plain[i].n)]
  IN  Append(ct, TagCell(key, nonce, chunkAAD(header, metadataDigest, 0), ct))

sealChunk(key, base, header, metadataDigest, index, plain) ==
  LET nonce == chunkNonce(base, index)
      ct    == [i \in DOMAIN plain |-> CtCell(key, nonce, plain[i].n)]
  IN  Append(ct, TagCell(key, nonce, chunkAAD(header, metadataDigest, index), ct))

(* What GCM Open checks of a body, tag last, and what it then returns.     *)
Opens(key, base, header, metadataDigest, index, body) ==
  /\ Len(body) >= TagLen
  /\ Last(body) = TagCell(key, chunkNonce(base, index),
                          chunkAAD(header, metadataDigest, index), Front(body))

decrypt(cell) == IF cell.t = "ct" THEN Num(cell.n) ELSE Junk

openChunk(body) == [i \in 1..Len(body) - TagLen |-> decrypt(body[i])]

(* Everything a stream can hold: the fields encoders write, under any keys *)
(* and with any values of the fields' widths, and damaged ones.            *)
NumCells    == [t : {"num"}, n : 0..MaxU32]
HeaderCells == [t : {"header"}, h : Header]
CtCells     == [t : {"ct"}, key : Seq(Nat), nonce : Nat \X Nat, n : 0..MaxU32]
TagCells    == [t : {"tag"}, key : Seq(Nat), nonce : Nat \X Nat,
                aad : HeaderCells \X Seq(NumCells) \X Nat, ct : Seq(CtCells)]
LeafCells   == [t : {"leaf"}, body : Seq(NumCells \cup CtCells \cup TagCells)]
RootCells   == [t : {"root"}, key : {NoKey} \cup (Seq(Nat) \X Nat),
                input : Seq(HeaderCells \cup NumCells \cup LeafCells)]

Cells == NumCells \cup HeaderCells \cup CtCells \cup TagCells \cup RootCells
         \cup {MagicEnd, Junk}

-----------------------------------------------------------------------------
(* Building a container.                                                   *)

(* The plaintext cut in chunks of `size`, the last one shorter.            *)
ChunksOf(data, size) ==
  [i \in 1..(Len(data) + size - 1) \div size |->
     SubSeq(data, (i - 1) * size + 1, Lesser(i * size, Len(data)))]

Framed(body) == <<Num(Len(body))>> \o body

RootInput(header, meta, bodies) ==
  <<header>> \o meta \o [i \in DOMAIN bodies |-> Leaf(bodies[i])]

Container(key, header, meta, bodies) ==
  <<header>> \o meta \o FlattenSeq([i \in DOMAIN bodies |-> Framed(bodies[i])])
             \o <<RootCell(key, RootInput(header, meta, bodies)), MagicEnd>>

PlainHeader(size, total, hasMeta) ==
  [version |-> 1, encrypted |-> FALSE, hasMetadata |-> hasMeta, reserved |-> FALSE,
   hashAlgo |-> HashSHA256, aeadAlgo |-> AEADNone, chunkSize |-> size,
   chunkCount |-> (total + size - 1) \div size, totalSize |-> total, baseNonce |-> ZeroNonce]

EncryptedHeader(size, total, hasMeta, base) ==
  [PlainHeader(size, total, hasMeta) EXCEPT !.encrypted = TRUE,
     !.hashAlgo = HashHMACSHA256, !.aeadAlgo = AEADAESGCM, !.baseNonce = base]

(* The one-shot encoders: [err, out].                                      *)
Encoded(out)  == [err |-> NoError, out |-> out]
Rejected(err) == [err |-> err, out |-> <<>>]

EncodePlain(data, entries, size) ==
  LET meta   == EncodeMetadata(entries)
      header == PlainHeader(size, Len(data), meta.region # <<>>)
  IN  IF size = 0 THEN Rejected(ReservedBits)
      ELSE IF ~meta.ok THEN Rejected(MetaMalformed)
      ELSE IF validate(header) # NoError THEN Rejected(validate(header))
      ELSE Encoded(Container(NoKey, HeaderCell(header), meta.region, ChunksOf(data, size)))

EncodeEncryptedWithFixedNonce(data, key, base, entries, size) ==
  LET meta   == EncodeMetadata(entries)
      header == EncryptedHeader(size, Len(data), meta.region # <<>>, base)
      chunks == ChunksOf(data, size)
      sealed == [i \in DOMAIN chunks |->
                   sealChunk(key, base, HeaderCell(header), meta.region, i - 1, chunks[i])]
  IN  IF Len(key) # KeyLen \/ size = 0 THEN Rejected(ReservedBits)
      ELSE IF ~meta.ok THEN Rejected(MetaMalformed)
      ELSE IF validate(header) # NoError THEN Rejected(validate(header))
      ELSE Encoded(Container(rootKey(key, base), HeaderCell(header), meta.region, sealed))
=============================================================================
