---------------------------- MODULE UbcOriginals ----------------------------
(***************************************************************************)
(* What encoders have made: the recipes of some containers, and what each  *)
(* became.  Decoders are asked whether they take anything else for one.    *)
(***************************************************************************)
EXTENDS UbcFormat

(* What an original is made of: the plaintext, the key, the base nonce,    *)
(* the metadata and the chunk size.                                        *)
Recipe(plain, key, base, entries, size) ==
  [plain |-> plain, key |-> key, base |-> base, entries |-> entries, size |-> size]

Recipes == [plain : Seq(NumCells), key : Seq(Nat), base : Nat,
            entries : Seq([tag : 0..MaxU32, value : Seq(NumCells)]), size : 0..MaxU32]

(* What the encoder gives for a recipe.                                    *)
EncodedFrom(r) ==
  IF r.key = NoKey THEN EncodePlain(r.plain, r.entries, r.size)
  ELSE EncodeEncryptedWithFixedNonce(r.plain, r.key, r.base, r.entries, r.size)

(* The chunk bodies of the container `out` of a recipe.                    *)
BodiesOf(r, out, meta) ==
  LET chunks == ChunksOf(r.plain, r.size)
  IN  IF r.key = NoKey THEN chunks
      ELSE [i \in DOMAIN chunks |-> sealChunk(r.key, r.base, out[1], meta, i - 1, chunks[i])]

(* The original of a recipe: what was encoded, under which key, and the    *)
(* container with its parts.                                               *)
Original(r) ==
  LET out  == EncodedFrom(r).out
      meta == EncodeMetadata(r.entries).region
  IN  [plain |-> r.plain, key |-> r.key, meta |-> meta, head |-> out[1], out |-> out,
       bodies |-> BodiesOf(r, out, meta)]

Originals(recipes) == {Original(r) : r \in recipes}

(* Recipes that an encoder accepts, and whose base nonces are what nonces  *)
(* have to be: no two encrypted originals under one key share their header *)
(* (which has the base nonce) and their metadata.                          *)
NonceReused(o, p) == o.key # NoKey /\ o.key = p.key /\ o.head = p.head /\ o.meta = p.meta

Encodable(recipes) ==
  /\ recipes \subseteq Recipes
  /\ \A r \in recipes : Len(r.plain) <= MaxU64 /\ EncodedFrom(r).err = NoError
  /\ \A o, p \in Originals(recipes) : NonceReused(o, p) => o = p

(* The cells that only an encoder makes, which for a tag and for the root  *)
(* of an encrypted container takes the key.  A stream without any other is *)
(* made of originals, however it was cut, damaged or put together.         *)
Seals(s) == {c \in Range(s) : c.t \in {"root", "tag"}}

Unforged(s, originals) == Seals(s) \subseteq UNION {Seals(o.out) : o \in originals}
=============================================================================
