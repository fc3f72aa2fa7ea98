------------------------------ MODULE UbcCells ------------------------------
(***************************************************************************)
(* The alphabet of a UBC byte stream.  A stream is a sequence of cells,    *)
(* and a cell is one fixed-size field of the container (the 40-byte        *)
(* header, a 4-byte length, a 32-byte root, the 4-byte end magic, a        *)
(* 16-byte GCM tag) or one unit of payload.  A cell is the smallest piece  *)
(* whose loss the decoder can tell apart: a cut inside a field has the     *)
(* effect of a cut before it, except inside a chunk body, and a chunk body *)
(* is a run of cells of its own.                                           *)
(*                                                                         *)
(* Digests, tags and ciphertext are opaque.  SHA-256 and HMAC are          *)
(* injective (a digest IS its key and its input) and AES-GCM is ideal (a   *)
(* tag IS the key, nonce, associated data and ciphertext it was made of).  *)
(***************************************************************************)
EXTENDS Integers, Sequences

CONSTANTS
  MaxU32,   (* the largest uint32: chunk sizes, clen and meta_len fields    *)
  MaxU64    (* the largest uint64: chunk counts and plaintext sizes         *)

ASSUME WidthAssumption == MaxU32 \in Nat \ {0} /\ MaxU64 \in Nat /\ MaxU32 <= MaxU64

Num(n)        == [t |-> "num", n |-> n]          \* a number, or a payload unit
HeaderCell(h) == [t |-> "header", h |-> h]
Leaf(body)    == [t |-> "leaf", body |-> body]   \* SHA-256 of a chunk body
RootCell(key, input) == [t |-> "root", key |-> key, input |-> input]
MagicEnd      == [t |-> "magicEnd"]
Junk          == [t |-> "junk"]                  \* a damaged field

(* The number a little-endian length field holds.  A cell that is not a    *)
(* number is a piece of a digest, of a ciphertext or of text: read as a    *)
(* length it is taken to be the largest one, beyond every cap.             *)
U32(cell) == IF cell.t = "num" THEN cell.n ELSE MaxU32

Lesser(a, b) == IF a <= b THEN a ELSE b

(* uint64 addition, which wraps around.                                    *)
AddU64(a, b) == IF a + b > MaxU64 THEN a + b - (MaxU64 + 1) ELSE a + b
=============================================================================
