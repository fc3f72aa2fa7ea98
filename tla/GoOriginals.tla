---------------------------- MODULE GoOriginals -----------------------------
(***************************************************************************)
(* The streaming decoder of sdk/go in a world in which some containers     *)
(* were encoded: what it takes for one of them, and what it releases.      *)
(***************************************************************************)
EXTENDS GoDecoder, UbcOriginals

CONSTANT Made   (* the recipes of the containers that were encoded *)

(* And no cap is the largest uint32, which is what a cell that is no       *)
(* number is read as: read as a length, it is refused.                     *)
ASSUME OriginalsAssumption ==
  /\ Encodable(Made)
  /\ \A caps \in Options \cup {Defaults} : caps.maxChunkLen < MaxU32

Known == Originals(Made)

-----------------------------------------------------------------------------
(* Properties, of streams in which no seal is forged.                      *)

(* A verified container is an original one: no cut, loss, repetition or    *)
(* change anywhere in it, of header, metadata, chunks, their order or      *)
(* number, footer or end, survives verification, and what has been         *)
(* returned, with what is still to be, is what was encoded.                *)
VerifiedIsOriginal ==
  finalized => \E o \in Known : /\ stream = o.out /\ o.key \in {NoKey, optKey}
                               /\ delivered \o pending = o.plain

(* In encrypted mode not even a damaged container yields a byte that was   *)
(* not encrypted there: what is released is always a prefix of the         *)
(* plaintext of the original with this header and this metadata.           *)
ReleasedIsOriginal ==
  header.encrypted /\ chunkIndex > 0 =>
    \E o \in Known : /\ o.head = HeaderCell(header) /\ o.meta = region
                    /\ o.key = optKey
                    /\ IsPrefix(delivered \o pending, o.plain)

(* Neither lets anything through that was not encoded.                     *)
OnlyOriginals == Unforged(stream, Known) => VerifiedIsOriginal /\ ReleasedIsOriginal
=============================================================================
