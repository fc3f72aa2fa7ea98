---------------------------- MODULE PyOriginals -----------------------------
(***************************************************************************)
(* The Decoder of the Python SDK in a world in which some containers were  *)
(* encoded: what it takes for one of them, and what it releases, when its  *)
(* source raises in between and the caller reads on.                       *)
(***************************************************************************)
EXTENDS PyDecoder, UbcOriginals

CONSTANT Made   (* the recipes of the containers that were encoded *)

ASSUME PyOriginalsAssumption == Encodable(Made)

Known == Originals(Made)

-----------------------------------------------------------------------------
(* Properties, of streams in which no seal is forged.                      *)

MadeUnder(o) ==
  o.head = HeaderCell(header) /\ o.meta = region /\ (header.encrypted => o.key = key)

(* Whatever the source did in between, and however often the caller went   *)
(* on after an OSError: what the decoder calls complete is the plaintext   *)
(* of a container that was encoded, all of it, in order and each piece     *)
(* once, except what read(-1) had collected when it raised, which the      *)
(* caller never gets.                                                      *)
RetriesAreSound ==
  finalized => \E o \in Known :
    /\ MadeUnder(o)
    /\ IF dropped = <<>> THEN Accepted = o.plain
       ELSE Len(dropped) + Len(Accepted) = Len(o.plain)

(* With a key, a retry cannot make the decoder release bytes that are not  *)
(* the next ones of what was encoded, whether or not it comes to its end:  *)
(* a chunk read from the wrong place does not open at its index.           *)
EncryptedReleasesInOrder ==
  (header.encrypted /\ dropped = <<>> /\ Accepted # <<>>) =>
    \E o \in Known : MadeUnder(o) /\ IsPrefix(Accepted, o.plain)

(* Neither: an OSError of the source costs the caller nothing but time.    *)
OnlyOriginals == Unforged(stream, Known) => RetriesAreSound /\ EncryptedReleasesInOrder
=============================================================================
