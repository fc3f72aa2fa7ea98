----------------------------- MODULE MetaCodec ------------------------------
(***************************************************************************)
(* EncodeMetadata and ParseMetadata against each other, on every list of   *)
(* up to MaxEntries entries and on every region of up to MaxData cells,    *)
(* each grown one entry or one cell at a time.                             *)
(***************************************************************************)
EXTENDS UbcMeta

CONSTANTS
  EntryTags, EntryValues,   (* of the entries of a list                     *)
  RegionUnits,              (* the cells of a region                        *)
  MaxEntries, MaxData

UnitCells == [t : {"num"}, n : 0..MaxU32]

ASSUME CodecAssumption ==
  /\ EntryTags \subseteq 0..MaxU32 /\ EntryValues \subseteq Seq(UnitCells)
  /\ RegionUnits \subseteq UnitCells

VARIABLES list, raw

CodecInit == list = <<>> /\ raw = <<>>

AddEntry ==
  /\ raw = <<>> /\ Len(list) < MaxEntries
  /\ \E tag \in EntryTags, value \in EntryValues :
       list' = Append(list, [tag |-> tag, value |-> value])
  /\ UNCHANGED raw

AddCell ==
  /\ list = <<>> /\ Len(raw) < MaxData
  /\ \E cell \in RegionUnits : raw' = Append(raw, cell)
  /\ UNCHANGED list

CodecNext == AddEntry \/ AddCell

CodecSpec == CodecInit /\ [][CodecNext]_<<list, raw>>

(* What the encoder writes, the parser reads back, in ascending order of   *)
(* tags; the order in which a caller lists the entries makes no difference *)
(* to the bytes.                                                           *)
EncodedIsReadBack ==
  LET meta   == EncodeMetadata(list)
      parsed == ParseMetadata(meta.region)
  IN  meta.ok /\ list # <<>> =>
        /\ parsed.ok /\ InTagOrder(parsed.entries, list)
        /\ EncodeMetadata(Reverse(list)) = meta

(* There is one encoding of a list: what the parser accepts is, up to its  *)
(* declared length, exactly what the encoder writes for what it returned.  *)
AcceptedIsCanonical ==
  LET parsed == ParseMetadata(raw)
  IN  parsed.ok => EncodeMetadata(parsed.entries) =
                     [ok |-> TRUE, region |-> SubSeq(raw, 1, 1 + U32(raw[1]))]

(* Encoding and parsing are inverse to each other: what the encoder writes *)
(* the parser reads back, in ascending order of tags, and there is one     *)
(* encoding of a list, the one the parser accepts.                         *)
MetadataIsInverse == EncodedIsReadBack /\ AcceptedIsCanonical
=============================================================================
