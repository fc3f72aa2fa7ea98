------------------------------ MODULE UbcMeta -------------------------------
(***************************************************************************)
(* The metadata region of a container: meta_len followed by tag-length-    *)
(* value entries in strictly ascending tag order.  EncodeMetadata and      *)
(* ParseMetadata are sdk/go/meta.go; the two other SDKs share the rules.   *)
(* In cells: a tag is one, a length is one, a value has one per unit.      *)
(***************************************************************************)
EXTENDS UbcCells, SequencesExt

CONSTANTS
  MaxAscii,      (* units 1..MaxAscii stand for the bytes 0x01..0x7f         *)
  CreatedAtLen   (* the length of a created_at value: 8 bytes                *)

ASSUME MetaAssumption == MaxAscii \in Nat \ {0} /\ CreatedAtLen \in Nat \ {0}

Nul     == 0               \* the unit of a NUL byte
Bom     == MaxAscii + 1    \* the unit of a UTF-8 byte order mark
BadUtf8 == MaxAscii + 2    \* a unit that is not valid UTF-8

FileName  == 1
MimeType  == 2
CreatedAt == 3

EntryPrefix == 2           \* cells of an entry before its value

Parsed(entries) == [ok |-> TRUE, entries |-> entries]
Malformed       == [ok |-> FALSE, entries |-> <<>>]

validReservedMetadata(entry) ==
  LET unit(i) == U32(entry.value[i])
      units   == DOMAIN entry.value
  IN /\ entry.tag = FileName => \A i \in units :
          unit(i) \notin {Nul, BadUtf8} /\ (i = 1 => unit(i) # Bom)
     /\ entry.tag = MimeType => \A i \in units : unit(i) \in 1..MaxAscii
     /\ entry.tag = CreatedAt => Len(entry.value) = CreatedAtLen

EntryCells(entry) == <<Num(entry.tag), Num(Len(entry.value))>> \o entry.value

TagBefore(a, b) == a.tag < b.tag

(* The orders of the entries in which none comes before one of a smaller   *)
(* tag: sort.Slice leaves them in any of these.                            *)
Orders(entries) ==
  {p \in [DOMAIN entries -> DOMAIN entries] :
     \A i, j \in DOMAIN entries :
       i < j => p[i] # p[j] /\ ~TagBefore(entries[p[j]], entries[p[i]])}

(* All of the entries, each once, in strictly ascending order of tags.     *)
InTagOrder(sorted, entries) ==
  /\ Len(sorted) = Len(entries) /\ Range(sorted) = Range(entries)
  /\ \A i \in 2..Len(sorted) : TagBefore(sorted[i - 1], sorted[i])

(* With a bug: entries are written in the order given.                     *)
Unsorted(entries) == entries

Sorted(entries) ==
  LET order == CHOOSE p \in Orders(entries) : TRUE
  IN  [i \in DOMAIN entries |-> entries[order[i]]]

EncodeMetadata(entries) ==
  LET sorted == Sorted(entries)
      body   == FlattenSeq([i \in DOMAIN sorted |-> EntryCells(sorted[i])])
      legal  == /\ Len(body) <= MaxU32
                /\ \A i \in DOMAIN sorted : /\ validReservedMetadata(sorted[i])
                                            /\ i > 1 => sorted[i-1].tag # sorted[i].tag
  IN  IF entries = <<>> THEN [ok |-> TRUE, region |-> <<>>]
      ELSE IF legal THEN [ok |-> TRUE, region |-> <<Num(Len(body))>> \o body]
      ELSE [ok |-> FALSE, region |-> <<>>]

(* With a bug: a repeated tag is accepted.                                 *)
AscendsOrRepeats(last, tag) == last <= tag

Ascends(last, tag) == last < tag

(* The loop of ParseMetadata is at `offset` of body and has read `entries`. *)
LastTag(entries) == IF entries = <<>> THEN -1 ELSE entries[Len(entries)].tag

EntryEnd(body, offset) == offset + EntryPrefix + U32(body[offset + 2])

EntryAt(body, offset) ==
  [tag   |-> U32(body[offset + 1]),
   value |-> SubSeq(body, offset + EntryPrefix + 1, EntryEnd(body, offset))]

AcceptsEntry(body, offset, entries) ==
  /\ Len(body) - offset >= EntryPrefix
  /\ EntryEnd(body, offset) <= Len(body)
  /\ Ascends(LastTag(entries), U32(body[offset + 1]))
  /\ validReservedMetadata(EntryAt(body, offset))

ParsedTo(offset, entries) == [offset |-> offset, entries |-> entries]

ParseStates(body) == [offset : Nat, entries : Seq([tag : Nat, value : Seq(Range(body))])]

ParseMetadata(data) ==
  LET length == U32(data[1])
      body   == SubSeq(data, 2, 1 + length)
      parse[r \in ParseStates(body)] ==
        IF r.offset >= Len(body) THEN Parsed(r.entries)
        ELSE IF ~AcceptsEntry(body, r.offset, r.entries) THEN Malformed
        ELSE parse[ParsedTo(EntryEnd(body, r.offset), Append(r.entries, EntryAt(body, r.offset)))]
  IN  IF data = <<>> THEN Malformed
      ELSE IF length = 0 \/ length > Len(data) - 1 THEN Malformed
      ELSE parse[ParsedTo(0, <<>>)]
=============================================================================
