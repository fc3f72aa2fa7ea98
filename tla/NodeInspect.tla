---------------------------- MODULE NodeInspect -----------------------------
(***************************************************************************)
(* inspectStream of sdk/node/src/index.ts: it reads the header and the     *)
(* metadata of a stream through a PrefixReader, which takes the source in  *)
(* whatever pieces it comes, and puts back what it took too much, so that  *)
(* the caller can go on with the payload.                                  *)
(*                                                                         *)
(* Every await is a step of its own; nobody else reads the source while    *)
(* inspectStream does.  Node's Readable is modelled from how the class     *)
(* uses it: the iterator gives the next piece, says that there is none, or *)
(* rejects; unshift puts a piece back in front.                            *)
(***************************************************************************)
EXTENDS OneShot

CONSTANTS
  Inspected,     (* what a source may hold                                  *)
  PrefixPieces,  (* the sizes of the pieces a source may come in            *)
  MaxMetaBytes   (* options.maxMetaBytes                                    *)

ASSUME InspectAssumption ==
  /\ Inspected \subseteq Seq(Cells)
  /\ PrefixPieces \subseteq Nat \ {0}
  /\ MaxMetaBytes \in Nat

RunsOut == "end"       \* the source has no more
Rejects == "error"     \* its iterator rejects

VARIABLES
  given, givenTail,  \* the source from its beginning, and how it ends
  source,        \* what the iterator has not yet given
  remainder,     \* PrefixReader.remainder
  asked, chunks,  \* of the read() in progress
  step,          \* "header", "prefix", "body": that read; "restore", "returned"
  seen, prefix,  \* cells read before
  metadata, thrown  \* what inspectStream returns or throws

givenVars == <<given, givenTail>>
readVars  == <<source, remainder, chunks>>
inspectVars == <<givenVars, readVars, asked, step, seen, prefix, metadata, thrown>>

(* Called with a source that holds `content` and ends in `end`.            *)
InspectBegins(content, end) ==
  /\ given = content /\ givenTail = end
  /\ source = given /\ remainder = <<>>
  /\ asked = 1 /\ chunks = <<>> /\ step = "header"
  /\ seen = PlainHeader(1, 0, FALSE) /\ prefix = <<>> /\ metadata = <<>> /\ thrown = NoError

InspectInit == \E content \in Inspected, end \in {RunsOut, Rejects} : InspectBegins(content, end)

Reading == step \in {"header", "prefix", "body"}

Missing == asked - Len(chunks)

-----------------------------------------------------------------------------
(* PrefixReader.read                                                       *)

(* With a bug: what is left of the piece is forgotten.                     *)
RestOfNone(available) == <<>>

RestOf(available) == SubSeq(available, Lesser(Missing, Len(available)) + 1, Len(available))

TakesRemainder ==
  /\ Reading /\ Missing > 0 /\ remainder # <<>>
  /\ chunks' = chunks \o SubSeq(remainder, 1, Lesser(Missing, Len(remainder)))
  /\ remainder' = RestOf(remainder)
  /\ UNCHANGED <<givenVars, source, asked, step, seen, prefix, metadata, thrown>>

TakesPiece ==
  /\ Reading /\ Missing > 0 /\ remainder = <<>> /\ source # <<>>
  /\ \E n \in PrefixPieces :
       /\ remainder' = SubSeq(source, 1, Lesser(n, Len(source)))
       /\ source' = SubSeq(source, Lesser(n, Len(source)) + 1, Len(source))
  /\ UNCHANGED <<givenVars, chunks, asked, step, seen, prefix, metadata, thrown>>

(* The source has no more; while metadata is read, ERR_TRUNCATED becomes   *)
(* ERR_META_MALFORMED on its way out.                                      *)
Settles(err) == step' = "restore" /\ thrown' = err

(* With a bug: it stays ERR_TRUNCATED.                                     *)
TruncatedAlways(at) == Truncated

TruncationError(at) == IF at = "header" THEN Truncated ELSE MetaMalformed

SourceEnds ==
  /\ Reading /\ Missing > 0 /\ remainder = <<>> /\ source = <<>>
  /\ Settles(IF givenTail = Rejects THEN "EIO" ELSE TruncationError(step))
  /\ UNCHANGED <<givenVars, readVars, asked, seen, prefix, metadata>>

(* A read has all it was asked for.                                        *)
Resolved(at) == step = at /\ Missing = 0

Asks(at, n) == step' = at /\ asked' = n /\ chunks' = <<>> /\ UNCHANGED thrown

-----------------------------------------------------------------------------
(* inspectStream, from one await to the next.                              *)
InspectsHeader ==
  /\ Resolved("header")
  /\ LET fault == ParseHeader(chunks[1])
     IN  IF fault # NoError
         THEN Settles(fault) /\ UNCHANGED <<asked, chunks, seen>>
         ELSE /\ seen' = chunks[1].h
              /\ IF chunks[1].h.hasMetadata THEN Asks("prefix", 1)
                 ELSE Settles(NoError) /\ UNCHANGED <<asked, chunks>>
  /\ UNCHANGED <<givenVars, source, remainder, prefix, metadata>>

ReadsPrefix ==
  /\ Resolved("prefix")
  /\ prefix' = chunks
  /\ IF U32(chunks[1]) > MaxMetaBytes
     THEN Settles(MetaMalformed) /\ UNCHANGED <<asked, chunks>>
     ELSE Asks("body", U32(chunks[1]))
  /\ UNCHANGED <<givenVars, source, remainder, seen, metadata>>

InspectsMetadata ==
  /\ Resolved("body")
  /\ LET parsed == parse_metadata(<<HeaderCell(seen)>> \o prefix \o chunks, MaxMetaBytes)
     IN  IF parsed.ok THEN Settles(NoError) /\ metadata' = parsed.entries
         ELSE Settles(MetaMalformed) /\ UNCHANGED metadata
  /\ UNCHANGED <<givenVars, readVars, asked, seen, prefix>>

(* finally: restore, whatever happened.                                    *)
Restores ==
  /\ step = "restore" /\ step' = "returned"
  /\ source' = remainder \o source /\ remainder' = <<>>
  /\ UNCHANGED <<givenVars, chunks, asked, seen, prefix, metadata, thrown>>

InspectSteps ==
  \/ TakesRemainder \/ TakesPiece \/ SourceEnds
  \/ InspectsHeader \/ ReadsPrefix \/ InspectsMetadata \/ Restores

(* Ends here.                                                              *)
InspectReturned == step = "returned" /\ UNCHANGED inspectVars

InspectNext == InspectSteps \/ InspectReturned

InspectSpec == InspectInit /\ [][InspectNext]_inspectVars

-----------------------------------------------------------------------------
(* Properties.                                                             *)

(* What inspect answers for the whole container, except that a source that *)
(* fails before enough was seen is reported as that failure.               *)
Answers ==
  \/ /\ thrown = inspectError(given, MaxMetaBytes)
     /\ thrown = NoError =>
          /\ HeaderCell(seen) = given[1]
          /\ metadata = IF seen.hasMetadata
                        THEN parse_metadata(given, MaxMetaBytes).entries ELSE <<>>
  \/ /\ thrown = "EIO" /\ givenTail = Rejects
     /\ inspectError(given, MaxMetaBytes) \in {Truncated, MetaMalformed}

(* "Put any over-read tail back so callers can continue reading the        *)
(* payload": after it has returned well the source goes on exactly with    *)
(* the first chunk.  After an error it goes on somewhere in the prefix:    *)
(* nothing is repeated or left out within what it still gives.             *)
GoesOnWith(rest) ==
  \E at \in 0..Len(given) :
    /\ rest = SubSeq(given, at + 1, Len(given))
    /\ thrown = NoError => at = MetaEnd(given)
    /\ thrown # NoError /\ given # <<>> => at <= 2 + MaxMetaBytes

(* However its source comes in pieces, inspectStream answers what inspect  *)
(* answers for the whole of it, and afterwards the source goes on where    *)
(* the payload begins, or, after an error, where it was left.              *)
InspectIsTransparent == step = "returned" => Answers /\ GoesOnWith(source)
=============================================================================
