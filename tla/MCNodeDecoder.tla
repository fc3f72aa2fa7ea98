--------------------------- MODULE MCNodeDecoder ----------------------------
(***************************************************************************)
(* NodeDecoder over containers of several chunks and metadata, intact and  *)
(* damaged, in pieces of one cell and of several, with a mark of two units *)
(* that one chunk can pass; or NodeInspect over every stream of UbcSamples *)
(* in pieces of one cell, of some, and of more than a whole prefix.  A     *)
(* program does one or the other with its source, and they share nothing.  *)
(***************************************************************************)
EXTENDS NodeDecoder, NodeInspect, UbcDamage

KeyA == <<1>>
KeyB == <<2>>

Mime == <<[tag |-> MimeType, value |-> <<Num(1)>>]>>

MCOriginals == Originals(
  {Recipe(<<Num(1), Num(2), Num(1)>>, NoKey, 0, Mime, 1),
   Recipe(<<Num(1), Num(2), Num(1)>>, KeyA, 1, <<>>, 2),
   Recipe(<<>>, KeyA, 1, Mime, 1)})

MCUnset == -1
MCDefaults == [maxMetaBytes |-> 4, maxChunkLen |-> 3, maxChunkCount |-> 3, maxTotalSize |-> 3]
MCNoCaps   == [maxMetaBytes |-> MCUnset, maxChunkLen |-> MCUnset, maxChunkCount |-> MCUnset,
               maxTotalSize |-> MCUnset]
MCTightCaps == [maxMetaBytes |-> 3, maxChunkLen |-> 2, maxChunkCount |-> MCUnset, maxTotalSize |-> 0]

(* A container of more chunks than the readable side may hold. *)
MCLong == EncodedFrom(Recipe(<<Num(1), Num(2), Num(1), Num(2), Num(1)>>, NoKey, 0, <<>>, 1)).out
MCLongCaps == [maxMetaBytes |-> 0, maxChunkLen |-> 1, maxChunkCount |-> 5, maxTotalSize |-> 5]

Given(streams, key, options) ==
  {[stream |-> s, key |-> key, options |-> options] : s \in streams}

Chunkless(o) == HeaderDamages(o.out) \cup Overlong(o.out) \cup Reorderings(o)

(* One of no chunks and no metadata, read with caps of zero.               *)
MCBare == EncodedFrom(Recipe(<<>>, NoKey, 0, <<>>, 1)).out
MCZeroCaps == [cap \in DOMAIN MCDefaults |-> 0]

MCInputs ==
  UNION {Given({o.out} \cup Cuts(o.out) \cup Damages(o.out, {0}) \cup Chunkless(o), o.key, MCNoCaps)
         \cup Given({o.out}, KeyB, MCNoCaps) \cup Given({o.out}, KeyA \o KeyB, MCNoCaps)
         \cup Given({o.out}, o.key, MCTightCaps) : o \in MCOriginals}
  \cup Given({MCLong}, NoKey, MCLongCaps) \cup Given({MCBare}, NoKey, MCZeroCaps)

MCTails  == {Ends, Errs, Closes}
MCPieces == {1, 4}

-----------------------------------------------------------------------------
(* inspectStream.                                                          *)

VARIABLE job   \* "decodes" or "inspects"

Samples == INSTANCE UbcSamples

MCInspected == Samples!MCStreams
MCPrefixPieces == {1, 3, 7}

Decodes  == job = "decodes" /\ Next /\ UNCHANGED <<job, inspectVars>>
Inspects == job = "inspects" /\ InspectNext /\ UNCHANGED <<job, vars>>

BothInit ==
  \/ /\ job = "decodes" /\ Init
     /\ InspectBegins(<<>>, RunsOut)
  \/ /\ job = "inspects" /\ Init /\ stream = <<>> /\ input.key = NoKey /\ tail = Closes
     /\ InspectInit

BothSpec == BothInit /\ [][Decodes \/ Inspects]_<<job, vars, inspectVars>> /\ Fairness
=============================================================================
