---------------------------- MODULE MCGoDecoder -----------------------------
(***************************************************************************)
(* GoDecoder over intact and damaged containers, with the right key, a     *)
(* wrong one and none, default and tight caps, and sources that fail; and  *)
(* over containers whose root matches but whose header counts need not:    *)
(* every plain header with up to three chunks and every list of up to      *)
(* three bodies of up to three units, empty ones among them.  The largest  *)
(* uint64 is 6, so that totals reach it and pass it.                       *)
(***************************************************************************)
EXTENDS GoOriginals, UbcSamples

MCTails == {EOF, SourceError}

EdgeSize == 5    \* a chunk size no other container here has

EdgeHeader(count, total) ==
  [PlainHeader(EdgeSize, 0, FALSE) EXCEPT !.chunkCount = count, !.totalSize = total]

EdgeBodies == BoundedSeq({[i \in 1..n |-> Num(i)] : n \in 0..3}, 3)

EdgeStreams == {Container(NoKey, HeaderCell(EdgeHeader(c, n)), <<>>, bodies) :
                  c \in 0..3, n \in {0, 1, 2, 3, MaxU64}, bodies \in EdgeBodies}

EdgeCaps == [maxMetaBytes |-> 1, maxChunkLen |-> 3, maxChunkCount |-> 3, maxTotalSize |-> MaxU64]

AllStreams == MCStreams \cup EdgeStreams
AllOptions == MCOptions \cup {EdgeCaps}

IsEdge == stream # <<>> /\ stream[1].t = "header" /\ stream[1].h.chunkSize = EdgeSize

(* Edge streams are plain and intact, and are read under their own caps.   *)
MCInit ==
  /\ Init
  /\ IF IsEdge THEN options = EdgeCaps /\ optKey = NoKey /\ tail = EOF
     ELSE options # EdgeCaps

MCSpec == MCInit /\ [][Next]_vars /\ Fairness
=============================================================================
