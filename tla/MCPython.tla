------------------------------ MODULE MCPython ------------------------------
(***************************************************************************)
(* The Decoder of the Python SDK over the streams of four originals of     *)
(* UbcSamples, intact and damaged, and of one with its footer twice, which *)
(* a retry of the probe after the footer can take for the whole; or the    *)
(* Encoder, and afterwards a Decoder over whatever it left in its sink.    *)
(***************************************************************************)
EXTENDS PyOriginals, PyReadBack, UbcSamples

MCPyRecipes ==
  {Recipe(Text(0, 0), NoKey, 0, <<>>, 2), Recipe(Text(1, 4), NoKey, 0, <<>>, 2),
   Recipe(Text(0, 3), KeyA, 1, <<>>, 1), Recipe(Text(0, 2), KeyA, 2, Mime, 2)}

TwoFooters(s) == s \o SubSeq(s, Len(s) - 1, Len(s))

MCPyStreams ==
  UNION {{o.out, TwoFooters(o.out)} \cup Damaged(o, 0..2) : o \in Originals(MCPyRecipes)}

MCPyKeys == {NoKey, KeyA, KeyB}
MCPyOptions == {MCDefaults, TightCaps}

-----------------------------------------------------------------------------
(* The encoder: two writes of up to three units, chunk sizes that divide   *)
(* the total and that do not, with and without a key, a nonce and metadata.*)

Encoding(size, k, nonce) == [chunk_size |-> size, key |-> k, base_nonce |-> nonce]

MCPyBuffers  == {<<>>, Text(0, 3), Text(1, 1)}
MCPyMetadata == {<<>>, Mime, Mime \o Mime}
MCPyNoNonce  == -1
MCPyRandoms  == {1, 2}

MCPyEncodings ==
  {Encoding(2, NoKey, MCPyNoNonce), Encoding(3, KeyA, MCPyNoNonce), Encoding(1, KeyA, 1),
   Encoding(MaxU32, KeyA, 1), Encoding(0, NoKey, MCPyNoNonce), Encoding(1, NoKey, 1),
   Encoding(1, LongKey, 1)}

PythonInit ==
  /\ ReadBackInit
  /\ IF job = "reads" THEN entries = <<>> /\ encoding.chunk_size = 0
     ELSE stream = <<>> /\ key = NoKey /\ options = MCDefaults

PythonSpec == PythonInit /\ [][ReadBackNext]_readBackVars
=============================================================================
