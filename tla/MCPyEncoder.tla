---------------------------- MODULE MCPyEncoder -----------------------------
(***************************************************************************)
(* Three writes of up to three units, chunk sizes that divide the total    *)
(* and that do not, with and without a key, a nonce and metadata.          *)
(***************************************************************************)
EXTENDS PyEncoder

MCBuffers  == {<<>>, <<Num(1), Num(2), Num(1)>>, <<Num(2)>>}
MCMetadata == {<<>>, <<[tag |-> 4, value |-> <<Num(0)>>]>>,
               <<[tag |-> 4, value |-> <<>>], [tag |-> 4, value |-> <<>>]>>}
MCNoNonce  == -1
MCEncodings  ==
  {[chunk_size |-> 2, key |-> NoKey, base_nonce |-> MCNoNonce],
   [chunk_size |-> 3, key |-> <<1>>, base_nonce |-> MCNoNonce],
   [chunk_size |-> 1, key |-> <<1>>, base_nonce |-> 1],
   [chunk_size |-> MaxU32, key |-> <<1>>, base_nonce |-> 1],
   [chunk_size |-> 0, key |-> NoKey, base_nonce |-> MCNoNonce],
   [chunk_size |-> 1, key |-> NoKey, base_nonce |-> 1],
   [chunk_size |-> 1, key |-> <<1, 2>>, base_nonce |-> 1]}
MCRandoms  == {1, 2}
=============================================================================
