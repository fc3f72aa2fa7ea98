---------------------------- MODULE MCGoEncoder -----------------------------
(***************************************************************************)
(* GoEncoder with buffers of up to three units, one of them long enough to *)
(* pass the largest size, chunk sizes that divide the total and that do    *)
(* not, legal and illegal metadata, fixed and random nonces.               *)
(***************************************************************************)
EXTENDS GoEncoder

MCPieces == {<<>>, <<Num(1), Num(2), Num(1)>>, <<Num(2)>>}

MCMetadataLists ==
  {<<>>, <<[tag |-> 4, value |-> <<Num(0)>>], [tag |-> MimeType, value |-> <<>>]>>,
   <<[tag |-> 4, value |-> <<>>], [tag |-> 4, value |-> <<>>]>>}

MCNoNonce == -1

MCEncodeOptions ==
  {[Key |-> NoKey, ChunkSize |-> 0, BaseNonce |-> MCNoNonce],
   [Key |-> NoKey, ChunkSize |-> 3, BaseNonce |-> 1],
   [Key |-> <<1>>, ChunkSize |-> 2, BaseNonce |-> MCNoNonce],
   [Key |-> <<1>>, ChunkSize |-> 1, BaseNonce |-> 1],
   [Key |-> <<1, 2>>, ChunkSize |-> 1, BaseNonce |-> 1],
   [Key |-> <<1>>, ChunkSize |-> MaxU32, BaseNonce |-> 1]}

MCRandomNonces == {1, 2}
=============================================================================
