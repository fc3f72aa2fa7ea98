--------------------------- MODULE MCNodeEncoder ----------------------------
(***************************************************************************)
(* NodeEncoder with up to two writes of one or two units, in plain and in  *)
(* encrypted mode, with chunk sizes that divide the total and that do not, *)
(* and with options that finish refuses.                                   *)
(***************************************************************************)
EXTENDS NodeEncoder

MCPieces  == {<<Num(1), Num(2)>>, <<Num(2)>>}
MCEntries == <<[tag |-> MimeType, value |-> <<>>]>>

MCEncodeOptions ==
  {[Key |-> NoKey, ChunkSize |-> 2, BaseNonce |-> 0], [Key |-> <<1>>, ChunkSize |-> 1, BaseNonce |-> 1],
   [Key |-> <<1, 2>>, ChunkSize |-> 1, BaseNonce |-> 1], [Key |-> NoKey, ChunkSize |-> 0, BaseNonce |-> 0]}
=============================================================================
