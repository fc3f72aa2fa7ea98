------------------------------ MODULE OneShot -------------------------------
(***************************************************************************)
(* The decoder that holds the whole container in memory: decodeBytes and   *)
(* inspect of sdk/node.  It is a function of the container, the key and    *)
(* the caps, written apart from the Go code, and it is what the streaming  *)
(* decoders are compared with.                                             *)
(*                                                                         *)
(* A result is the error (NoError if none), the plaintext of the chunks    *)
(* accepted before it, the parsed metadata, and whether the failure was a  *)
(* chunk body cut short by the end of the container.                       *)
(***************************************************************************)
EXTENDS UbcFormat

Result(err, plain, entries, inBody) ==
  [err |-> err, plain |-> plain, entries |-> entries, inBody |-> inBody]

(* parse_metadata over the container from the end of the header.           *)
parse_metadata(container, maxBytes) ==
  IF Len(container) < 2 THEN Malformed
  ELSE LET length == U32(container[2])
       IN  IF length = 0 \/ length > maxBytes \/ length > Len(container) - 2 THEN Malformed
           ELSE ParseMetadata(SubSeq(container, 2, 2 + length))

MetaEnd(container) ==
  IF container[1].h.hasMetadata THEN 2 + U32(container[2]) ELSE 1

RegionOf(container) == SubSeq(container, 2, MetaEnd(container))

(* What inspect checks: the header, and the metadata if there is any.      *)
inspectError(container, maxBytes) ==
  IF container = <<>> THEN Truncated
  ELSE IF ParseHeader(container[1]) # NoError THEN ParseHeader(container[1])
  ELSE IF container[1].h.hasMetadata /\ ~parse_metadata(container, maxBytes).ok
  THEN MetaMalformed
  ELSE NoError

(* Then the key, and the caps on the counts in the header.                 *)
PreambleError(container, key, caps) ==
  LET h == container[1].h
  IN  IF inspectError(container, caps.maxMetaBytes) # NoError
      THEN inspectError(container, caps.maxMetaBytes)
      ELSE IF h.encrypted /\ Len(key) # KeyLen THEN MissingKey
      ELSE IF h.chunkCount > caps.maxChunkCount \/ h.totalSize > caps.maxTotalSize
      THEN Truncated
      ELSE NoError

(* One turn of the chunk loop: what is wrong with the chunk at `offset`,   *)
(* the index-th, `got` plaintext units after the start.                    *)
ChunkError(container, key, caps, index, offset, got) ==
  LET h      == container[1].h
      length == U32(container[offset + 1])
      body   == SubSeq(container, offset + 2, offset + 1 + length)
  IN  IF Len(container) - offset < 1 THEN Truncated
      ELSE IF length > caps.maxChunkLen \/ length > Len(container) - offset - 1 THEN Truncated
      ELSE IF /\ h.encrypted
              /\ ~Opens(key, h.baseNonce, container[1], RegionOf(container), index, body)
      THEN ChunkAuth
      ELSE IF got + Len(body) - (IF h.encrypted THEN TagLen ELSE 0) > h.totalSize
      THEN RootMismatch
      ELSE NoError

CutInBody(container, caps, offset) ==
  /\ Len(container) - offset >= 1
  /\ U32(container[offset + 1]) <= caps.maxChunkLen
  /\ U32(container[offset + 1]) > Len(container) - offset - 1

(* The loop: where it starts, a turn of it, and where it ends.             *)
Start(container) ==
  [err |-> NoError, offset |-> MetaEnd(container), plain |-> <<>>, leaves |-> <<>>, inBody |-> FALSE]

Turn(container, key, caps, s, index) ==
  LET err  == ChunkError(container, key, caps, index, s.offset, Len(s.plain))
      body == SubSeq(container, s.offset + 2, s.offset + 1 + U32(container[s.offset + 1]))
  IN  IF s.err # NoError THEN s
      ELSE IF err # NoError
      THEN [s EXCEPT !.err = err, !.inBody = CutInBody(container, caps, s.offset)]
      ELSE [s EXCEPT !.offset = @ + 1 + Len(body),
                     !.plain  = @ \o (IF container[1].h.encrypted THEN openChunk(body) ELSE body),
                     !.leaves = Append(@, Leaf(body))]

Walk(container, key, caps) ==
  LET after[i \in Nat] == IF i = 0 THEN Start(container)
                          ELSE Turn(container, key, caps, after[i - 1], i - 1)
  IN  after[container[1].h.chunkCount]

(* Stage 4 of SPEC.md section 5 alone: lengths, caps, and a footer.        *)
FramingIntact(container, caps) ==
  LET fits(at) == /\ at < Len(container)
                  /\ U32(container[at + 1]) <= caps.maxChunkLen
                  /\ U32(container[at + 1]) <= Len(container) - at - 1
      broken == Len(container)
      at[i \in Nat] == IF i = 0 THEN MetaEnd(container)
                       ELSE LET before == at[i - 1]
                            IN  IF fits(before) THEN before + 1 + U32(container[before + 1])
                                ELSE broken
      footer == at[container[1].h.chunkCount]
  IN  footer + 2 <= Len(container) /\ container[footer + 2] = MagicEnd

EndError(container, key, s) ==
  LET h    == container[1].h
      left == Len(container) - s.offset
      root == RootCell(IF h.encrypted THEN rootKey(key, h.baseNonce) ELSE NoKey,
                       <<container[1]>> \o RegionOf(container) \o s.leaves)
  IN  IF left < 2 THEN Truncated
      ELSE IF container[s.offset + 2] # MagicEnd THEN Truncated
      ELSE IF Len(s.plain) # h.totalSize \/ container[s.offset + 1] # root THEN RootMismatch
      ELSE IF left # 2 THEN TrailingData
      ELSE NoError

(* decodeBytes of sdk/node: either kind of container.                      *)
decodeBytes(container, key, caps) ==
  LET early == PreambleError(container, key, caps)
  IN  IF early # NoError THEN Result(early, <<>>, <<>>, FALSE)
      ELSE LET s   == Walk(container, key, caps)
               err == IF s.err # NoError THEN s.err ELSE EndError(container, key, s)
           IN  Result(err, s.plain,
                      IF container[1].h.hasMetadata
                      THEN parse_metadata(container, caps.maxMetaBytes).entries ELSE <<>>,
                      s.inBody)

(* The same, of an input <<container, key, caps>>.                         *)
Decoded(input) == decodeBytes(input[1], input[2], input[3])
=============================================================================
