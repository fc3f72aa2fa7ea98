----------------------------- MODULE UbcSamples -----------------------------
(***************************************************************************)
(* The containers and caps of the bounded models: plain and encrypted,     *)
(* with and without metadata, empty, of one chunk and of several; each of  *)
(* them intact, damaged, and mixed with the others.  Chunks of three cells *)
(* with read blocks of two put cuts both at a block and inside one.        *)
(***************************************************************************)
EXTENDS UbcDamage

KeyA == <<1>>
KeyB == <<2>>
LongKey == KeyA \o KeyB     \* of the wrong length
MCKeys == {NoKey, KeyA, KeyB, LongKey}

Mime == <<[tag |-> MimeType, value |-> <<Num(1)>>]>>

Text(seed, n) == [i \in 1..n |-> Num(1 + ((i + seed) % 2))]

MCRecipes ==
  {Recipe(Text(0, 0), NoKey, 0, <<>>, 2), Recipe(Text(0, 3), NoKey, 0, Mime, 2),
   Recipe(Text(1, 4), NoKey, 0, <<>>, 2),
   Recipe(Text(0, 0), KeyA, 1, Mime, 2), Recipe(Text(0, 3), KeyA, 1, <<>>, 1),
   Recipe(Text(1, 4), KeyA, 2, Mime, 2), Recipe(Text(1, 3), KeyA, 2, <<>>, 1)}

MCOriginals == Originals(MCRecipes)

MCStreams == {o.out : o \in MCOriginals} \cup Mixtures(MCOriginals)
             \cup UNION {Damaged(o, 0..3) : o \in MCOriginals}

MCDefaults == [maxMetaBytes |-> 4, maxChunkLen |-> 3, maxChunkCount |-> 3, maxTotalSize |-> 4]
NoCaps     == [maxMetaBytes |-> 0, maxChunkLen |-> 0, maxChunkCount |-> 0, maxTotalSize |-> 0]
TightCaps  == [maxMetaBytes |-> 2, maxChunkLen |-> 2, maxChunkCount |-> 2, maxTotalSize |-> 3]
MCOptions  == {NoCaps, TightCaps}
SampleBlock == 2
=============================================================================
