-------------------------- MODULE MCUbcConformance --------------------------
(***************************************************************************)
(* The entry points over the vectors, with chunks of two cells and under   *)
(* the default caps, and over the streams of UbcSamples under caps of      *)
(* their own; and, apart from them, the metadata encoder and parser.       *)
(***************************************************************************)
EXTENDS UbcConformance, UbcSamples, MetaCodec

VARIABLE test   \* "containers" or "metadata"

testVars == <<conformanceVars, test, list, raw>>

AllStreams  == MCStreams \cup {v.data : v \in vectors}
AllKeys     == MCKeys \cup {FixedKey, WrongKey}
AllTails    == {EOF, SourceError}
SampleCaps  == [maxMetaBytes |-> 4, maxChunkLen |-> 3, maxChunkCount |-> 3, maxTotalSize |-> 4]
AllOptions  == {Unlimited, SampleCaps, TightCaps}
AllDefaults == [maxMetaBytes |-> 18, maxChunkLen |-> 4, maxChunkCount |-> CapOfChunks,
                maxTotalSize |-> 8]

MCTags   == {FileName, MimeType, CreatedAt, 4}
MCUnits  == {Num(n) : n \in Nul..BadUtf8}
MCValues == {<<>>, <<Num(Nul)>>, <<Num(1)>>, <<Num(Bom)>>, <<Num(1), Num(Bom)>>}

TestInit ==
  /\ ConformanceInit /\ CodecInit
  /\ test \in {"containers", "metadata"}
  /\ test = "metadata" => /\ stream = <<>> /\ optKey = NoKey /\ tail = EOF
                          /\ options = TightCaps /\ entry = "Inspect"

ContainerTest == test = "containers" /\ ConformanceNext /\ UNCHANGED <<test, list, raw>>

MetadataTest == test = "metadata" /\ CodecNext /\ UNCHANGED <<test, conformanceVars>>

TestSpec == TestInit /\ [][ContainerTest \/ MetadataTest]_testVars
=============================================================================
