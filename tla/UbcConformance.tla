--------------------------- MODULE UbcConformance ---------------------------
(***************************************************************************)
(* The shared vectors put to the readers and encoders that are tested with *)
(* them: DecodeBytes and Verify of sdk/go, decodeBytes of sdk/node (module *)
(* OneShot), and the encoders of sdk/go.  The suites pass different keys   *)
(* to a negative vector that names none: the fixed key, or none at all.    *)
(***************************************************************************)
EXTENDS GoEntryPoints, Vectorgen

CONSTANT Vectors   (* the vectors under test, those of Vectorgen            *)

ASSUME ConformanceAssumption == Vectors \subseteq vectors

VARIABLE vector    \* the vector under test, NoVector for any other container

conformanceVars == <<entryVars, vector>>

NoVector == [id |-> "none"]

(* The keys the test suites of the three SDKs decode a vector with.        *)
SuiteKeys(v) ==
  IF v.key # NoKey \/ v.expectError = MissingKey THEN {v.key}
  ELSE IF v.expectError = ChunkAuth THEN {FixedKey}
  ELSE {NoKey, FixedKey}

(* Vectors are read as the suites read them: whole, and without caps.      *)
Unlimited == [maxMetaBytes |-> 0, maxChunkLen |-> 0, maxChunkCount |-> 0, maxTotalSize |-> 0]

ConformanceInit ==
  \/ /\ vector \in Vectors /\ stream = vector.data
     /\ EntryInit /\ options = Unlimited /\ tail = EOF /\ optKey \in SuiteKeys(vector)
  \/ vector = NoVector /\ EntryInit /\ options # Unlimited

ConformanceNext == EntryNext /\ UNCHANGED vector

ConformanceSpec == ConformanceInit /\ [][ConformanceNext]_conformanceVars

(* The SDK's encoder on what a positive vector was made from.              *)
SdkEncoding(v) ==
  IF v.encrypted
  THEN EncodeEncryptedWithFixedNonce(v.input, FixedKey, FixedNonce, v.entries, ChunkSize)
  ELSE EncodePlain(v.input, v.entries, ChunkSize)
-----------------------------------------------------------------------------
(* Every vector gets the verdict its manifest entry names from every       *)
(* reader, whichever key the suite passes: the expected error although     *)
(* some vectors have a second fault (a wrong key, a cap exceeded, a root   *)
(* no longer right) that another order of checks would report; and a       *)
(* positive vector is read back to what it was made from.                  *)
GoVerdict ==
  (vector # NoVector /\ result # Running /\ entry # "Inspect") =>
    /\ result.err = vector.expectError
    /\ (result.err = NoError /\ entry = "DecodeBytes") =>
         result.plain = vector.input /\ result.entries = vector.entries

NodeVerdict ==
  (vector # NoVector /\ phase = "new") =>
    LET node == decodeBytes(stream, optKey, limits)
    IN  /\ node.err = vector.expectError
        /\ node.err = NoError => node.plain = vector.input /\ node.entries = vector.entries

ReadersMeetVectors == GoVerdict /\ NodeVerdict

(* The generator and the SDK are two implementations of one encoding: the  *)
(* SDK's one-shot encoders reproduce every positive vector to the cell.    *)
SdkReproducesVectors ==
  (vector # NoVector /\ phase = "new" /\ vector.expectError = NoError) =>
    SdkEncoding(vector) = Encoded(vector.data)
=============================================================================
