---------------------------- MODULE CrossDecode -----------------------------
(***************************************************************************)
(* The cross-decode gate: scripts/cross-decode.mjs drives the Node SDK and *)
(* runs scripts/cross-decode-python.py and tools/crossdecode, the Go tool, *)
(* over containers the three leave for each other in a work directory.     *)
(* The Go tool can also be run by itself on a directory of any content.    *)
(*                                                                         *)
(* What the SDKs do is not assumed: an encoder may produce any container   *)
(* and a decoder may do anything with it, but the same thing every time.   *)
(* What the gate has seen of them is in `encodes` and `decodes`.           *)
(***************************************************************************)
EXTENDS Integers, Sequences, FiniteSets, Functions

CONSTANTS
  Cases,        (* the case list of the gate: a sequence of vector IDs      *)
  Containers,   (* the containers an encoder may produce                    *)
  CaseLists     (* the --cases the Go tool is started with by itself        *)

SDKs   == {"node", "python", "go"}
Ids    == Range(Cases)
Absent == "absent"
Unseen == "unseen"
Throws == "throws"

(* What the manifest may have wrong with the vector of a case.             *)
Faults == {"none", "missing", "duplicate", "negative", "no input", "path escapes",
           "half a key", "short key", "chunk size 0", "bad tag"}

Decodings == {"right", "wrong data", "wrong metadata", Throws}

(* A container is not one of the marks that stand for having none.         *)
GateAssumption ==
  /\ Cases \in Seq(STRING) /\ Cases # <<>> /\ CaseLists \subseteq Seq(STRING)
  /\ {Absent, Unseen, Throws} \cap Containers = {}

VARIABLES
  manifest,    \* the fault of each case's vector
  alone,       \* the Go tool is run by itself
  list,        \* the cases it was given, all of them in the gate
  python,      \* its --python
  files,       \* the work directory: producer -> case -> container
  encodes,     \* what each SDK's encoder makes of each case, once seen
  decodes,     \* what each SDK's decoder makes of each container of a case
  stage, done, \* the stage of the gate and the cases finished in it
  status       \* "running", "passed", "failed"

inputVars == <<manifest, alone, list, python>>
vars == <<inputVars, files, encodes, decodes, stage, done, status>>

Init ==
  /\ manifest \in [Ids -> Faults]
  /\ alone \in BOOLEAN
  /\ list \in IF alone THEN CaseLists ELSE {Cases}
  /\ python \in IF alone THEN BOOLEAN ELSE {TRUE}
  /\ IF alone THEN files \in [SDKs \ {"go"} -> [Ids -> Containers \cup {Absent}]]
     ELSE files = [s \in SDKs \ {"go"} |-> [c \in Ids |-> Absent]]
  /\ encodes = [s \in SDKs |-> [c \in Ids |-> Unseen]]
  /\ decodes = [s \in SDKs |-> [c \in Ids |-> [x \in Containers |-> Unseen]]]
  /\ stage = IF alone THEN "go starts" ELSE "node writes"
  /\ done = 0 /\ status = "running"

-----------------------------------------------------------------------------
(* What the three drivers refuse in the manifest.                          *)

(* cross-decode.mjs: a Map of the vectors, so the last duplicate counts.   *)
NodeRefuses == Faults \ {"none", "duplicate"}

(* cross-decode-python.py does not look at expectError, and its tags are   *)
(* whatever int(tag, 16) takes.                                            *)
PythonRefuses == Faults \ {"none", "negative", "bad tag"}

(* parseCaseIDs and readManifest of the Go tool, before any case.          *)
parseCaseIDs(ids) ==
  /\ ids # <<>>
  /\ \A i \in DOMAIN ids : ids[i] \in Ids
  /\ \A i, j \in DOMAIN ids : ids[i] = ids[j] => i = j

readManifest == \A c \in Ids : manifest[c] # "duplicate"

(* run and crossDecodeCase, parseMetadata, parseEncryption, encodeFresh.   *)
GoRefuses == Faults \ {"none", "duplicate"}

(* What is still possible of an SDK.                                       *)
Encodings(s, c) == IF encodes[s][c] = Unseen THEN Containers \cup {Throws} ELSE {encodes[s][c]}

Readings(s, c, container) ==
  IF decodes[s][c][container] = Unseen THEN Decodings ELSE {decodes[s][c][container]}

Fail == status' = "failed" /\ UNCHANGED <<stage, done>>

(* The stage goes on with its next case, or is over.                       *)
Continue(next) ==
  /\ status' = IF next = "passed" /\ done + 1 = Len(list) THEN "passed" ELSE status
  /\ IF done + 1 < Len(list) THEN done' = done + 1 /\ UNCHANGED stage
     ELSE done' = 0 /\ stage' = next

Case == list[done + 1]

At(s) == status = "running" /\ stage = s

-----------------------------------------------------------------------------
(* The fresh encoding of one case by Node, or by Python's --write.         *)
Writes(s, refused, next) ==
  \E container \in Encodings(s, Case) :
    IF manifest[Case] \in refused
    THEN Fail /\ UNCHANGED <<inputVars, files, encodes, decodes>>
    ELSE /\ encodes' = [encodes EXCEPT ![s][Case] = container]
         /\ files' = IF container = Throws THEN files
                     ELSE [files EXCEPT ![s][Case] = container]
         /\ IF container = Throws THEN Fail ELSE Continue(next)
         /\ UNCHANGED <<inputVars, decodes>>

NodeWrites == At("node writes") /\ Writes("node", NodeRefuses, "python writes")

PythonManifest == \A c \in Ids : manifest[c] \notin {"missing", "duplicate"}

PythonWrites ==
  /\ At("python writes")
  /\ Writes("python", IF PythonManifest THEN PythonRefuses ELSE Faults, "go starts")

GoStarts ==
  /\ At("go starts")
  /\ IF parseCaseIDs(list) /\ readManifest
     THEN stage' = "go checks" /\ UNCHANGED <<done, status>>
     ELSE Fail
  /\ UNCHANGED <<inputVars, files, encodes, decodes>>

(* With a bug: --python is read and not acted upon.                        *)
PythonUnread == {"node"}

(* The producers whose containers the Go tool decodes.                     *)
GoReads == IF python THEN {"node", "python"} ELSE {"node"}

(* crossDecodeCase up to the container of `producer`: it is there, decodes *)
(* to the input and its metadata, and is the one Go made.                  *)
Accepts(producer, fresh, reading) ==
  files[producer][Case] # Absent /\ reading[producer] = "right" /\ files[producer][Case] = fresh

(* Node's container comes first; if that fails Python's is not looked at.  *)
GoLooksAt(fresh, reading, producer) ==
  /\ fresh # Throws /\ files[producer][Case] # Absent
  /\ producer = "python" => python /\ Accepts("node", fresh, reading)

GoChecks ==
  /\ At("go checks")
  /\ IF manifest[Case] \in GoRefuses
     THEN Fail /\ UNCHANGED <<inputVars, files, encodes, decodes>>
     ELSE \E fresh \in Encodings("go", Case), reading \in [{"node", "python"} -> Decodings] :
       LET seen == {p \in {"node", "python"} : GoLooksAt(fresh, reading, p)}
       IN  /\ \A p \in seen : reading[p] \in Readings("go", Case, files[p][Case])
           /\ \A p, q \in seen : files[p][Case] = files[q][Case] => reading[p] = reading[q]
           /\ \A p \in {"node", "python"} \ seen : reading[p] = Throws
           /\ encodes' = [encodes EXCEPT !["go"][Case] = fresh]
           /\ decodes' = [decodes EXCEPT !["go"][Case] =
                [x \in Containers |->
                   IF \E p \in seen : files[p][Case] = x
                   THEN reading[CHOOSE p \in seen : files[p][Case] = x] ELSE @[x]]]
           /\ IF fresh # Throws /\ \A p \in GoReads : Accepts(p, fresh, reading)
              THEN Continue(IF alone THEN "passed" ELSE "node reads") ELSE Fail
           /\ UNCHANGED <<inputVars, files>>

(* The container Go wrote for a case.                                      *)
GoFile(c) == encodes["go"][c]

FileOf(s, c) == IF s = "go" THEN GoFile(c) ELSE files[s][c]

(* cross-decode.mjs decodes Go's and Python's containers and encodes again *)
(* what it got; the re-encoding is Node's of the case if the data and the  *)
(* metadata are right.                                                     *)
NodeReads ==
  /\ At("node reads")
  /\ \E go \in Readings("node", Case, GoFile(Case)), py \in Readings("node", Case, FileOf("python", Case)) :
       /\ GoFile(Case) = FileOf("python", Case) => go = py
       /\ decodes' = [decodes EXCEPT !["node"][Case] =
                        [@ EXCEPT ![GoFile(Case)] = go, ![FileOf("python", Case)] = py]]
       /\ IF /\ go = "right" /\ py = "right"
             /\ GoFile(Case) = FileOf("node", Case) /\ GoFile(Case) = FileOf("python", Case)
          THEN Continue("python verifies") ELSE Fail
  /\ UNCHANGED <<inputVars, files, encodes>>

(* With a bug: the last stage is left out.                                 *)
PythonTakesItsOwn(readings) == TRUE

PythonTakes(readings) == \A s \in SDKs : readings[s] = "right"

(* Python's --verify decodes all three.                                    *)
PythonVerifies ==
  /\ At("python verifies")
  /\ \E readings \in [SDKs -> Decodings] :
       /\ \A s \in SDKs : readings[s] \in Readings("python", Case, FileOf(s, Case))
       /\ \A s, r \in SDKs : FileOf(s, Case) = FileOf(r, Case) => readings[s] = readings[r]
       /\ decodes' = [decodes EXCEPT !["python"][Case] =
            [x \in Containers |->
               IF \E s \in SDKs : FileOf(s, Case) = x
               THEN readings[CHOOSE s \in SDKs : FileOf(s, Case) = x] ELSE @[x]]]
       /\ IF /\ PythonTakes(readings)
             /\ \A s \in SDKs : FileOf(s, Case) = encodes["python"][Case]
          THEN Continue("passed") ELSE Fail
  /\ UNCHANGED <<inputVars, files, encodes>>

Next == NodeWrites \/ PythonWrites \/ GoStarts \/ GoChecks \/ NodeReads \/ PythonVerifies

Spec == Init /\ [][Next]_vars
-----------------------------------------------------------------------------
(* Properties.                                                             *)

(* A gate that passes has shown the SDKs interchangeable on every case:    *)
(* the three encoders made the same container of it, and each of the three *)
(* decoders reads that container, whoever wrote it, to the input and the   *)
(* metadata.  No stage may be skipped and no comparison weakened.          *)
PassMeansInterchangeable ==
  (status = "passed" /\ ~alone) =>
    \A c \in Ids : LET container == encodes["go"][c]
      IN  /\ \A s \in SDKs : encodes[s][c] = container
          /\ \A s \in SDKs : decodes[s][c][container] = "right"

(* The Go tool by itself passes only on a list of approved, positive cases *)
(* with both a key and a nonce or neither, each of which has a container   *)
(* from Node, and from Python if --python was given, that Go decodes to    *)
(* the input and would have written itself.                                *)
ToolPassIsEarned ==
  (status = "passed" /\ alone) =>
    /\ list # <<>> /\ Cardinality(Range(list)) = Len(list)
    /\ \A c \in Range(list) :
         /\ manifest[c] = "none"
         /\ \A s \in IF python THEN {"node", "python"} ELSE {"node"} :
              files[s][c] = encodes["go"][c] /\ decodes["go"][c][files[s][c]] = "right"

(* Neither way of running it passes anything that was not shown.           *)
PassIsEarned == PassMeansInterchangeable /\ ToolPassIsEarned
=============================================================================
