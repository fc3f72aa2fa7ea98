--------------------------- MODULE GoEntryPoints ----------------------------
(***************************************************************************)
(* The calls of sdk/go that a program makes instead of reading a Decoder   *)
(* itself: DecodeBytes (io.ReadAll over a Decoder), Verify (io.Copy to     *)
(* io.Discard) and Inspect, which reads the prefix of the container only.  *)
(***************************************************************************)
EXTENDS GoDecoder

CONSTANT Entries    (* the entry points called: a subset of EntryPoints     *)

EntryPoints == {"DecodeBytes", "Verify", "Inspect"}

ASSUME EntryAssumption == Entries \subseteq EntryPoints

VARIABLES
  entry,    \* the entry point called
  result    \* Running, or what it returned: the error, plaintext, metadata

entryVars == <<vars, entry, result>>

Returned(err, plain, entries) == [err |-> err, plain |-> plain, entries |-> entries]

Running == Returned("running", <<>>, <<>>)

EntryInit == Init /\ entry \in Entries /\ result = Running
             /\ (entry = "DecodeBytes" => tail = EOF)

(* With a bug: the error is reported as it is.                             *)
reportRaw(err) == err

(* Verify's report of an error with no identifier is ERR_TRUNCATED.        *)
report(err) == IF err \in ErrorCode THEN err ELSE Truncated

EntriesOf(h, meta) == IF h.hasMetadata THEN ParseMetadata(meta).entries ELSE <<>>

Failed(err) == Returned(IF entry = "Verify" THEN report(err) ELSE err, <<>>, <<>>)

(* io.ReadAll and io.Copy: io.EOF is the end, any other error is returned. *)
Finished(err) ==
  IF err # EOF THEN Failed(err)
  ELSE IF entry = "Verify" THEN Returned(NoError, <<>>, <<>>)
  ELSE Returned(NoError, delivered, EntriesOf(header, region))

EntryOpens ==
  /\ result = Running /\ entry # "Inspect"
  /\ NewDecoder
  /\ result' = IF phase' = "rejected" THEN Failed(reply') ELSE result
  /\ UNCHANGED entry

EntryReads ==
  /\ result = Running
  /\ \E n \in 1..MaxRead : ReadStarts(n)
  /\ UNCHANGED <<entry, result>>

EntryReading ==
  /\ result = Running
  /\ LoadChunk \/ ReadReturns \/ ReadEnds
  /\ result' = IF phase' = "open" /\ reply' # NoError THEN Finished(reply') ELSE result
  /\ UNCHANGED entry

(* Inspect takes no options: the default cap on metadata.                  *)
Inspect ==
  /\ result = Running /\ entry = "Inspect"
  /\ LET err == PrefixError(Defaults.maxMetaBytes)
     IN  result' = IF err # NoError THEN Failed(err)
                   ELSE Returned(NoError, <<>>, IF stream[1].h.hasMetadata THEN ParseMetadata(Region).entries ELSE <<>>)
  /\ pos' = PrefixEnd(Defaults.maxMetaBytes)
  /\ UNCHANGED <<sourceVars, phase, openVars, payloadVars, endVars, callerVars, reply, entry>>

EntryNext == EntryOpens \/ EntryReads \/ EntryReading \/ Inspect

EntrySpec == EntryInit /\ [][EntryNext]_entryVars

-----------------------------------------------------------------------------
(* Properties.                                                             *)

OneShotResult == decodeBytes(stream, optKey, limits)

Done(e) == entry = e /\ result # Running

(* DecodeBytes, built on the streaming decoder, returns what the one-shot  *)
(* decoders of the other SDKs return for the same container, key and caps: *)
(* the same plaintext and metadata or the same error.  The one exception   *)
(* is a container cut inside a chunk body, whose io.ReadFull error it      *)
(* passes on, or swallows if it is io.EOF (decoder.go:170-173).            *)
DecodeBytesAgrees ==
  Done("DecodeBytes") =>
    \/ /\ result.err = OneShotResult.err
       /\ result.err = NoError => /\ result.plain = OneShotResult.plain
                                  /\ result.entries = OneShotResult.entries
    \/ OneShotResult.inBody /\ result.err \in {NoError, UnexpectedEOF}

(* Verify reports an intact source as the one-shot decoders do, and calls  *)
(* no failing source verified, with the same exception.                    *)
VerifyAgrees ==
  Done("Verify") =>
    \/ tail = EOF /\ result.err = OneShotResult.err
    \/ tail # EOF /\ result.err # NoError
    \/ tail = EOF /\ OneShotResult.inBody /\ result.err = NoError

(* Inspect reads no further than the metadata region, and accepts or       *)
(* rejects a container as the Node SDK's inspect does, with the same error *)
(* and the same metadata.                                                  *)
InspectReadsPrefix ==
  Done("Inspect") =>
    /\ result.err = inspectError(stream, Defaults.maxMetaBytes)
    /\ result.err = NoError =>
         /\ pos = MetaEnd(stream)
         /\ stream[1].h.hasMetadata =>
              result.entries = parse_metadata(stream, Defaults.maxMetaBytes).entries

EntryPointsAgree == DecodeBytesAgrees /\ VerifyAgrees /\ InspectReadsPrefix

(* What the package and its documents say, and the code does not do.       *)

(* Verify "runs the full decode pipeline over source without releasing     *)
(* plaintext, confirming per-chunk authentication (encrypted mode) and the *)
(* container root" (verify.go:11-12): OK means that the root was compared. *)
VerifyConfirmsRoot == Done("Verify") /\ result.err = NoError => finalized

(* "Every operation surfaces the stable error identifiers from SPEC.md     *)
(* section 5" (docs/API.md:132).                                           *)
ErrorsHaveIdentifiers == Done("DecodeBytes") => result.err \in ErrorCode \cup {NoError}

(* "When a container has multiple faults, readers apply this precedence    *)
(* order" (spec/SPEC.md:220): framing, up to a truncated footer, is stage  *)
(* 4 and chunk authentication stage 5.                                     *)
FramingComesFirst ==
  Done("Verify") /\ result.err = ChunkAuth => FramingIntact(stream, limits)
=============================================================================
