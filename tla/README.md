# Verification of unicodec (UBC)

TLA+ models of the programs in this repository, the TLC runs that check them on
small instances, and TLAPS proofs about them for all values of their
parameters. All of it is written from the code; the documents (`spec/SPEC.md`,
`docs/`) are read for what they promise, and four of those promises are refuted
below.

## 1. The system

UBC is a container format for one byte stream: a 40-byte header, an optional
metadata region (tag-length-value entries in ascending order of tags),
`ChunkCount` chunks of `clen || body`, a 32-byte root and the magic `UBCE`. In
encrypted mode each body is sealed with AES-GCM under a nonce derived from the
chunk's index and with the header, the digest of the metadata and the index as
associated data; the root is then an HMAC under a derived key, otherwise a
SHA-256, over header, metadata and the digests of the bodies.

| Part | State | Operations | What is hard | What makes it correct |
|---|---|---|---|---|
| Go `Decoder` (`sdk/go/decoder.go`) | source position, running root, chunk index, running total, pending plaintext, terminal error, finalized | `NewDecoder`, `Read` (loops over `loadChunk`, `verifyFooter`) | truncation anywhere, sources that fail, lengths that lie, errors that must stick, release before the root is known | nothing unauthentic released; verified means whole; errors final; bounded work; reading ends |
| Go `Encoder` (`sdk/go/encoder.go`) | temporary file, total, closed flag, sink | `NewEncoder`, `Write`, `Close` | any file or sink operation failing half way, clean-up failing too | what is in the sink is a prefix of one container; nil means all of it; the plaintext file is not left silently |
| Go entry points (`decode.go`, `verify.go`, `inspect.go`) | none of their own | `DecodeBytes`, `Verify`, `Inspect` | they drive a `Decoder` through `io.ReadAll`, `io.Copy`, for which `io.EOF` is success | same answer as the one-shot decoders |
| Metadata (`meta.go`) | none | `EncodeMetadata`, `ParseMetadata` | order, duplicates, lengths | inverse to each other; one encoding per list |
| Header and bindings (`header.go`, `crypto.go`, `payload.go`) | none | `validate`, `ParseHeader`, `sealChunk`, `openChunk`, `EncodePlain`, `EncodeEncryptedWithFixedNonce` | what is bound to what | every field is covered by tag or root |
| Node SDK (`sdk/node/src/index.ts`) | one-shot: none; streaming: parser state, buffered slab, held callback; temporary file; what `inspectStream` took too much | `encode*`, `decodeBytes`, `inspect`, `Encoder`, `Decoder`, `inspectStream`, `verifyStream` | `Transform` callbacks, back-pressure, `destroy` during an asynchronous `finish`, a source shared with its caller | as Go's; every callback called exactly once; the source goes on where the payload begins |
| Python SDK (`sdk/python/ubc`) | as Go's | one-shot functions, `Encoder`, `Decoder`, `inspect` | which exceptions are final, partial writes, retries after an `OSError` | as Go's; a retry never makes something complete that is not |
| Command line tool (`cli/main.go`) | staged output files | `encode`, `decode`, `verify`, `inspect` | output that is also input, crash or failure before publication | the destination holds the old or the whole new content |
| Vector generator (`tools/vectorgen`) | none | an encoder of its own, 12 positive and 25 negative vectors | most negative vectors have a second fault | every reader gives the verdict the table names |
| Cross-decode harness (`scripts/cross-decode*`, `tools/crossdecode`) | a work directory of containers, the stage reached | three drivers, run in turn | a stage or comparison that is skipped | a pass has shown that every SDK reads every SDK |
| Build loop (`scripts/loop.py`, `loop.ps1`) | the roadmap's marks, the repository's head and upstream, the stall counter | a maker's and a checker's run per iteration, and the rules they are held to | agents that do too much, nothing, half of a task, or something else | what is accepted is one whole, published commit for the first task; it stops |

The parts interact by calls only: the entry points and the tool drive a
decoder, a decoder pulls from its source, an encoder pushes to its sink; the
three SDKs meet in the bytes of a container. There are no threads in the Go and
Python SDKs; the hard behaviours are sequences of calls, failures between two
of their steps, and the order in which faults are found. The Node streams add
interleavings of callbacks, the tool adds processes over one file system, and the
build loop agents that share a repository with it.

## 2. Modules

| Module | Models | |
|---|---|---|
| `UbcCells` | the alphabet of a byte stream, fixed-width numbers | assumed by all |
| `UbcMeta` | `sdk/go/meta.go` | extends `UbcCells` |
| `MetaCodec` | its encoder and its parser against each other | extends `UbcMeta` |
| `UbcFormat` | `header.go`, `crypto.go`, `payload.go`, `errors.go` | extends `UbcMeta` |
| `UbcFormatProofs` | lemmas about cells, metadata, chunks, containers and the chunk loop | extends `OneShot` |
| `GoDecoder` | `decoder.go` | extends `OneShot`, with which it is compared |
| `GoDecoderProofs` | theorems about `GoDecoder`, `GoEntryPoints` and `UbcConformance` | |
| `GoEntryPoints` | `decode.go`, `verify.go`, `inspect.go`, composed with `GoDecoder` and compared with `OneShot` | extends `GoDecoder` |
| `GoEncoder` | `encoder.go` | extends `OneShot`, which reads back what it wrote |
| `GoEncoderProofs` | theorems about `GoEncoder` and `MetaCodec` | |
| `NodeDecoder` | the `Decoder` of `sdk/node/src/index.ts` | extends `OneShot` |
| `NodeDecoderProofs` | theorems about `NodeDecoder` and `NodeInspect` | |
| `NodeEncoder` | the `Encoder` of `sdk/node/src/index.ts` | extends `UbcFormat` |
| `NodeEncoderProofs` | theorems about `NodeEncoder` | |
| `UbcCli` | `cli/main.go` | takes the SDK by its results |
| `UbcCliProofs` | theorems about `UbcCli` | |
| `NodeInspect` | `inspectStream` of `sdk/node/src/index.ts` | extends `OneShot` |
| `PyDecoder`, `PyEncoder` | `sdk/python/ubc/streaming.py` | extend `OneShot` |
| `PyReadBack` | the `Encoder`, then a `Decoder` over whatever it left in its sink | extends `PyDecoder`, `PyEncoder` |
| `PythonProofs` | theorems about all of these | |
| `Vectorgen` | `tools/vectorgen/main.go` | extends `UbcFormat`, and uses its alphabet only |
| `UbcConformance` | the vectors put to the entry points, the one-shot decoder and the encoders | extends `GoEntryPoints` and `Vectorgen` |
| `CrossDecode` | `cross-decode.mjs`, `cross-decode-python.py`, `tools/crossdecode/main.go` | takes the SDKs as unknown |
| `BuildLoop` | `scripts/loop.py` | takes the agents as unknown |
| `Tools` | `BuildLoop` and `CrossDecode` side by side | extends the one, an instance of the other |
| `ToolsProofs` | theorems about both | |
| `OneShot` | `decodeBytes`, `inspect` of the Node SDK, as functions | extends `UbcFormat` |
| `UbcReader` | abstract: what any streaming reader promises. `GoDecoder` implements it with the exception of finding 1, `NodeDecoder` in full, `PyDecoder` until its source first raises | extends nothing here: the one-shot decoder is its parameter `Reference` |
| `UbcOriginals` | the containers that were encoded, and streams in which no root or tag is forged | extends `UbcFormat` |
| `GoOriginals`, `PyOriginals` | what the Go decoder, what the Python decoder takes for one of them | extend `GoDecoder`, `PyDecoder`, and `UbcOriginals` |
| `UbcSamples`, `UbcDamage` | small containers and what storage can make of them | extend `UbcOriginals` |
| `MC*` | instances for TLC | |

Three instances join what has no variable in common, each with a variable that
says which of the two is run: `MCNodeDecoder` (the `Decoder`, `inspectStream`),
`MCTools` (the build loop, the cross-decode gate) and `MCUbcConformance` (the
entry points, the metadata encoder and parser of `MetaCodec`). `PyReadBack`, which
`MCPython` instantiates, joins the `Encoder` and the `Decoder` in earnest: what one left
in its sink the other reads back.

**Data.** A stream is a sequence of *cells*: one per fixed-size field (header,
length, root, magic, tag) and one per unit of payload. A cut inside a field
behaves as a cut before it (`io.ReadFull` gives one error for both, `readExact`
maps it to `ERR_TRUNCATED`); the one place where the code tells the two apart, a
chunk body read in 32 KiB blocks, is a run of cells, with `Block` cells to a
block. A digest is the pair of its key and its input, so two are equal exactly
if key and input are; a GCM tag records key, nonce, associated data and
ciphertext. A cell that is not a number, read as a length, gives the largest
number: such a length is beyond every cap. uint32 and uint64 end at `MaxU32` and
`MaxU64` and wrap.

**Control.** `NewDecoder` is one action per outcome. A `Read` is `ReadStarts`,
then one step per call of `loadChunk`, then `ReadReturns`, `ReadEnds` or one of
the failing steps (`ChunkLengthFails`, `ChunkBodyFails`, `ChunkNotAuthentic`,
`ChunkOverflows`, `ChunkExceedsTotal`, `FooterFails`), each of which does what
`Read` does with the error: keep it and return it. `finalized`, `terminalErr`,
`pending`, `plainTotal`, `chunkIndex`, `header` are the fields of that name;
`region` stands for `metadataRaw` and `metadataDigest`; `root` for the running
hash (key and input so far). `delivered`, `want`, `reply` record what the caller
has seen. A source is a sequence of cells and a `tail`: `io.EOF` or another
error.

In `GoEncoder` every write to the temporary file or to the sink may stop after
any number of cells, and every other file operation may fail; `step` is the
place in `Close`. `accepted` is what `Write` told the caller it took.

In `NodeDecoder` Node runs one call at a time (`running`: `_transform`, `_flush`
or `_read`), and a turn of the loop in `process()` is a step of it. The slab with
its start and end is modelled as the code keeps it, and so is the callback held
while the output is blocked (`deferred`). Node's stream machinery is not in the
repository; what the class relies on is modelled as external: when a call may
come, what `push` returns, that a callback called while the readable side is full
is kept until the next `_read` (`kept`), that an error given to a callback
destroys the stream. Pieces of input are not empty.

In `NodeEncoder` a step is what one function does up to its next `await`, so
writes, the asynchronous `finish`, `cleanup` and `destroy()` interleave as the
event loop may interleave them. Every file operation and every write to the sink
may fail, and a write to the spool may take less than it was given.

In `NodeInspect` a step is what happens between two awaits of `inspectStream` or of
the `PrefixReader` below it: a piece taken from the source, a part of it used, the
rest put back. Node's side (the iterator, `unshift`) is external; it is taken to
emit no `end` between the last piece and the `unshift`.

`PyDecoder` has one action per way out of `_load_next_chunk` and `_finalize`
(`LoadRaises`, `ChunkLoaded`, `FinalizeRaises`, `Finalizes`), and a `read` or
`read(-1)` is as many of them as it needs, between `ReadStarts` or `ReadAllStarts`
and a return. `SourceRaises` is an `OSError` at any place of the source that the
step would have read up to: it is not kept, what `_read_exact` had is lost, and
the next read goes on there. `dropped` records what `read(-1)` had collected when
something was raised. In `PyEncoder` a write to the temporary file that raises has
stored any part of its data, uncounted, and `close` writes the container piece by
piece, any of which may break.

`Vectorgen` has the generator's own encoder, written again and not taken from
`UbcFormat`, the positive vectors, and one function per row of the table of negative
ones. A vector's megabyte chunk is two cells here, so that the five sizes of input
(none, one byte, a chunk, a chunk and a byte, three chunks) stay what they are.

`CrossDecode` assumes nothing of the three SDKs: an encoder produces any container
or throws, a decoder reads it right, wrongly or throws, but each does the same
thing every time. `encodes` and `decodes` are what the gate has seen of them, and
the properties are about that.

In `BuildLoop` the maker and the checker are agents that may edit the roadmap,
the worktree and the history, push, change the branch or rewrite it (`Works`,
`Strays`, external); the loop's own steps are the checks between them. `accepted`
and `idle` are observations: whether the last cycle was accepted, and how many
cycles in a row completed nothing.

In `UbcCli` a directory links names to files, so two names may be hard links to
one file; a staged file is identified with the process that made it. The content
of a file is text, a key or a container that is whole, damaged or cut, and what
the SDK does to it is taken by its result. A process is one of several, each may
be killed before any step, and every operation may fail, also each `os.Stat` of the
check against aliases. A file that was renamed is not lost again: power failures are left out, since the code does not sync.

## 3. Runs

| Run | Instance | Checked |
|---|---|---|
| `go_decoder` | seven originals (plain and encrypted, with and without metadata, empty, one chunk, several), each intact, cut at every cell, with every cell lost, repeated or damaged, with chunks reordered, dropped, repeated or taken from another container, with each header field changed, and with data after the end; the right key, a wrong one, one of a wrong length and none; default and tight caps; sources that end or fail; buffers of one and two units. And every plain header with counts from 0 to 3 and five totals over every list of up to three bodies of up to three units, empty ones too, with a root that matches, in a uint64 that ends at 6 | `TypeOK`, `FinalizedIsWhole`, `AcceptedChunksAuthentic`, `WorkIsBounded`, `CleanEndIsExplained`, `OnlyOriginals`, `TotalNeverWraps`, `ErrorIsFinal`, `ReadingEnds`, and `ImplementsReader` |
| `go_entry_points` | the same containers given to `DecodeBytes`, `Verify` and `Inspect`; the 37 vectors, under the keys the suites of the SDKs pass; and apart from them every list of up to three entries and every region of up to seven cells | `EntryPointsAgree` with the Node SDK's one-shot functions, `ReadersMeetVectors`, `SdkReproducesVectors`, `MetadataIsInverse` |
| `go_encoder` | up to three writes of up to three units, six sets of options, legal and illegal metadata, failures everywhere, a uint64 that ends at 5 | `SinkIsPrefix`, `CloseIsHonest` (of the container and of the plaintext file), `RoundTrip`, `ClosedIsFinal` |
| `node_decoder` | three originals, intact, cut at every cell, damaged, with header fields changed and data after the end, and one of five chunks; in pieces of one and of four cells; sources that end, fail or are closed; a readable side that is full at two units, a first slab of two cells. Or `inspectStream` over every stream of `UbcSamples` in pieces of one, three and seven cells | `SlabHoldsInput`, `BuffersAreBounded`, `CallbacksBalance`, `StreamEnds`, `ImplementsReader` without exception; `InspectIsTransparent` |
| `node_encoder` | up to two writes of one or two units, chunk sizes 1 and 2, a chunk size and a key that are refused, `destroy()` and failures everywhere | `FinishIsHonest`, `SpoolIsRemoved`, `EncoderCloses` |
| `python` | the `Decoder` over four originals, damaged in every way and with a footer twice, three keys, two sets of caps, reads of one and two units and `read(-1)`, one `OSError` at any place (`MaxFaults`). Or the `Encoder`, two writes of up to three units, seven sets of options, illegal ones and metadata among them, failures everywhere, and a `Decoder` over what is in its sink when `close` has returned or raised | `OnlyOriginals`, `ImplementsReader`; `SinkHoldsOneContainer`, `CloseWritesAccepted` |
| `command_line` | two processes over three names, hard links between them, outputs that are inputs or key files of the other, containers whole, damaged and cut, an input read in two parts | `StatusIsHonest`, `NothingLeftBehind`, `DecodeFailsClosed`, `NamesChangeWhole`, `SourcesSurvive` |
| `tools` | the build loop over eleven roadmaps of one or two tasks, four iterations (`MaxIters`), at most two commits per agent run (`MaxCommits`). Or the gate over two cases with any fault of the manifest and two containers, and its Go tool over five case lists and any directory | `AcceptedIsWhole`, `SuccessMeansDone`, `StallGuard`; `PassIsEarned` |
| `verify_root` | finding 1 | `VerifyConfirmsRoot` violated |
| `error_identifiers` | finding 2 | `ErrorsHaveIdentifiers` violated |
| `framing_first` | finding 3 | `FramingComesFirst` violated |
| `py_lossless` | finding 4 | `CloseIsLossless` violated |

*Why the bounds are enough.* The decoder's behaviour in a chunk depends on the
index, the running total and whether the body is complete and authentic; three
chunks give a first, a middle and a last one, bodies of three cells with blocks
of two put a cut at a block and inside one, and every control path of the module
is taken. The caps of the runs lie on both sides of what the samples need.
The proofs of section 5 do not depend on the bounds. In `node_decoder` the five
chunks of one unit pass the mark of two, so that output blocks, resumes and
blocks again, and four cells outgrow the slab of two. In `node_encoder` the
totals 0 to 4 with chunk sizes 1 and 2 give none, full and short last chunks, and
two writes are enough for one to be on its way while the stream is
destroyed. In `command_line` a second process is all an interleaving with the
first needs; two reads let a file change between them. In `python` one `OSError` is
enough for each retry to go on at a wrong place, and read blocks of one unit let
`read(-1)` lose a part. Four iterations let the stall guard act before the loop is
out of them, and two commits in one run are one too many. Two cases and two
containers are enough for SDKs that differ on one case only.

*Fairness.* Most properties are safety under the plain specification. Liveness is
checked under weak fairness of the steps inside a call (nothing there waits for
another party) and, for `ReadingEnds`, of the caller's next `Read`, as
`io.ReadAll` and `io.Copy`, the callers in the package, do. `StreamEnds` assumes that
a call runs to its end, that the source goes on writing and the consumer goes on
reading, and that Node emits `end`; it excepts a source that is closed without an
end or an error, which nothing in `newDecoder` listens for. `EncoderCloses` assumes
that file operations and writes to the sink come back, and nothing of the user.

Deadlock is not checked where the system may stop: a container read to its end,
an encoder closed, an entry point returned, a list at its bound, a gate passed or
failed, a loop that has exited.

## 4. Findings

1. `decoder.go:171`. When the source ends inside a chunk body at a multiple of
   the read block, or before the body's first byte, `io.ReadFull` says `io.EOF`
   and `Read` passes it on as its own. To `io.Copy` and `io.ReadAll` that is a
   clean end: `Verify` answers OK and `DecodeBytes` returns the plaintext so far
   without an error, and the root has not been seen. `verify.go:11` promises
   that `Verify` confirms the root.
2. `decoder.go:172`. A cut inside a block is returned as
   `io.ErrUnexpectedEOF`, which has no identifier; `docs/API.md:132` promises
   one for every error.
3. `decoder.go:183`. Chunks are authenticated as they are read, so a bad chunk
   is reported although the footer is missing; `spec/SPEC.md:220` puts framing
   first.
4. `streaming.py:108`. A write to the Python encoder's temporary file that raises
   half way is not counted, but the file keeps the part and the encoder stays
   open. The next write goes behind that part, and `close` writes the first
   `total_size` bytes of the file: a valid container of other bytes than the
   writes that returned were given, without an exception. `docs/API.md:142`
   promises a lossless round trip. `CloseWritesAccepted` states what holds when no
   write that raised had stored anything.

`CleanEndIsExplained` and `EntryPointsAgree` state the correct
behaviour with exactly the first two as the exception. `ubc decode` and
`ubc verify` inherit the first: `DecodeFailsClosed` holds for every damaged
container except one cut at a block, which is published with exit status 0. The
Node decoder has neither: it implements `UbcReader` in full, and so does the Python
decoder as long as its source raises nothing.

Seen while modelling, and written into the properties that hold, not a run of
their own:

- `streaming.py:307`. A container cut right after a header that announces metadata
  is `ERR_TRUNCATED` for the Python `Decoder` and `ERR_META_MALFORMED` for the
  one-shot decoders. `ImplementsReader` asks for exactly these two names there
  (`OneShotName` of `PyDecoder` translates the one into the other), and for the same
  name everywhere else.
- `loop.py:264`. What the checker completed is looked for among the changes since
  the iteration began. A mark that an earlier cycle left in the worktree without a
  commit is not refused, and goes into the next accepted one: such a commit
  completes two tasks (`AcceptedIsWhole` speaks of the roadmap as the iteration
  found it).
- `cli/main.go:430`. The check that the output is not the input compares the files
  their names stand for when it is made. If another process has renamed over the
  input's name since it was opened, the file that was opened may be replaced under
  another name (`SourcesSurvive` says when).
- `cli/main.go:434` and `442`. An `os.Stat` that fails is taken for no alias,
  whatever it failed for. An output that is there but cannot be looked at, or a source
  that cannot, is not compared, and `encode` and `decode` may replace their own input
  or key file. `SourcesSurvive` excepts exactly a source that was not compared for
  that reason (`unseen`, an observation), and is violated without the exception.
- `index.ts:535`. `finish` goes on writing to its sink after `destroy()`.
- `index.ts:775`. A source that is closed without an end or an error is not followed
  by anything, and the decoder waits for ever (`StreamEnds` excepts such a source).

## 5. Proofs

Every theorem is for all values of the constants that satisfy the assumptions named
at the end of this section. The invariants were put to TLC before they were proved.

### Containers and the loop that reads them

`UbcFormatProofs` has what the other proofs share. Sequences of cells are joined
(`Joined`, `FlattenSeq`), cut (`ChunksAreParts`) and compared (`Begins`). A metadata
region that `EncodeMetadata` makes is a sequence of numbers, empty exactly if there
are no entries; a header that `validate` accepts is a header cell; chunks and sealed
chunks fit their length fields (`BodiesArePlain`, `BodiesAreSealed`). A container is
the header and the region, one frame after another, the root and the end
(`ContainerIsWritten`, `ChunkWritten`), so that an encoder which writes them in turn
has a beginning of it at every moment (`WrittenBegins`).

For the readers: `decodeBytes` is a loop, and `AfterTurns` is where it stands after
so many chunks (`Turns`). It stops with a turn that finds an error (`LoopStops`) or
goes through (`LoopEnds`); what it has by then is a beginning of the plaintext
(`BeginsIsPart`).

And that `decodeBytes` undoes the encoders (`HonestDecodes`): a written region, which
is sorted, is parsed back entry by entry (`WrittenIsRead`, `RegionIsRead`); the frame of
each chunk stands where the loop looks for it (`HonestIsFramed`), a sealed body opens
under the index it was sealed with (`SealOpens`), the root is the one the reader has
computed by then (`HonestEnd`), and the chunks join to the text (`ChunksAreText`).
`PlainDecodes` and `EncryptedDecodes` say it of the two encoders, for every key, nonce,
text and metadata that they accept and caps that leave room for it.

### Metadata

`MetadataInverts`, in `GoEncoderProofs`, is `MetadataIsInverse` for all lists of entries and
all regions. One half is `RegionIsRead` with `SortedInOrder`; that the order of the list
makes no difference (`ReversedIsEncoded`) is because entries of different tags have one
order in which their tags ascend (`OrderIsUnique`). The other half is
`AcceptedIsWritten`: at every turn of the loop of `ParseMetadata` the cells before its
offset are what its entries would be written as, and the entries are legal
(`ReadSoFar`, `NextIsRead`), so that where it ends well the whole body is
(`RestIsWritten`); and entries the parser accepts ascend, so that sorting leaves them
as they are (`AscendingIsSorted`). A region may be followed by other cells;
`ParseMetadata` looks at none behind the declared length.

### The Go decoder

`GoDecoderProofs` proves, for every set of streams, keys, caps and tails and
every block size, the theorems `TypeCorrect`, `Whole`, `Authenticated`,
`TotalExact`, `Bounded`, `ErrorFinal` and `EndExplained`.

The inductive invariant `DecoderInv` is needed because none of the properties is
inductive alone. It adds: what holds in each phase before and after `NewDecoder`
(`PhasesInv`), that the hash input is the header, the region and one leaf per
accepted chunk (`HashInv`, without which `AcceptedChunksAuthentic` could not
speak of the bodies), that while no error has occurred the total is what was
released plus what is held, and is at most `TotalSize` (`CountsInv`), and how far
the position can be for the chunks accepted (`PositionInv`). `EndExplained` adds
that `io.EOF` was the answer for one of the two reasons (`EndInv`). The steps are
split along the actions (`StepKinds`); the actions that keep an error share
one lemma (`FailedLoad`).

`Refines` is `ImplementsReader`: the decoder is a `UbcReader`, whose answer is the one
of the one-shot decoder, which was written apart from it. `FollowInv` says that an
open decoder without an error stands where the loop of `decodeBytes` does after
`chunkIndex` turns: same position, same leaves, and what it has released and holds is
that loop's plaintext. The two find the same wrong with a prefix, with a chunk and
with a footer, in the same order (`FailuresAgree`); the one exception is a body cut
short. `Agreement` carries this to `DecodeBytes`, `Verify` and `Inspect`
(`EntryPointsAgree`), whose loops are `io.ReadAll` and `io.Copy` (`EntryInv`).

`Originality` is `OnlyOriginals`: what the decoder calls verified was encoded, and what it
releases of an encrypted container before it has seen the end was encrypted at that
place. It supposes what the cryptography is there for, that a root or a tag in the stream
was made by an encoder (`Unforged`), and that no two originals share nonce, metadata and
key; all else in the stream may be anything. The argument is in `UbcFormatProofs`:

- A root tells its container (`RootTells`): its key and its input are those of the original
  it was made for, and the input has header, region, and each body with its length, so
  that everything before the footer is that original's (`InputSplits`). In plain mode
  that is all there is (`RootedIsOriginal`).
- A tag tells its original and its place there (`TagTells`): header, metadata and index
  are its associated data. So each chunk of an encrypted stream that opens is a chunk
  of an original at that very index (`ChunksAreOriginal`), of the same original each
  (`ChunksAreOfOne`), and their texts join to a beginning of its text
  (`TakenIsOriginal`).
- Neither needs the stream to have been read in one piece. `Taken` says of some bodies
  only that each is in the stream and opened at its index; if a root in the stream is the
  root of these bodies they are an original (`RootIsOriginal`), wherever they stood.
- `Trailed` says what the loop of `decodeBytes` leaves behind, frame by frame, which is
  more (`TrailGrows`, `TurnsTrail`); `DecodedIsOriginal` is the result for
  `decodeBytes`, which the other readers are compared with.

`VectorsReproduced` is `SdkReproducesVectors` for every chunk size, as one instance of a
fact about all inputs: on any text, base nonce and list of entries that the SDK accepts, with
a key of the right length if it encrypts, `encode` of the generator writes the cells the
SDK writes (`GeneratedPlain`, `GeneratedEncrypted`). The generator's sorting is described
by its result and the SDK's by the orders `sort.Slice` may leave; they
agree because there is one ascending order (`GeneratorSorts`, `OrderIsUnique`). The rest
is that they make the same header (`HeadersAreMade`), cut the same chunks
(`PiecesAreChunks`) and seal them under the same nonces and associated data. That the
vectors' own metadata is accepted is `VectorMetadataEncodes`, and that no vector of the
table of negative ones passes for a positive one `NegativesExpectErrors`.

For the streaming decoder a verified stream is one that `decodeBytes` accepts (`Verified`,
`Refines` having shown it), and before that `Matches` says that what was released is
what `decodeBytes` has after as many turns. `FollowInv` says so only while there is no
error; what was released stays what it is when an error comes, and `MatchInv` keeps
that.

### The Go encoder

`GoEncoderProofs` proves `ClosedForGood` (`ClosedIsFinal`), which follows from the
guards of the actions and needs no invariant, and `SpoolExact`: the temporary file
holds exactly what `Write` said it took, and the total is its number of bytes and
did not wrap. `SpoolInv` adds that the file exists from `NewEncoder` on until
`Close` has removed it. The check of `Write` against the largest size comes before
the number of bytes taken is known, and that is enough since a short write only
takes less.

`SinkBegins` and `CloseHonest` are `SinkIsPrefix`, which also says that the sink has
nothing before `Close`, and `CloseIsHonest`. `SinkInv` says
at each `step` of `Close` how much of the container the sink and the running hash
have (`StageInv`), and at the end how it went (`OutcomeInv`): that the file has what
was taken (`SpoolIsExact`) makes the chunk read back the chunk of its index
(`ReadsItsChunk`), and that the error of `Close` is kept through the clean-up makes
nil mean everything. `SinkIsCells` adds that what is in the sink is a stream in the
sense of the decoders.

`RoundTrips` (`RoundTrip`): when `Close` has returned nil, `decodeBytes` under the same key
gives back what `Write` said it took. `CloseHonest` says that the sink then has the
container of it, and `PlainDecodes` or `EncryptedDecodes` the rest.

### The Node decoder

`NodeDecoderProofs` proves `CallbacksBalanced` (`CallbacksBalance`) for all inputs,
pieces, slabs and high-water marks. The property speaks of the moments between two
calls; `BalanceInv` carries it through them. `HeldInv` and `BlockedInv` say where the
one callback is, also inside `_read`, which unblocks output before it parses what is
left. `CallInv` is the part that is not about callbacks: `process()` stops with work
to do only when output is blocked. Therefore a `_flush`, which Node calls when it
waits for nothing, finds nothing to push, and no callback of a flush is ever held;
and an exception in a `_read` always has a held callback to go to (`ThrowsBalance`).

`SlabIsInput` (`SlabHoldsInput`): the slab between its two ends is exactly what was
given and not yet consumed, through appending, moving to the front and growing
(`SlabInv`, with the capacity as a doubling that stops). `BuffersBounded`
(`BuffersAreBounded`) rests on `RoomInv`, which counts the longest record that
`process()` waits for, and on `ReadableInv`. The footer is a record too: with caps of
zero it is the longest, which the first form of the property had left out and the
proof asked for (`MCZeroCaps` of `MCNodeDecoder` has the case since).

`Refines` is `ImplementsReader` again. `FollowInv` ties the parser's state to the loop
of `decodeBytes` as in Go, but the decoder sees only as far as it was fed, and may
stand at a length without its body: what it holds back until then changes nothing
that the loop would find.

`InspectTransparent` (`InspectIsTransparent`) is about `inspectStream`, for any source and
any pieces. Its invariant says that what has been taken for the header and the region,
what is left over of the last piece and what the source still has make up the whole
stream, so that after the `unshift` the source goes on where the payload begins; an
answer or an error is the one of `inspect` for the whole stream, although only a
beginning of it was read.

### The Node encoder

`NodeEncoderProofs` proves `SpoolRemoved` (`SpoolIsRemoved`) for every order of the
steps. `SpoolInv` says that the handle is settled only after the directory is
(`FilesInv`), so that a cleanup, which waits for the handle, never runs before a
directory that is still being made (`CleanupInv`), and that a stream closes only
after its cleanup, with an error if that failed (`ClosedInv`). All other steps only
ask for the cleanup (`AsksOnly`), which happens once.

`FinishHonest` (`FinishIsHonest`) is about what was written. A write to the file that
took less than it was given is not noticed then, so the file may have too little
(`PlainInv`: all or less, never anything else). `EndInv` is conditional on that: if
the file has all, the sink has the container so far. What makes the condition true at
the end is the last chunk: it ends with the last byte, so reading it in full proves
the file whole (`LastChunkTells`). `FinishedDecodes` follows: a stream that emits
`finish` has left a container that `decodeBytes` reads back to what was given to it.

### The Python streams

`PythonProofs` proves `PyRefines` (`ImplementsReader`): as long as its source has not
raised, the `Decoder` is a `UbcReader`, for any sizes of reads, and once it has kept a
`UbcError` it returns nothing more and no other error, whatever raises then.
`PyFollowInv` is as Go's; `read` and `read(-1)` share it, since what `read(-1)`
collects (`output`) counts as held until it returns. One name differs, for a container
cut after its header (`OpeningsAgree`, `OpeningsNamed`).

`PySinkHolds` (`SinkHoldsOneContainer`): the writes of `close` are the pieces of one
container (`PiecesFlatten`). While it writes, the sink has the first of them and
`pieces` the rest (`PyHalfway`); afterwards the sink has nothing, the header having been
refused, or a beginning of the container, and all of it if nothing was raised
(`PyEnded`). The theorem says nothing of `accepted`: finding 4 is that the counted bytes
may be others.

`PyCloseDecodes` adds that a `close` that returns has left a container which `decodeBytes`
accepts, with the bytes of the temporary file for its plaintext. `PyLossless` says
when these are what was written: `LosslessUnlessTorn`, whenever no write to the temporary
file has raised. That is finding 4 from the other side; nothing but such a write makes
`CloseIsLossless` fail.

`PyOriginality` is `OnlyOriginals` for this decoder. After an `OSError` the caller may read
on, in the middle of a chunk or behind it, and then the decoder no longer follows the loop
of `decodeBytes`, so that Go's argument by way of `decodeBytes` does not apply. What remains
is `PyTrail`: the bodies it has accepted are `Taken`, their text is what was returned, held
and dropped, and while it has kept no error they are its `leaves`. A finished decoder has
compared the root of its leaves with a cell of the stream, which is what `RootIsOriginal`
needs (`PyComplete`); with a key, what it has released opened index by index, which is what
`TakenIsOriginal` needs (`PyInOrder`).

`PyReadsBack` is `CloseWritesAccepted`, of the `Encoder` and the `Decoder` together; its
invariant is `PyReads /\ PyWrites /\ PyJob`, one part for each and one for where they
meet. A `close` that broke off leaves the sink short of the container (`PyRest`), whose
end magic is its last cell (`EndIsLast`), so that a decoder that has seen one has a
whole container before it. It may still have lost its place on the way there, but its root
is the root of what it has read (`RootIsOf`), and that is what the file had counted
(`PyReadsAll`). As long as the source does not raise, what it finds wrong `decodeBytes`
would (`PyVerdict`), and over what `close` reported as written `decodeBytes` finds nothing
(`PyReadsWell`).

### The command line tool

`UbcCliProofs` proves `StatusHonest`, `NothingLeft`, `FailsClosed`, `NamesWhole` and
`SourcesKept`, which are the five properties of `command_line`, for any number of
processes, any commands, any names, hard links and contents, and any number of reads
of an input.

The invariant `CliInv` says of each process how far it has come by itself
(`PhaseInv`, `RemovalInv`, `CommandInv`): an error is never forgotten and excludes a
result, and what has to be removed is either still to be removed or could not be.
The rest relates it to the files. `NamesInv`: a staged file has a name only when its
process has renamed it, so that nobody writes to a file that can be opened.
`InputInv` needs that: what was read in several parts is one content, although the
name may stand for another file by now. From it follow `OutputInv`, that a complete
staged file is made of that content, and `DecodeInv`, that a decoder accepted it.
`SourceInv` says that the names of the sources stand for files and, from the check
on, that those `os.Stat` allowed to be compared do not stand for the file the output
stands for.

The argument is by interference. `Effect(p)` is all that a step of `p` leaves to the
others: it replaces its own record, writes only to its own unpublished file and
changes only the name of its output, to a file that no other name stands for. Every
action has one lemma that gives its `Effect` and the invariant of its own process
after it; `OthersStay` does the rest once for all of them, with `NamesStay`, that two
names never become links to one file. The check against aliases is not repeated
before the rename, and need not be for that reason.

### The build loop

`ToolsProofs` proves `LoopAccepts`, `LoopSucceeds` and `LoopStalls`, which are
`AcceptedIsWhole`, `SuccessMeansDone` and `StallGuard`, for all roadmaps, any number
of iterations and any number of commits an agent makes.

The invariant `LoopInv` is `LoopTypes /\ OpenInv /\ AcceptedIsWhole /\
SuccessMeansDone /\ StallInv`. `OpenInv` says that while an iteration runs the
roadmap it found has an open task, so that the first of them is one (`FirstOpen`,
from the least element of a finite set of numbers; without it
`completed_exactly_one` would say nothing), and that at the top of the loop the
last cycle was accepted, or none has run and the worktree is clean, or a task is
open. `StallInv` says that
`unchanged_cycles` counts at least the cycles in a row that completed nothing: the
code counts cycles that left the first open task where it was, the property those
that were not accepted, and only because a cycle without a commit may not move the
first open task do they agree. An exit with status 0 is possible only at the top of
the loop, where `AcceptedIsWhole` of the cycle before gives `SuccessMeansDone`.

### The cross-decode gate

`GatePasses` (`PassIsEarned`), also in `ToolsProofs`, is for any cases, containers,
manifests and SDKs. `GateInv` orders the stages (`Rank`) and says of each what it has
shown of the cases it is done with (`Past`, `ShownInv`): files written by two SDKs,
then, by the Go tool, that they are the container Go makes and that Go reads it, then
the other two SDKs. A case counts as done only with the manifest entry intact, and the
Go tool by itself (`alone`) starts at its own stage with whatever case list and files
it finds; that its case list has no case twice and none unknown is checked before
its first case (`parseCaseIDs`), without which the last stage could pass over one.

### Assumptions, and what is only model-checked

`MetaAssumption`, `CodecAssumption`, `DecoderAssumption`, `EncoderAssumption`,
`NodeDecoderAssumption`, `InspectAssumption`, `NodeEncoderAssumption`, `PyAssumption`,
`EntryAssumption`, `LoopAssumption`: the constants have their types, and sizes, blocks and capacities are at least one where
the code has them so; of the pieces a source cuts there is a largest.
`WidthAssumption`: a uint32 goes no further than a uint64.
`VectorAssumption` and `ConformanceAssumption`: a chunk and its tag have a length that fits
its field, so does the metadata the vectors have, and the vectors under test are of the
generator.
`OriginalsAssumption`, `PyOriginalsAssumption`: the originals were accepted by their encoder and share no nonce
under one key, and no cap is the largest uint32, since that is what a cell which is no
number is read as.
`PyEncoderAssumption` says besides that None is not a nonce,
`CliAssumption` that the files there are at the beginning are not those the
processes make and that stdin is one of them, and `ToolsAssumption` (`GateAssumption`
of `CrossDecode`) that a container is not one of the marks for none and that
there is a case. TLC evaluates all of them.

Only model-checked:

- liveness under fairness: `ReadingEnds`, `StreamEnds`, `EncoderCloses`. The prover
  does not treat `ENABLED`;
- `ReadersMeetVectors`, which is about 37 particular containers.

The library's theorems of induction take the property as an operator, which no prover
here can instantiate. Each fact about a recursive function is shown by taking the least
argument for which it fails.

## 6. Not modelled

- Byte order and field layout; UTF-8 decoding (one flag of a unit); the branches
  for 32-bit builds that compare a length with `maxInt`; sources that return
  `0, nil`; `NewDecoder(nil)` and `NewEncoder(nil)`; arguments of a wrong type in
  Python and JavaScript. They are pure conversions or rejected before any state.
- Python's `verify` and `inspect` of a stream, which call the functions `PyDecoder`
  models; its one-shot `decode_plain` and `decode_encrypted`, whose checks are those
  of `OneShot` in an order of their own.
- `vectorgen`'s writing of the files, its `-check` mode and its known answers: pure
  output.
- `loop.ps1`, which has no state of its own: it believes what the checker prints.
  Prompts, feedback files and options of `loop.py`.
- Power failures: no program syncs a file, so nothing can be promised.
- The documents, which are the source of the promises and not of any definition.
