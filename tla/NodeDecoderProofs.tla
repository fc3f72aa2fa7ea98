------------------------- MODULE NodeDecoderProofs --------------------------
(***************************************************************************)
(* The callbacks of the Node Decoder, what its slab and its readable side  *)
(* hold, and that it is the streaming reader of UbcReader, for all inputs, *)
(* pieces, capacities and marks, and however its consumer reads. Also,     *)
(* that inspectStream answers as inspect does and gives the rest back.     *)
(***************************************************************************)
EXTENDS NodeDecoder, NodeInspect, UbcFormatProofs

-----------------------------------------------------------------------------
(* The inductive invariant.                                                *)

CallTypes ==
  /\ running \in {"idle", "transform", "flush", "read"} /\ deferred \in {"none", "write", "flush"}
  /\ processing \in BOOLEAN /\ outputBackpressured \in BOOLEAN
  /\ writing \in BOOLEAN /\ kept \in BOOLEAN
  /\ running = "idle" => ~processing

(* Between calls, and in _read, a callback is waited for exactly while it  *)
(* is held in one of the two places.                                       *)
HeldInv ==
  running \in {"idle", "read"} =>
    /\ deferred # "flush" /\ ~(deferred = "write" /\ kept)
    /\ writing <=> (deferred = "write" \/ kept)

(* One is held by the decoder exactly while output is blocked, and still   *)
(* when _read has unblocked it.                                            *)
BlockedInv ==
  /\ running = "idle" => (outputBackpressured <=> deferred = "write")
  /\ running = "read" /\ (processing \/ outputBackpressured) => deferred = "write"

(* _transform and _flush have theirs, and _flush finds nothing to push:    *)
(* process() only stops with work to do when output is blocked.            *)
CallInv ==
  /\ running \in {"transform", "flush"} => writing /\ ~kept /\ deferred = "none"
  /\ running = "flush" => ~Ready /\ ~outputBackpressured
  /\ ~processing /\ ~outputBackpressured => ~Ready

BalanceInv ==
  /\ CallTypes /\ (error # NoError => running = "idle")
  /\ error = NoError => HeldInv /\ BlockedInv /\ CallInv

-----------------------------------------------------------------------------
(* What Ready looks at.                                                    *)
parseVars == <<input, slabVars, stateVars>>

LEMMA ReadyStays == UNCHANGED parseVars => (Ready' <=> Ready)
  BY DEF parseVars, slabVars, stateVars, openVars, chunkVars, Ready, HasLength, RecordReady,
         Oversized, HasRecord, length, limit

LEMMA InitBalance == Init => BalanceInv
  <1>. SUFFICES ASSUME Init
                PROVE  BalanceInv
    OBVIOUS
  <1>1. ~Ready
    BY DEF Init, Ready, HasLength
  <1>. QED
    BY <1>1 DEF Init, BalanceInv, CallTypes, HeldInv, BlockedInv, CallInv

(* An exception of process() is given to a callback.                       *)
LEMMA ThrowsBalance ==
  ASSUME BalanceInv, processing, NEW err, err # NoError, Throws(err)
  PROVE  BalanceInv'
  <1>1. running # "idle" /\ error = NoError
    BY DEF BalanceInv, CallTypes
  <1>2. Heard
    BY <1>1 DEF BalanceInv, BlockedInv, Heard
  <1>3. error' # NoError
    BY <1>2 DEF Throws
  <1>4. running' = "idle" /\ ~processing' /\ writing' = FALSE /\ kept' = kept
        /\ outputBackpressured' = outputBackpressured /\ deferred' \in {"none", deferred}
        /\ processing' = FALSE
    BY DEF Throws
  <1>5. CallTypes'
    BY <1>4 DEF BalanceInv, CallTypes
  <1>. QED
    BY <1>3, <1>4, <1>5 DEF BalanceInv

(* A turn that consumed something is followed by another.                  *)
LEMMA TurnBalance ==
  ASSUME BalanceInv, processing, Ready, UNCHANGED processVars
  PROVE  BalanceInv'
  <1>1. /\ running' = running /\ processing' = processing /\ error' = error
        /\ outputBackpressured' = outputBackpressured /\ deferred' = deferred
        /\ writing' = writing /\ kept' = kept
    BY DEF processVars, callVars, holdVars, endVars
  <1>2. error = NoError => running # "flush"
    BY DEF BalanceInv, CallInv
  <1>. QED
    BY <1>1, <1>2 DEF BalanceInv, CallTypes, HeldInv, BlockedInv, CallInv

LEMMA PushBalance ==
  ASSUME BalanceInv, PushesChunk
  PROVE  BalanceInv'
  <1>1. processing /\ Ready
    BY DEF PushesChunk, ChunkDue, Processing
  <1>2. running # "idle" /\ error = NoError /\ running # "flush"
    BY <1>1 DEF BalanceInv, CallTypes, CallInv
  <1>3. Continues(readable') \in BOOLEAN
    BY DEF Continues, Wanted
  <1>4. /\ running' = running /\ error' = error /\ deferred' = deferred
        /\ writing' = writing /\ kept' = kept
        /\ processing' = Continues(readable')
        /\ outputBackpressured' = (outputBackpressured \/ ~Continues(readable'))
    BY DEF PushesChunk, endVars
  <1>5. processing' \in BOOLEAN /\ outputBackpressured' \in BOOLEAN
    BY <1>3, <1>4
  <1>6. processing' \/ outputBackpressured'
    BY <1>4
  <1>7. CallTypes'
    BY <1>2, <1>4, <1>5 DEF BalanceInv, CallTypes
  <1>8. HeldInv' /\ BlockedInv'
    BY <1>1, <1>2, <1>4 DEF BalanceInv, HeldInv, BlockedInv
  <1>9. CallInv'
    BY <1>2, <1>4, <1>6 DEF BalanceInv, CallInv
  <1>. QED
    BY <1>2, <1>4, <1>7, <1>8, <1>9 DEF BalanceInv

LEMMA PauseBalance ==
  ASSUME BalanceInv, Pauses
  PROVE  BalanceInv'
  <1>1. /\ ~Ready /\ processing /\ processing' = FALSE /\ UNCHANGED parseVars
        /\ running' = running /\ error' = error /\ UNCHANGED holdVars
    BY DEF Pauses, parseVars, stateVars, inputVars, endVars
  <1>2. ~Ready'
    BY <1>1, ReadyStays
  <1>3. running # "idle" /\ error = NoError
    BY <1>1 DEF BalanceInv, CallTypes
  <1>. QED
    BY <1>1, <1>2, <1>3 DEF BalanceInv, CallTypes, HeldInv, BlockedInv, CallInv, holdVars

LEMMA ProcessBalance ==
  ASSUME BalanceInv, process
  PROVE  BalanceInv'
  <1>1. CASE ParsesHeader
    BY <1>1, ThrowsBalance, TurnBalance DEF ParsesHeader, Processing
  <1>2. CASE ParsesMetadata
    BY <1>2, ThrowsBalance, TurnBalance DEF ParsesMetadata, Processing
  <1>3. CASE ReachesFooter
    BY <1>3, TurnBalance DEF ReachesFooter, Processing
  <1>4. CASE ChunkThrows
    BY <1>4, ThrowsBalance DEF ChunkThrows, ChunkDue, Processing
  <1>5. CASE ChecksFooter
    BY <1>5, ThrowsBalance, TurnBalance DEF ChecksFooter, Processing
  <1>. QED
    BY <1>1, <1>2, <1>3, <1>4, <1>5, PushBalance, PauseBalance DEF process

-----------------------------------------------------------------------------
(* The calls begin between calls, and _transform and _flush when Node      *)
(* waits for no callback: so output is not blocked, and nothing is ready.  *)
LEMMA Quiet ==
  ASSUME BalanceInv, Open, ~writing
  PROVE  ~processing /\ ~outputBackpressured /\ deferred = "none" /\ ~kept /\ ~Ready
  BY DEF BalanceInv, CallTypes, HeldInv, BlockedInv, CallInv, Open

LEMMA CallsBalance ==
  ASSUME BalanceInv, Calls
  PROVE  BalanceInv'
  <1>1. ASSUME NEW n \in Pieces, Transforms(n)
        PROVE  BalanceInv'
    <2>1. Open /\ ~writing /\ UNCHANGED <<outputBackpressured, deferred, kept>>
      BY <1>1 DEF Transforms
    <2>2. ~processing /\ ~outputBackpressured /\ deferred = "none" /\ ~kept /\ ~Ready
      BY <2>1, Quiet
    <2>3. CASE offsetState = "done"
      <3>1. error' = TrailingData /\ running' = "idle" /\ UNCHANGED <<processing, writing>>
        BY <1>1, <2>1, <2>3 DEF Transforms, Open, callVars
      <3>. QED
        BY <2>1, <2>2, <3>1 DEF BalanceInv, CallTypes, TrailingData, NoError
    <2>4. CASE offsetState # "done"
      <3>1. /\ error' = error /\ running' = "transform" /\ processing' = TRUE /\ writing' = TRUE
        BY <1>1, <2>4 DEF Transforms, endVars
      <3>. QED
        BY <2>1, <2>2, <3>1 DEF BalanceInv, CallTypes, HeldInv, BlockedInv, CallInv, Open
    <2>. QED
      BY <2>3, <2>4
  <1>2. CASE Flushes
    <2>1. /\ Open /\ ~writing /\ UNCHANGED <<outputBackpressured, deferred, kept, error>>
          /\ running' = "flush" /\ processing' = TRUE /\ writing' = TRUE /\ UNCHANGED parseVars
      BY <1>2 DEF Flushes, endVars, parseVars, inputVars
    <2>2. ~processing /\ ~outputBackpressured /\ deferred = "none" /\ ~kept /\ ~Ready'
      BY <2>1, Quiet, ReadyStays
    <2>. QED
      BY <2>1, <2>2 DEF BalanceInv, CallTypes, HeldInv, BlockedInv, CallInv, Open
  <1>. QED
    BY <1>1, <1>2 DEF Calls

LEMMA CallsReadBalance ==
  ASSUME BalanceInv, NEW n, CallsRead(n)
  PROVE  BalanceInv'
  <1>1. /\ Open /\ UNCHANGED <<deferred, writing, kept, error>> /\ UNCHANGED parseVars
        /\ running' = "read" /\ processing' = outputBackpressured /\ outputBackpressured' = FALSE
    BY DEF CallsRead, endVars, parseVars, inputVars
  <1>2. Ready' <=> Ready
    BY <1>1, ReadyStays
  <1>3. CallTypes'
    BY <1>1 DEF BalanceInv, CallTypes, Open
  <1>4. error = NoError /\ running = "idle" /\ HeldInv /\ BlockedInv /\ CallInv /\ ~processing
    BY <1>1 DEF BalanceInv, CallTypes, Open
  <1>5. HeldInv' /\ BlockedInv'
    BY <1>1, <1>4 DEF HeldInv, BlockedInv
  <1>6. CallInv'
    BY <1>1, <1>2, <1>4 DEF CallInv
  <1>. QED
    BY <1>1, <1>3, <1>4, <1>5, <1>6 DEF BalanceInv

-----------------------------------------------------------------------------
LEMMA TransformReturnsBalance ==
  ASSUME BalanceInv, TransformReturns
  PROVE  BalanceInv'
  <1>1. /\ running = "transform" /\ ~processing /\ running' = "idle" /\ UNCHANGED processing
        /\ UNCHANGED outputBackpressured /\ UNCHANGED parseVars
    BY DEF TransformReturns, Returning, parseVars, inputVars
  <1>2. Ready' <=> Ready
    BY <1>1, ReadyStays
  <1>3. error = NoError /\ writing /\ ~kept /\ deferred = "none"
        /\ (~outputBackpressured => ~Ready) /\ outputBackpressured \in BOOLEAN
        /\ writing \in BOOLEAN /\ kept \in BOOLEAN /\ processing \in BOOLEAN
    BY <1>1 DEF BalanceInv, CallTypes, CallInv
  <1>4. CASE outputBackpressured
    <2>1. error' = error /\ deferred' = "write" /\ UNCHANGED <<writing, kept>>
      BY <1>3, <1>4 DEF TransformReturns, Blocked, Defers, endVars
    <2>. QED
      BY <1>1, <1>3, <1>4, <2>1 DEF BalanceInv, CallTypes, HeldInv, BlockedInv, CallInv
  <1>5. CASE ~outputBackpressured
    <2>1. /\ error' = error /\ deferred' = deferred /\ kept' \in BOOLEAN /\ writing' = kept'
      BY <1>5 DEF TransformReturns, Blocked, KeepsCallback, endVars
    <2>. QED
      BY <1>1, <1>2, <1>3, <1>5, <2>1 DEF BalanceInv, CallTypes, HeldInv, BlockedInv, CallInv
  <1>. QED
    BY <1>4, <1>5

LEMMA FlushReturnsBalance ==
  ASSUME BalanceInv, FlushReturns
  PROVE  BalanceInv'
  <1>1. /\ running = "flush" /\ ~processing /\ running' = "idle" /\ UNCHANGED processing
        /\ UNCHANGED outputBackpressured /\ UNCHANGED parseVars
    BY DEF FlushReturns, Returning, parseVars, inputVars
  <1>2. Ready' <=> Ready
    BY <1>1, ReadyStays
  <1>3. error = NoError /\ writing /\ ~kept /\ deferred = "none" /\ ~outputBackpressured /\ ~Ready
    BY <1>1 DEF BalanceInv, CallInv
  <1>4. writing' = FALSE /\ UNCHANGED <<deferred, kept>>
    BY <1>3 DEF FlushReturns, Blocked, FlushAnswered
  <1>. QED
    BY <1>1, <1>2, <1>3, <1>4 DEF BalanceInv, CallTypes, HeldInv, BlockedInv, CallInv

LEMMA ReadReturnsBalance ==
  ASSUME BalanceInv, ReadReturns
  PROVE  BalanceInv'
  <1>1. /\ running = "read" /\ ~processing /\ running' = "idle" /\ UNCHANGED processing
        /\ UNCHANGED outputBackpressured /\ UNCHANGED parseVars
    BY DEF ReadReturns, Returning, parseVars, inputVars
  <1>2. Ready' <=> Ready
    BY <1>1, ReadyStays
  <1>3. error = NoError /\ HeldInv /\ BlockedInv /\ CallInv /\ CallTypes
    BY <1>1 DEF BalanceInv
  <1>4. CASE outputBackpressured
    <2>1. UNCHANGED <<deferred, writing, kept, error>>
      BY <1>4 DEF ReadReturns, endVars
    <2>2. CallTypes'
      BY <1>1, <1>3, <2>1 DEF CallTypes
    <2>3. HeldInv' /\ BlockedInv' /\ CallInv'
      BY <1>1, <1>3, <1>4, <2>1 DEF HeldInv, BlockedInv, CallInv
    <2>. QED
      BY <1>1, <2>2, <2>3 DEF BalanceInv
  <1>5. CASE ~outputBackpressured
    <2>1. deferred # "flush"
      BY <1>1, <1>3 DEF HeldInv
    <2>2. /\ deferred' = "none" /\ kept' = FALSE /\ UNCHANGED error
          /\ writing' = (IF deferred = "write" \/ kept THEN FALSE ELSE writing)
      BY <1>5, <2>1 DEF ReadReturns, ReleasesCallback, endVars
    <2>3. writing' = FALSE
      BY <1>1, <1>3, <2>2 DEF HeldInv, CallTypes
    <2>4. CallTypes'
      BY <1>1, <1>3, <2>2, <2>3 DEF CallTypes
    <2>5. HeldInv' /\ BlockedInv' /\ CallInv'
      BY <1>1, <1>2, <1>3, <1>5, <2>2, <2>3 DEF HeldInv, BlockedInv, CallInv
    <2>. QED
      BY <1>1, <2>4, <2>5 DEF BalanceInv
  <1>. QED
    BY <1>4, <1>5

-----------------------------------------------------------------------------
LEMMA StepBalance == BalanceInv /\ [Next]_vars => BalanceInv'
  <1>. SUFFICES ASSUME BalanceInv, [Next]_vars
                PROVE  BalanceInv'
    OBVIOUS
  <1>1. ASSUME UNCHANGED parseVars, UNCHANGED <<callVars, holdVars, error>>
        PROVE  BalanceInv'
    <2>1. Ready' <=> Ready
      BY <1>1, ReadyStays
    <2>. QED
      BY <1>1, <2>1 DEF BalanceInv, CallTypes, HeldInv, BlockedInv, CallInv, callVars, holdVars
  <1>2. CASE SourceFails
    <2>1. Open /\ error' = "source error" /\ UNCHANGED <<callVars, holdVars>>
      BY <1>2 DEF SourceFails
    <2>. QED
      BY <2>1 DEF BalanceInv, CallTypes, Open, NoError, callVars, holdVars
  <1>3. CASE EmitsEnd
    BY <1>1, <1>3 DEF EmitsEnd, parseVars, inputVars, endVars
  <1>4. CASE UNCHANGED vars
    BY <1>1, <1>4 DEF vars, parseVars, inputVars, endVars, stateVars
  <1>5. ASSUME NEW n \in 0..Len(readable), ReadsBuffered(n)
        PROVE  BalanceInv'
    BY <1>1, <1>5 DEF ReadsBuffered, parseVars, inputVars, endVars
  <1>. QED
    BY <1>2, <1>3, <1>4, <1>5, CallsBalance, CallsReadBalance, ProcessBalance,
       TransformReturnsBalance, FlushReturnsBalance, ReadReturnsBalance
    DEF Next, Consumes, Returns

(* Every callback is called once, and none is forgotten or called while    *)
(* output is blocked, however pieces, reads and output interleave.         *)
THEOREM CallbacksBalanced == Spec => []CallbacksBalance
  <1>1. BalanceInv => CallbacksBalance
    BY DEF BalanceInv, CallTypes, HeldInv, BlockedInv, CallbacksBalance
  <1>. QED
    BY <1>1, InitBalance, StepBalance, PTL DEF Spec

-----------------------------------------------------------------------------
(* The slab and the readable side.                                         *)

consumed == fed - bufferedBytes

(* The slab holds the input that has not been consumed, cell by cell.      *)
SlabInv ==
  /\ input \in Inputs /\ tail \in Tails
  /\ fed \in 0..Len(stream)
  /\ slabStart \in Nat /\ bufferedBytes \in 0..fed
  /\ slabEnd = slabStart + bufferedBytes
  /\ slab \in Seq(Cells) /\ slabEnd <= Len(slab)
  /\ \A i \in 1..bufferedBytes : slab[slabStart + i] = stream[consumed + i]

(* What will be left on the readable side when the read in progress has    *)
(* taken its part.                                                         *)
Left == Len(readable) - taking

(* Plaintext is pushed only while there is less of it than the mark, or at *)
(* the first turn of a _read that is about to take what is there.          *)
ReadableInv ==
  /\ header \in Header
  /\ readable \in Seq(Cells) /\ delivered \in Seq(Cells)
  /\ taking \in 0..Len(readable) /\ (running # "read" => taking = 0)
  /\ processing => ~outputBackpressured
  /\ processing \/ running # "read" => Len(readable) < HighWaterMark + limit("maxChunkLen")
  /\ error = NoError => /\ Left < HighWaterMark + limit("maxChunkLen")
                        /\ ~outputBackpressured => Left < HighWaterMark

(* Input is only taken when less than a record is buffered.                *)
RoomInv ==
  /\ bufferedBytes < LongestRecord + LongestPiece
  /\ offsetState \in {"header", "metadata", "payload", "footer", "done"}
  /\ offsetState = "done" => bufferedBytes = 0
  /\ Len(slab) <= MinCapacity \/ Len(slab) < 2 * (LongestRecord + LongestPiece)

BufferInv == BalanceInv /\ SlabInv /\ ReadableInv /\ RoomInv

LEMMA InputTypes ==
  ASSUME input \in Inputs
  PROVE  /\ stream \in Seq(Cells) /\ Len(stream) \in Nat /\ input.key \in Seq(Nat)
         /\ \A cap \in {"maxMetaBytes", "maxChunkLen", "maxChunkCount", "maxTotalSize"} :
              limit(cap) \in Nat /\ limits[cap] = limit(cap)
  <1>1. input \in [stream : Seq(Cells), key : Seq(Nat), options : GivenCaps] /\ Defaults \in Caps
    BY NodeDecoderAssumption
  <1>2. stream \in Seq(Cells) /\ input.key \in Seq(Nat) /\ input.options \in GivenCaps
    BY <1>1 DEF stream
  <1>3. ASSUME NEW cap \in {"maxMetaBytes", "maxChunkLen", "maxChunkCount", "maxTotalSize"}
        PROVE  limit(cap) \in Nat /\ limits[cap] = limit(cap)
    <2>1. cap \in DOMAIN Defaults /\ Defaults[cap] \in Nat /\ input.options[cap] \in Option
      BY <1>1, <1>2 DEF Caps, GivenCaps
    <2>. QED
      BY <2>1 DEF limit, limits, Option
  <1>. QED
    BY <1>2, <1>3, LenProperties

LEMMA RecordFacts ==
  ASSUME input \in Inputs
  PROVE  /\ LongestRecord \in Nat /\ LongestRecord >= 2
         /\ LongestRecord >= 1 + limit("maxMetaBytes") /\ LongestRecord >= 1 + limit("maxChunkLen")
         /\ LongestPiece \in Nat \ {0} /\ \A n \in Pieces : n \in Nat \ {0} /\ n <= LongestPiece
  <1>1. limit("maxMetaBytes") \in Nat /\ limit("maxChunkLen") \in Nat
    BY InputTypes
  <1>2. LongestPiece \in Pieces /\ \A n \in Pieces : n <= LongestPiece
    BY NodeDecoderAssumption DEF LongestPiece
  <1>3. /\ LongestRecord \in Nat /\ LongestRecord >= 2
        /\ LongestRecord >= 1 + limit("maxMetaBytes") /\ LongestRecord >= 1 + limit("maxChunkLen")
    BY <1>1 DEF LongestRecord, Larger
  <1>. QED
    BY <1>2, <1>3, NodeDecoderAssumption

-----------------------------------------------------------------------------
(* The capacity of a larger slab: the loop that doubles it ends.           *)

Doublings(f, least, required) ==
  f = [i \in Nat |-> IF i = 0 THEN least ELSE Doubled(f[i - 1], required)]

DoublingsTo(f, n, least, required) ==
  f = [i \in 0..n |-> IF i = 0 THEN least ELSE Doubled(f[i - 1], required)]

LEMMA DoublingsToAgree ==
  ASSUME NEW least, NEW required, NEW m \in Nat, NEW n \in Nat,
         NEW f, DoublingsTo(f, m, least, required),
         NEW g, DoublingsTo(g, n, least, required),
         NEW k \in 0..m, k <= n
  PROVE  f[k] = g[k]
  <1>1. /\ \A i \in 0..m : f[i] = IF i = 0 THEN least ELSE Doubled(f[i - 1], required)
        /\ \A i \in 0..n : g[i] = IF i = 0 THEN least ELSE Doubled(g[i - 1], required)
    BY Zenon DEF DoublingsTo
  <1>. DEFINE T == {i \in 0..k : f[i] # g[i]}
  <1>2. T = {}
    <2>. SUFFICES ASSUME T # {}
                  PROVE  FALSE
      OBVIOUS
    <2>1. PICK x \in T : \A y \in T : x <= y
      <3>1. T \in SUBSET Nat
        OBVIOUS
      <3>. QED
        BY <3>1, LeastOf
    <2>2. CASE x = 0
      BY <1>1, <2>2
    <2>3. CASE x # 0
      <3>1. x - 1 \in 0..k /\ x - 1 \notin T /\ x \in 0..m /\ x \in 0..n
        BY <2>1, <2>3
      <3>2. f[x - 1] = g[x - 1]
        BY <3>1
      <3>. QED
        BY <1>1, <2>3, <3>1, <3>2
    <2>. QED
      BY <2>2, <2>3
  <1>. QED
    BY <1>2

LEMMA DoublingsToExist ==
  ASSUME NEW least, NEW required, NEW n \in Nat
  PROVE  \E f : DoublingsTo(f, n, least, required)
  <1>. DEFINE T == {k \in Nat : ~\E f : DoublingsTo(f, k, least, required)}
  <1>1. T = {}
    <2>. SUFFICES ASSUME T # {}
                  PROVE  FALSE
      OBVIOUS
    <2>1. PICK x \in T : \A y \in T : x <= y
      <3>1. T \in SUBSET Nat
        OBVIOUS
      <3>. QED
        BY <3>1, LeastOf
    <2>2. CASE x = 0
      <3>. DEFINE g == [i \in 0..0 |-> least]
      <3>1. DoublingsTo(g, 0, least, required)
        BY DEF DoublingsTo
      <3>. QED
        BY <2>2, <3>1
    <2>3. CASE x # 0
      <3>1. x \in Nat /\ x - 1 \in Nat /\ x - 1 \notin T
        BY <2>1, <2>3
      <3>2. PICK f : DoublingsTo(f, x - 1, least, required)
        BY <3>1
      <3>3. \A i \in 0..x - 1 : f[i] = IF i = 0 THEN least ELSE Doubled(f[i - 1], required)
        BY <3>2, Zenon DEF DoublingsTo
      <3>. DEFINE g == [i \in 0..x |-> IF i < x THEN f[i] ELSE Doubled(f[i - 1], required)]
      <3>4. ASSUME NEW i \in 0..x
            PROVE  g[i] = IF i = 0 THEN least ELSE Doubled(g[i - 1], required)
        <4>1. CASE i = 0
          <5>1. 0 \in 0..x - 1
            BY <3>1
          <5>. QED
            BY <2>3, <3>1, <3>3, <4>1, <5>1
        <4>2. CASE i # 0
          <5>1. i - 1 \in 0..x /\ i - 1 < x /\ g[i - 1] = f[i - 1]
            BY <3>1, <4>2
          <5>2. g[i] = Doubled(f[i - 1], required)
            <6>1. CASE i < x
              <7>1. i \in 0..x - 1 /\ g[i] = f[i]
                BY <3>1, <4>2, <6>1
              <7>. QED
                BY <3>3, <4>2, <7>1
            <6>2. CASE ~(i < x)
              BY <6>2
            <6>. QED
              BY <6>1, <6>2
          <5>. HIDE DEF g
          <5>. QED
            BY <4>2, <5>1, <5>2
        <4>. QED
          BY <4>1, <4>2
      <3>5. g = [i \in 0..x |-> g[i]]
        OBVIOUS
      <3>. HIDE DEF g
      <3>6. g = [i \in 0..x |-> IF i = 0 THEN least ELSE Doubled(g[i - 1], required)]
        BY <3>4, <3>5
      <3>7. DoublingsTo(g, x, least, required)
        BY <3>6 DEF DoublingsTo
      <3>. QED
        BY <3>7
    <2>. QED
      BY <2>2, <2>3
  <1>. QED
    BY <1>1

LEMMA DoublingsExist ==
  ASSUME NEW least, NEW required
  PROVE  \E f : Doublings(f, least, required)
  <1>. DEFINE part(n) == CHOOSE f : DoublingsTo(f, n, least, required)
              g == [i \in Nat |-> part(i)[i]]
  <1>1. ASSUME NEW n \in Nat PROVE DoublingsTo(part(n), n, least, required)
    BY DoublingsToExist, Zenon
  <1>. HIDE DEF part
  <1>2. ASSUME NEW i \in Nat
        PROVE  g[i] = IF i = 0 THEN least ELSE Doubled(g[i - 1], required)
    <2>0. \A k \in 0..i : part(i)[k] = IF k = 0 THEN least ELSE Doubled(part(i)[k - 1], required)
      <3>1. \A f : DoublingsTo(f, i, least, required) =>
              \A k \in 0..i : f[k] = IF k = 0 THEN least ELSE Doubled(f[k - 1], required)
        BY Zenon DEF DoublingsTo
      <3>. QED
        BY <1>1, <3>1
    <2>1. CASE i = 0
      BY <2>0, <2>1
    <2>2. CASE i # 0
      <3>1. i - 1 \in Nat /\ i \in 0..i /\ i - 1 \in 0..i /\ i - 1 <= i - 1 /\ i - 1 \in 0..i - 1 /\ i - 1 <= i
        BY <2>2
      <3>2. /\ DoublingsTo(part(i), i, least, required)
            /\ DoublingsTo(part(i - 1), i - 1, least, required)
        BY <1>1, <3>1
      <3>3. part(i)[i] = Doubled(part(i)[i - 1], required)
        BY <2>0, <2>2, <3>1
      <3>4. part(i)[i - 1] = part(i - 1)[i - 1]
        BY <3>1, <3>2, DoublingsToAgree
      <3>5. g[i] = part(i)[i] /\ g[i - 1] = part(i - 1)[i - 1]
        BY <3>1
      <3>. HIDE DEF g
      <3>. QED
        BY <2>2, <3>3, <3>4, <3>5
    <2>. QED
      BY <2>1, <2>2
  <1>3. g = [i \in Nat |-> g[i]]
    OBVIOUS
  <1>. HIDE DEF g
  <1>4. g = [i \in Nat |-> IF i = 0 THEN least ELSE Doubled(g[i - 1], required)]
    BY <1>2, <1>3
  <1>. QED
    BY <1>4 DEF Doublings

LEMMA CapacitySuffices ==
  ASSUME NEW required \in Nat, Len(slab) \in Nat
  PROVE  /\ Capacity(required) \in Nat /\ Capacity(required) >= required
         /\ Capacity(required) \in {MinCapacity, Len(slab)} \/ Capacity(required) < 2 * required
  <1>. DEFINE least == Larger(MinCapacity, Len(slab))
              f == CHOOSE h : Doublings(h, least, required)
              T == {n \in Nat : ~(/\ f[n] \in Nat /\ f[n] >= 1
                                  /\ f[n] >= required \/ f[n] >= n
                                  /\ f[n] = least \/ f[n] < 2 * required)}
  <1>1. Capacity(required) = f[required]
    BY DEF Capacity, Doublings
  <1>2. Doublings(f, least, required)
    BY DoublingsExist, Zenon
  <1>3. least \in Nat /\ least >= 1 /\ least \in {MinCapacity, Len(slab)}
    BY NodeDecoderAssumption DEF Larger
  <1>. HIDE DEF f, least
  <1>4. \A i \in Nat : f[i] = IF i = 0 THEN least ELSE Doubled(f[i - 1], required)
    BY <1>2, Zenon DEF Doublings
  <1>5. T = {}
    <2>. SUFFICES ASSUME T # {}
                  PROVE  FALSE
      OBVIOUS
    <2>1. PICK x \in T : \A y \in T : x <= y
      <3>1. T \in SUBSET Nat
        OBVIOUS
      <3>. QED
        BY <3>1, LeastOf
    <2>2. CASE x = 0
      <3>1. f[0] = least
        BY <1>4
      <3>. QED
        BY <1>3, <2>1, <2>2, <3>1
    <2>3. CASE x # 0
      <3>1. x \in Nat /\ x - 1 \in Nat /\ x - 1 \notin T
        BY <2>1, <2>3
      <3>. DEFINE c == f[x - 1]
      <3>2. f[x] = IF c < required THEN 2 * c ELSE c
        BY <1>4, <2>3, <3>1 DEF Doubled
      <3>3. /\ c \in Nat /\ c >= 1 /\ (c >= required \/ c >= x - 1)
            /\ (c = least \/ c < 2 * required)
        BY <3>1
      <3>. DEFINE d == f[x]
      <3>4. d = IF c < required THEN 2 * c ELSE c
        BY <3>2
      <3>. HIDE DEF c, d
      <3>5. d \in Nat /\ d >= 1 /\ (d >= required \/ d >= x) /\ (d = least \/ d < 2 * required)
        BY <3>1, <3>3, <3>4
      <3>. QED
        BY <2>1, <3>5 DEF d
    <2>. QED
      BY <2>2, <2>3
  <1>6. required \notin T
    BY <1>5
  <1>. QED
    BY <1>1, <1>3, <1>6

-----------------------------------------------------------------------------
(* What process() looks at is the input it has not consumed.               *)

LEMMA SlabFacts ==
  ASSUME SlabInv
  PROVE  /\ stream \in Seq(Cells) /\ Len(stream) \in Nat /\ fed \in Nat /\ fed <= Len(stream)
         /\ consumed \in 0..fed /\ consumed + bufferedBytes = fed /\ bufferedBytes \in Nat
         /\ \A i \in 1..Len(stream) : stream[i] \in Cells
         /\ \A i \in 1..Len(slab) : slab[i] \in Cells
         /\ Len(slab) \in Nat /\ slabStart \in Nat /\ slabEnd \in Nat
  <1>1. stream \in Seq(Cells) /\ Len(stream) \in Nat
    BY InputTypes DEF SlabInv
  <1>2. /\ \A i \in 1..Len(stream) : stream[i] \in Cells
        /\ \A i \in 1..Len(slab) : slab[i] \in Cells /\ Len(slab) \in Nat
    BY <1>1, ElementOfSeq, LenProperties DEF SlabInv
  <1>3. Len(slab) \in Nat
    BY LenProperties DEF SlabInv
  <1>4. fed \in Nat /\ bufferedBytes \in Nat /\ bufferedBytes <= fed /\ fed <= Len(stream)
        /\ slabStart \in Nat /\ slabEnd = slabStart + bufferedBytes
    BY <1>1 DEF SlabInv
  <1>. HIDE DEF stream
  <1>. QED
    BY <1>1, <1>2, <1>3, <1>4 DEF consumed

LEMMA LengthFacts ==
  ASSUME SlabInv, HasLength
  PROVE  /\ slab[slabStart + 1] = stream[consumed + 1] /\ stream[consumed + 1] \in Cells
         /\ length = U32(stream[consumed + 1]) /\ length \in Nat
  <1>1. bufferedBytes \in Nat /\ bufferedBytes >= 1
    BY SlabFacts DEF HasLength
  <1>2. slab[slabStart + 1] = stream[consumed + 1]
    BY <1>1 DEF SlabInv
  <1>3. consumed + 1 \in 1..Len(stream)
    BY <1>1, SlabFacts
  <1>4. stream[consumed + 1] \in Cells
    BY <1>3, SlabFacts
  <1>. QED
    BY <1>2, <1>4, CellFacts DEF length

LEMMA PeekFacts ==
  ASSUME SlabInv, NEW n \in 0..bufferedBytes
  PROVE  /\ peek(n) = SubSeq(stream, consumed + 1, consumed + n)
         /\ peek(n) \in Seq(Cells) /\ Len(peek(n)) = n
  <1>. DEFINE a == peek(n)
              b == SubSeq(stream, consumed + 1, consumed + n)
              start == slabStart
              c == consumed
  <1>1. /\ start \in Nat /\ c \in Nat /\ n \in Nat /\ bufferedBytes \in Nat /\ n <= bufferedBytes
        /\ Len(slab) \in Nat /\ Len(stream) \in Nat
        /\ start + bufferedBytes <= Len(slab) /\ c + bufferedBytes <= Len(stream)
    BY SlabFacts DEF SlabInv
  <1>2. slab \in Seq(Cells) /\ stream \in Seq(Cells)
        /\ \A i \in 1..bufferedBytes : slab[start + i] = stream[c + i]
    BY SlabFacts DEF SlabInv
  <1>3. a = SubSeq(slab, start + 1, start + n)
    BY DEF peek
  <1>. HIDE DEF c, start, stream
  <1>4. /\ start + 1 \in Nat /\ start + n \in Nat /\ start + 1 >= 1 /\ start + n <= Len(slab)
        /\ c + 1 \in Nat /\ c + n \in Nat /\ c + 1 >= 1 /\ c + n <= Len(stream)
        /\ (start + n) - (start + 1) + 1 = n /\ (c + n) - (c + 1) + 1 = n
    BY <1>1
  <1>5. /\ a \in Seq(Cells)
        /\ Len(a) = IF start + 1 <= start + n THEN (start + n) - (start + 1) + 1 ELSE 0
        /\ \A i \in 1..(start + n) - (start + 1) + 1 : a[i] = slab[start + 1 + i - 1]
    BY <1>2, <1>3, <1>4, PartOf
  <1>6. /\ b \in Seq(Cells)
        /\ Len(b) = IF c + 1 <= c + n THEN (c + n) - (c + 1) + 1 ELSE 0
        /\ \A i \in 1..(c + n) - (c + 1) + 1 : b[i] = stream[c + 1 + i - 1]
    BY <1>2, <1>4, PartOf DEF c
  <1>. HIDE DEF a, b
  <1>7. Len(a) = n /\ Len(b) = n
    BY <1>1, <1>4, <1>5, <1>6
  <1>8. ASSUME NEW i \in 1..n PROVE a[i] = b[i]
    <2>1. a[i] = slab[start + i] /\ b[i] = stream[c + i]
      <3>1. start + 1 + i - 1 = start + i /\ c + 1 + i - 1 = c + i
        BY <1>1
      <3>. QED
        BY <1>4, <1>5, <1>6, <3>1
    <2>. QED
      BY <1>1, <1>2, <2>1
  <1>9. a = b
    BY <1>5, <1>6, <1>7, <1>8, SeqEqual
  <1>. QED
    BY <1>5, <1>7, <1>9 DEF a, b, c

LEMMA ConsumeKeeps ==
  ASSUME SlabInv, NEW n \in 0..bufferedBytes, consume(n), UNCHANGED inputVars
  PROVE  SlabInv' /\ consumed' = consumed + n /\ bufferedBytes' = bufferedBytes - n /\ slab' = slab
  <1>1. /\ input' = input /\ tail' = tail /\ fed' = fed /\ stream' = stream /\ slab' = slab
        /\ bufferedBytes' = bufferedBytes - n
        /\ slabStart' = IF bufferedBytes' = 0 THEN 0 ELSE slabStart + n
        /\ slabEnd' = IF bufferedBytes' = 0 THEN 0 ELSE slabEnd
    BY DEF consume, inputVars, stream
  <1>2. /\ bufferedBytes \in Nat /\ bufferedBytes <= fed /\ fed \in Nat /\ slabStart \in Nat
        /\ slabEnd = slabStart + bufferedBytes /\ slabEnd <= Len(slab) /\ Len(slab) \in Nat
        /\ n \in Nat /\ n <= bufferedBytes
    BY SlabFacts DEF SlabInv
  <1>3. /\ bufferedBytes' \in 0..fed' /\ slabStart' \in Nat
        /\ slabEnd' = slabStart' + bufferedBytes' /\ slabEnd' <= Len(slab')
        /\ consumed' = consumed + n
    BY <1>1, <1>2 DEF consumed
  <1>4. ASSUME NEW i \in 1..bufferedBytes'
        PROVE  slab'[slabStart' + i] = stream'[consumed' + i]
    <2>1. slabStart' = slabStart + n /\ n + i \in 1..bufferedBytes
      BY <1>1, <1>2
    <2>2. slab[slabStart + (n + i)] = stream[consumed + (n + i)]
      BY <2>1 DEF SlabInv
    <2>3. slabStart' + i = slabStart + (n + i) /\ consumed' + i = consumed + (n + i)
      <3>1. consumed \in Nat
        BY SlabFacts
      <3>. QED
        BY <1>2, <1>3, <2>1, <3>1
    <2>. QED
      BY <1>1, <2>2, <2>3
  <1>. QED
    BY <1>1, <1>3, <1>4 DEF SlabInv

(* Where the piece goes, the slab has been made ready for it.              *)
Room(n) ==
  IF slabEnd + n > Len(slab) THEN makeRoom(bufferedBytes + n)
  ELSE [slab |-> slab, start |-> slabStart, end |-> slabEnd]

LEMMA RoomKeeps ==
  ASSUME SlabInv, NEW n \in Nat
  PROVE  LET room == Room(n)
         IN  /\ room.slab \in Seq(Cells) /\ room.start \in Nat
             /\ room.end = room.start + bufferedBytes /\ room.end + n <= Len(room.slab)
             /\ \A i \in 1..bufferedBytes : room.slab[room.start + i] = slab[slabStart + i]
             /\ Len(room.slab) \in {MinCapacity, Len(slab)} \/ Len(room.slab) < 2 * (bufferedBytes + n)
  <1>. DEFINE bb == bufferedBytes
              l == Len(slab)
              required == bb + n
  <1>1. /\ bb \in Nat /\ slabStart \in Nat /\ slabEnd = slabStart + bb /\ slabEnd <= l
        /\ l \in Nat /\ slab \in Seq(Cells) /\ required \in Nat
    BY SlabFacts DEF SlabInv
  <1>2. CASE ~(slabEnd + n > l)
    BY <1>1, <1>2 DEF Room
  <1>3. CASE slabEnd + n > l
    <2>. DEFINE inUse == SubSeq(slab, slabStart + 1, slabEnd)
                slid == SubSeq(slab, bb + 1, l)
                fresh == [i \in 1..Capacity(required) - bb |-> Junk]
                rest == IF required <= l THEN slid ELSE fresh
    <2>1. Room(n) = [slab |-> inUse \o rest, start |-> 0, end |-> bb]
      BY <1>3 DEF Room, makeRoom, InUse
    <2>2. inUse \in Seq(Cells) /\ Len(inUse) = bb /\ \A i \in 1..bb : inUse[i] = slab[slabStart + i]
      <3>. DEFINE a == slabStart + 1
                  z == slabEnd
      <3>1. a \in Nat /\ z \in Nat /\ a >= 1 /\ z <= l /\ z - a + 1 = bb
        BY <1>1
      <3>2. /\ inUse \in Seq(Cells) /\ Len(inUse) = IF a <= z THEN z - a + 1 ELSE 0
            /\ \A i \in 1..z - a + 1 : inUse[i] = slab[a + i - 1]
        BY <1>1, <3>1, PartOf
      <3>. HIDE DEF inUse
      <3>3. Len(inUse) = bb
        BY <1>1, <3>1, <3>2
      <3>4. ASSUME NEW i \in 1..bb PROVE inUse[i] = slab[slabStart + i]
        <4>1. a + i - 1 = slabStart + i
          BY <1>1
        <4>. QED
          BY <3>1, <3>2, <4>1
      <3>. QED
        BY <3>2, <3>3, <3>4
    <2>3. rest \in Seq(Cells) /\ Len(rest) \in Nat /\ Len(rest) >= n
          /\ Len(rest) = (IF required <= l THEN l ELSE Capacity(required)) - bb
      <3>1. CASE required <= l
        <4>1. bb + 1 \in Nat /\ bb + 1 >= 1 /\ l <= l
          BY <1>1
        <4>2. slid \in Seq(Cells) /\ Len(slid) = IF bb + 1 <= l THEN l - (bb + 1) + 1 ELSE 0
          BY <1>1, <4>1, PartOf
        <4>. HIDE DEF slid
        <4>3. Len(slid) = l - bb /\ l - bb >= n /\ l - bb \in Nat
          BY <1>1, <3>1, <4>2
        <4>. QED
          BY <3>1, <4>2, <4>3
      <3>2. CASE ~(required <= l)
        <4>1. Capacity(required) \in Nat /\ Capacity(required) >= required
          BY <1>1, CapacitySuffices
        <4>. DEFINE m == Capacity(required) - bb
        <4>2. m \in Nat /\ m >= n
          BY <1>1, <4>1
        <4>. HIDE DEF m
        <4>3. Junk \in Cells
          BY DEF Cells
        <4>4. fresh = [i \in 1..m |-> Junk]
          BY DEF m
        <4>. HIDE DEF fresh
        <4>5. fresh \in [1..m -> Cells] /\ DOMAIN fresh = 1..m
          BY <4>3, <4>4
        <4>6. fresh \in Seq(Cells) /\ Len(fresh) = m
          BY <4>2, <4>5, SeqDef
        <4>. QED
          BY <3>2, <4>2, <4>6 DEF m
      <3>. QED
        BY <3>1, <3>2
    <2>. DEFINE s == inUse \o rest
    <2>. HIDE DEF inUse, rest
    <2>4. /\ s \in Seq(Cells) /\ Len(s) = Len(inUse) + Len(rest)
          /\ \A i \in 1..Len(inUse) : s[i] = inUse[i]
      <3>1. inUse \in Seq(Cells) /\ rest \in Seq(Cells)
        BY <2>2, <2>3
      <3>2. /\ inUse \o rest \in Seq(Cells) /\ Len(inUse \o rest) = Len(inUse) + Len(rest)
            /\ \A i \in 1..Len(inUse) + Len(rest) :
                 (inUse \o rest)[i] = IF i <= Len(inUse) THEN inUse[i] ELSE rest[i - Len(inUse)]
        BY <3>1, ConcatProperties
      <3>. HIDE DEF s
      <3>3. s \in Seq(Cells) /\ Len(s) = Len(inUse) + Len(rest)
        BY <3>2 DEF s
      <3>4. ASSUME NEW i \in 1..Len(inUse) PROVE s[i] = inUse[i]
        <4>1. i \in 1..Len(inUse) + Len(rest) /\ i <= Len(inUse)
          BY <2>2, <2>3, <1>1
        <4>. QED
          BY <3>2, <4>1 DEF s
      <3>. QED
        BY <3>3, <3>4
    <2>5. Len(s) = IF required <= l THEN l ELSE Capacity(required)
      <3>1. Capacity(required) \in Nat
        BY <1>1, CapacitySuffices
      <3>. QED
        BY <1>1, <2>2, <2>3, <2>4, <3>1
    <2>6. Len(s) \in {MinCapacity, l} \/ Len(s) < 2 * required
      BY <1>1, <2>5, CapacitySuffices
    <2>7. bb + n <= Len(s)
      BY <1>1, <2>2, <2>3, <2>4
    <2>8. \A i \in 1..bb : s[0 + i] = slab[slabStart + i]
      BY <1>1, <2>2, <2>4
    <2>9. Room(n) = [slab |-> s, start |-> 0, end |-> bb]
      BY <2>1 DEF inUse, rest
    <2>10. s \in Seq(Cells)
      BY <2>4
    <2>. HIDE DEF s
    <2>11. /\ Room(n).slab = s /\ Room(n).start = 0 /\ Room(n).end = bb
           /\ bb = 0 + bb /\ 0 \in Nat
      BY <1>1, <2>9
    <2>12. Room(n).end + n <= Len(Room(n).slab)
      BY <2>7, <2>11
    <2>. QED
      BY <2>6, <2>8, <2>10, <2>11, <2>12, Zenon
  <1>. QED
    BY <1>2, <1>3

LEMMA EnqueueKeeps ==
  ASSUME SlabInv, NEW n \in Nat, fed + n <= Len(stream), fed' = fed + n,
         input' = input, tail' = tail, enqueue(SubSeq(stream, fed + 1, fed'))
  PROVE  /\ SlabInv' /\ bufferedBytes' = bufferedBytes + n /\ consumed' = consumed
         /\ Len(slab') \in {MinCapacity, Len(slab)} \/ Len(slab') < 2 * (bufferedBytes + n)
  <1>. DEFINE piece == SubSeq(stream, fed + 1, fed')
  <1>1. /\ fed \in Nat /\ bufferedBytes \in Nat /\ bufferedBytes <= fed /\ Len(stream) \in Nat
        /\ stream \in Seq(Cells) /\ stream' = stream
    BY SlabFacts DEF SlabInv, stream
  <1>2. piece \in Seq(Cells) /\ Len(piece) = n /\ \A i \in 1..n : piece[i] = stream[fed + i]
    <2>. DEFINE a == fed + 1
                z == fed + n
    <2>. HIDE DEF stream
    <2>1. a \in Nat /\ z \in Nat /\ a >= 1 /\ z <= Len(stream) /\ z - a + 1 = n
      BY <1>1
    <2>2. /\ piece \in Seq(Cells) /\ Len(piece) = IF a <= z THEN z - a + 1 ELSE 0
          /\ \A i \in 1..z - a + 1 : piece[i] = stream[a + i - 1]
      BY <1>1, <2>1, PartOf
    <2>. HIDE DEF piece
    <2>3. Len(piece) = n
      BY <1>1, <2>1, <2>2
    <2>4. ASSUME NEW i \in 1..n PROVE piece[i] = stream[fed + i]
      <3>1. a + i - 1 = fed + i
        BY <1>1
      <3>. QED
        BY <2>1, <2>2, <3>1
    <2>. QED
      BY <2>2, <2>3, <2>4
  <1>. DEFINE room == Room(n)
              old == room.slab
              start == room.start
              end == room.end
  <1>3. /\ slab' = [i \in DOMAIN old |-> IF i \in end + 1..end + n THEN piece[i - end] ELSE old[i]]
        /\ slabStart' = start /\ slabEnd' = end + n /\ bufferedBytes' = bufferedBytes + n
    <2>. HIDE DEF piece
    <2>1. enqueue(piece)
      BY DEF piece
    <2>. QED
      BY <1>2, <2>1 DEF enqueue, Room
  <1>4. /\ old \in Seq(Cells) /\ start \in Nat /\ end = start + bufferedBytes /\ end + n <= Len(old)
        /\ \A i \in 1..bufferedBytes : old[start + i] = slab[slabStart + i]
        /\ Len(old) \in {MinCapacity, Len(slab)} \/ Len(old) < 2 * (bufferedBytes + n)
    BY RoomKeeps
  <1>. HIDE DEF room, old, start, end, piece, stream
  <1>5. /\ DOMAIN old = 1..Len(old) /\ Len(old) \in Nat
        /\ \A i \in 1..Len(old) : old[i] \in Cells /\ \A j \in 1..n : piece[j] \in Cells
    BY <1>2, <1>4, LenProperties, ElementOfSeq
  <1>6. slab' \in [1..Len(old) -> Cells]
    <2>1. ASSUME NEW i \in 1..Len(old), i \in end + 1..end + n
          PROVE  piece[i - end] \in Cells
      <3>1. i - end \in 1..n
        BY <1>1, <1>4, <2>1
      <3>. QED
        BY <1>2, <3>1, ElementOfSeq
    <2>. QED
      BY <1>3, <1>5, <2>1
  <1>7. slab' \in Seq(Cells) /\ Len(slab') = Len(old)
    BY <1>5, <1>6, SeqDef
  <1>8. consumed' = consumed /\ consumed \in Nat
    BY <1>1, <1>3 DEF consumed
  <1>9. ASSUME NEW i \in 1..bufferedBytes'
        PROVE  slab'[slabStart' + i] = stream'[consumed' + i]
    <2>1. start + i \in 1..Len(old) /\ start + i \in DOMAIN old
      BY <1>1, <1>3, <1>4, <1>5
    <2>2. slab'[start + i] = IF start + i \in end + 1..end + n THEN piece[(start + i) - end] ELSE old[start + i]
      <3>1. \A j \in DOMAIN old :
              slab'[j] = IF j \in end + 1..end + n THEN piece[j - end] ELSE old[j]
        BY <1>3, Zenon
      <3>. QED
        BY <2>1, <3>1, Zenon
    <2>3. CASE i <= bufferedBytes
      <3>1. start + i \notin end + 1..end + n /\ i \in 1..bufferedBytes
        BY <1>1, <1>4, <2>3
      <3>2. slab'[start + i] = slab[slabStart + i]
        BY <1>4, <2>2, <3>1
      <3>. QED
        BY <1>1, <1>3, <1>8, <3>1, <3>2 DEF SlabInv
    <2>4. CASE ~(i <= bufferedBytes)
      <3>1. start + i \in end + 1..end + n /\ (start + i) - end = i - bufferedBytes
            /\ i - bufferedBytes \in 1..n
        BY <1>1, <1>3, <1>4, <2>4
      <3>2. slab'[start + i] = stream[fed + (i - bufferedBytes)]
        BY <1>2, <2>2, <3>1
      <3>3. fed + (i - bufferedBytes) = consumed + i
        BY <1>1 DEF consumed
      <3>. QED
        BY <1>1, <1>3, <1>8, <3>2, <3>3
    <2>. QED
      BY <2>3, <2>4, <1>1
  <1>10. /\ fed' \in 0..Len(stream') /\ slabStart' \in Nat /\ bufferedBytes' \in 0..fed'
         /\ slabEnd' = slabStart' + bufferedBytes' /\ slabEnd' <= Len(slab')
    BY <1>1, <1>3, <1>4, <1>7
  <1>11. SlabInv'
    BY <1>7, <1>9, <1>10 DEF SlabInv
  <1>. QED
    BY <1>3, <1>4, <1>7, <1>8, <1>11

-----------------------------------------------------------------------------
(* The steps keep both.                                                    *)

slabView == <<inputVars, slabVars, offsetState>>

LEMMA SlabStays ==
  ASSUME SlabInv, RoomInv, UNCHANGED slabView
  PROVE  SlabInv' /\ RoomInv' /\ consumed' = consumed
  <1>1. /\ input' = input /\ tail' = tail /\ fed' = fed /\ slab' = slab /\ slabStart' = slabStart
        /\ slabEnd' = slabEnd /\ bufferedBytes' = bufferedBytes /\ offsetState' = offsetState
    BY DEF slabView, inputVars, slabVars
  <1>2. stream' = stream /\ consumed' = consumed
    BY <1>1 DEF stream, consumed
  <1>3. LongestRecord' = LongestRecord
    BY <1>1 DEF LongestRecord, limit
  <1>. HIDE DEF stream, consumed, LongestRecord
  <1>. QED
    BY <1>1, <1>2, <1>3 DEF SlabInv, RoomInv

LEMMA LimitStays == input' = input => \A cap \in {"maxMetaBytes", "maxChunkLen"} : limit(cap)' = limit(cap)
  BY DEF limit

LEMMA InitBuffers == Init => BufferInv
  <1>. SUFFICES ASSUME Init
                PROVE  BufferInv
    OBVIOUS
  <1>1. BalanceInv
    BY InitBalance
  <1>2. /\ input \in Inputs /\ tail \in Tails /\ fed = 0 /\ slab = <<>> /\ slabStart = 0
        /\ slabEnd = 0 /\ bufferedBytes = 0 /\ offsetState = "header"
        /\ header = PlainHeader(1, 0, FALSE) /\ readable = <<>> /\ delivered = <<>> /\ taking = 0
        /\ running = "idle" /\ processing = FALSE /\ outputBackpressured = FALSE
    BY DEF Init
  <1>3. SlabInv
    <2>1. stream \in Seq(Cells) /\ Len(stream) \in Nat /\ <<>> \in Seq(Cells) /\ Len(<<>>) = 0
      BY <1>2, InputTypes, EmptySeq
    <2>. QED
      BY <1>2, <2>1 DEF SlabInv
  <1>4. RoomInv
    BY <1>2, RecordFacts, NodeDecoderAssumption DEF RoomInv
  <1>5. ReadableInv
    <2>1. header \in Header
      <3>1. HeaderCell(PlainHeader(1, 0, FALSE)) \in HeaderCells
        <4>1. 1 \in 1..MaxU32 /\ 0 \in 0..MaxU64 /\ FALSE \in BOOLEAN /\ 0 \in Nat
          BY WidthAssumption
        <4>. QED
          BY <4>1, HeadersAreCells, Zenon
      <3>. QED
        BY <1>2, <3>1 DEF HeaderCell, HeaderCells
    <2>2. limit("maxChunkLen") \in Nat
      BY <1>2, InputTypes
    <2>3. readable \in Seq(Cells) /\ delivered \in Seq(Cells) /\ Len(readable) = 0
      BY <1>2, EmptySeq
    <2>4. HighWaterMark \in Nat /\ HighWaterMark > 0
      BY NodeDecoderAssumption
    <2>. HIDE DEF limit
    <2>5. Left = 0
      BY <1>2, <2>3 DEF Left
    <2>6. Left < HighWaterMark + limit("maxChunkLen") /\ Left < HighWaterMark
      BY <2>2, <2>4, <2>5
    <2>7. Len(readable) < HighWaterMark + limit("maxChunkLen") /\ taking \in 0..Len(readable)
      BY <1>2, <2>2, <2>3, <2>4
    <2>. QED
      BY <1>2, <2>1, <2>3, <2>6, <2>7 DEF ReadableInv
  <1>. QED
    BY <1>1, <1>3, <1>4, <1>5 DEF BufferInv

(* When process() has stopped for lack of input, there is less than a      *)
(* record.                                                                 *)
LEMMA LessThanRecord ==
  ASSUME SlabInv, RoomInv, ~Ready
  PROVE  bufferedBytes < LongestRecord
  <1>1. /\ LongestRecord \in Nat /\ LongestRecord >= 2
        /\ LongestRecord >= 1 + limit("maxMetaBytes") /\ LongestRecord >= 1 + limit("maxChunkLen")
        /\ limit("maxMetaBytes") \in Nat /\ limit("maxChunkLen") \in Nat
    BY RecordFacts, InputTypes DEF SlabInv
  <1>2. bufferedBytes \in Nat
    BY SlabFacts
  <1>. HIDE DEF LongestRecord
  <1>3. ASSUME NEW cap \in {"maxMetaBytes", "maxChunkLen"}, ~RecordReady(cap)
        PROVE  bufferedBytes < LongestRecord
    <2>1. CASE ~HasLength
      BY <1>1, <1>2, <2>1 DEF HasLength
    <2>2. CASE HasLength
      <3>1. ~Oversized(cap) /\ ~HasRecord
        BY <1>3, <2>2 DEF RecordReady
      <3>2. length \in Nat
        BY <2>2, LengthFacts
      <3>3. length <= limit(cap) /\ ~(bufferedBytes >= length + 1)
        BY <1>1, <2>2, <3>1, <3>2 DEF Oversized, HasRecord
      <3>. HIDE DEF length
      <3>. QED
        BY <1>1, <1>2, <3>2, <3>3
    <2>. QED
      BY <2>1, <2>2
  <1>4. CASE offsetState = "header"
    BY <1>1, <1>2, <1>4 DEF Ready, HasLength
  <1>5. CASE offsetState = "metadata"
    BY <1>3, <1>5 DEF Ready
  <1>6. CASE offsetState = "payload"
    BY <1>3, <1>6 DEF Ready
  <1>7. CASE offsetState = "footer"
    BY <1>1, <1>2, <1>7 DEF Ready
  <1>8. CASE offsetState = "done"
    BY <1>1, <1>8 DEF RoomInv
  <1>. QED
    BY <1>4, <1>5, <1>6, <1>7, <1>8 DEF RoomInv

LEMMA ThrowsBuffers ==
  ASSUME BufferInv, processing, NEW err, err # NoError, Throws(err)
  PROVE  BufferInv' /\ error' = err /\ error = NoError
  <1>1. BalanceInv' /\ running # "idle" /\ error = NoError
    BY ThrowsBalance DEF BufferInv, BalanceInv, CallTypes
  <1>2. error' = err
    BY <1>1 DEF Throws, Heard, BufferInv, BalanceInv, BlockedInv
  <1>3. SlabInv' /\ RoomInv'
    BY SlabStays DEF Throws, slabView, BufferInv
  <1>4. /\ taking' = 0 /\ readable' = readable /\ delivered' = delivered /\ header' = header
        /\ processing' = FALSE /\ input' = input
    BY DEF Throws, openVars, inputVars
  <1>5. ReadableInv'
    <2>1. Len(readable) \in Nat /\ limit("maxChunkLen")' = limit("maxChunkLen")
      BY <1>4, LenProperties, LimitStays DEF BufferInv, ReadableInv
    <2>. HIDE DEF limit
    <2>. QED
      BY <1>2, <1>4, <2>1 DEF BufferInv, ReadableInv
  <1>. QED
    BY <1>1, <1>2, <1>3, <1>5 DEF BufferInv

(* A turn that takes n cells from the slab and pushes nothing.             *)
LEMMA TurnBuffers ==
  ASSUME BufferInv, processing, Ready, NEW n \in 0..bufferedBytes, consume(n),
         UNCHANGED processVars, header' \in Header,
         offsetState' \in {"header", "metadata", "payload", "footer", "done"},
         offsetState' = "done" => n = bufferedBytes
  PROVE  BufferInv' /\ consumed' = consumed + n
  <1>1. BalanceInv'
    BY TurnBalance DEF BufferInv
  <1>2. UNCHANGED inputVars /\ input' = input
    BY DEF processVars, inputVars
  <1>3. SlabInv' /\ consumed' = consumed + n /\ bufferedBytes' = bufferedBytes - n /\ slab' = slab
    BY <1>2, ConsumeKeeps DEF BufferInv
  <1>4. RoomInv'
    <2>1. LongestRecord' = LongestRecord
      BY <1>2 DEF LongestRecord, limit
    <2>2. LongestRecord \in Nat /\ LongestPiece \in Nat /\ bufferedBytes \in Nat
      BY RecordFacts, SlabFacts DEF BufferInv, SlabInv
    <2>. HIDE DEF LongestRecord, LongestPiece
    <2>. QED
      BY <1>3, <2>1, <2>2 DEF BufferInv, RoomInv
  <1>5. ReadableInv'
    <2>1. /\ readable' = readable /\ delivered' = delivered /\ taking' = taking
          /\ running' = running /\ processing' = processing /\ error' = error
          /\ outputBackpressured' = outputBackpressured
          /\ limit("maxChunkLen")' = limit("maxChunkLen")
      BY <1>2, LimitStays DEF processVars, callVars, holdVars, outVars, endVars
    <2>. HIDE DEF limit
    <2>. QED
      BY <2>1 DEF BufferInv, ReadableInv, Left
  <1>. QED
    BY <1>1, <1>3, <1>4, <1>5 DEF BufferInv

LEMMA HeaderBuffers ==
  ASSUME BufferInv, ParsesHeader
  PROVE  BufferInv'
  <1>1. processing /\ Ready /\ HasLength /\ offsetState = "header"
    BY DEF ParsesHeader, Processing, Ready
  <1>2. CASE HeaderFault # NoError /\ Throws(HeaderFault)
    BY <1>1, <1>2, ThrowsBuffers
  <1>3. CASE ~(HeaderFault # NoError /\ Throws(HeaderFault))
    <2>. DEFINE cell == slab[slabStart + 1]
    <2>1. /\ HeaderFault = NoError /\ header' = cell.h /\ consume(1) /\ UNCHANGED processVars
          /\ offsetState' \in {"metadata", "payload"}
      BY <1>3 DEF ParsesHeader
    <2>2. cell \in Cells
      BY <1>1, LengthFacts DEF BufferInv
    <2>. HIDE DEF cell
    <2>3. ParseHeader(cell) = NoError
      BY <2>1 DEF HeaderFault, cell
    <2>4. header' \in Header
      BY <2>1, <2>2, <2>3, CellFacts DEF ParseHeader, BadMagic, NoError
    <2>5. 1 \in 0..bufferedBytes
      BY <1>1, SlabFacts DEF HasLength, BufferInv
    <2>. QED
      BY <1>1, <2>1, <2>4, <2>5, TurnBuffers
  <1>. QED
    BY <1>2, <1>3

(* A record that process() can parse is in the slab.                       *)
LEMMA RecordThere ==
  ASSUME BufferInv, NEW cap \in {"maxMetaBytes", "maxChunkLen"}, RecordReady(cap), ~Oversized(cap)
  PROVE  /\ HasLength /\ length \in Nat /\ length + 1 \in 0..bufferedBytes
         /\ length <= limit(cap) /\ limit(cap) \in Nat
  <1>1. HasLength /\ HasRecord
    BY DEF RecordReady
  <1>2. length \in Nat /\ bufferedBytes \in Nat /\ limit(cap) \in Nat
    BY <1>1, LengthFacts, SlabFacts, InputTypes DEF BufferInv, SlabInv
  <1>3. bufferedBytes >= length + 1
    BY <1>1 DEF HasRecord
  <1>4. ~(length > limit(cap))
    BY DEF Oversized
  <1>. HIDE DEF length, limit
  <1>. QED
    BY <1>1, <1>2, <1>3, <1>4

LEMMA MetadataBuffers ==
  ASSUME BufferInv, ParsesMetadata
  PROVE  BufferInv'
  <1>1. processing /\ Ready /\ RecordReady("maxMetaBytes")
    BY DEF ParsesMetadata, Processing, Ready
  <1>2. CASE MetadataFault # NoError /\ Throws(MetadataFault)
    BY <1>1, <1>2, ThrowsBuffers
  <1>3. CASE ~(MetadataFault # NoError /\ Throws(MetadataFault))
    <2>1. /\ MetadataFault = NoError /\ header' = header /\ consume(length + 1)
          /\ UNCHANGED processVars /\ offsetState' = "payload"
      BY <1>3 DEF ParsesMetadata
    <2>2. ~Oversized("maxMetaBytes")
      BY <2>1 DEF MetadataFault, MetaMalformed, NoError
    <2>3. length + 1 \in 0..bufferedBytes
      BY <1>1, <2>2, RecordThere
    <2>4. header' \in Header
      BY <2>1 DEF BufferInv, ReadableInv
    <2>. HIDE DEF length
    <2>. QED
      BY <1>1, <2>1, <2>3, <2>4, TurnBuffers
  <1>. QED
    BY <1>2, <1>3

LEMMA FooterBuffers ==
  ASSUME BufferInv, ReachesFooter \/ ChecksFooter
  PROVE  BufferInv'
  <1>1. CASE ReachesFooter
    <2>1. /\ processing /\ Ready /\ offsetState' = "footer" /\ UNCHANGED slabVars
          /\ UNCHANGED openVars /\ UNCHANGED processVars
      BY <1>1 DEF ReachesFooter, Processing
    <2>2. BalanceInv'
      BY <2>1, TurnBalance DEF BufferInv
    <2>3. /\ UNCHANGED inputVars /\ UNCHANGED callVars /\ UNCHANGED holdVars
          /\ UNCHANGED outVars /\ UNCHANGED endVars
      BY <2>1 DEF processVars
    <2>4. /\ SlabInv' /\ LongestRecord' = LongestRecord /\ limit("maxChunkLen")' = limit("maxChunkLen")
      <3>1. input' = input /\ stream' = stream /\ consumed' = consumed
        BY <2>1, <2>3 DEF inputVars, stream, consumed, slabVars
      <3>. HIDE DEF stream, consumed
      <3>. QED
        BY <2>1, <2>3, <3>1 DEF SlabInv, BufferInv, LongestRecord, limit, inputVars, slabVars
    <2>. HIDE DEF limit, LongestRecord
    <2>. QED
      BY <2>1, <2>2, <2>3, <2>4
      DEF BufferInv, ReadableInv, RoomInv, Left, slabVars, openVars, callVars, holdVars, outVars, endVars
  <1>2. CASE ChecksFooter
    <2>1. processing /\ Ready /\ bufferedBytes >= 2
      BY <1>2 DEF ChecksFooter, Processing, Ready
    <2>2. CASE FooterFault # NoError /\ Throws(FooterFault)
      BY <2>1, <2>2, ThrowsBuffers
    <2>3. CASE ~(FooterFault # NoError /\ Throws(FooterFault))
      <3>1. /\ FooterFault = NoError /\ consume(2) /\ offsetState' = "done"
            /\ header' = header /\ UNCHANGED processVars
        BY <1>2, <2>3 DEF ChecksFooter, openVars
      <3>2. ~(bufferedBytes > 2)
        BY <3>1 DEF FooterFault, NoError, Truncated, RootMismatch, TrailingData
      <3>3. 2 \in 0..bufferedBytes /\ 2 = bufferedBytes
        BY <2>1, <3>2, SlabFacts DEF BufferInv
      <3>4. header' \in Header
        BY <3>1 DEF BufferInv, ReadableInv
      <3>. QED
        BY <2>1, <3>1, <3>3, <3>4, TurnBuffers
    <2>. QED
      BY <2>2, <2>3
  <1>. QED
    BY <1>1, <1>2

(* A chunk that is in the slab, ...                                        *)
LEMMA BodyThere ==
  ASSUME BufferInv, length \in Nat, length + 1 \in 0..bufferedBytes
  PROVE  /\ body \in Seq(Cells) /\ Len(body) = length
         /\ body = SubSeq(stream, consumed + 2, consumed + 1 + length)
  <1>. DEFINE n == length
              c == consumed
              all == peek(n + 1)
  <1>. HIDE DEF n
  <1>4. /\ all = SubSeq(stream, c + 1, c + (n + 1)) /\ all \in Seq(Cells) /\ Len(all) = n + 1
    BY PeekFacts DEF BufferInv, n
  <1>5. n \in Nat /\ c \in Nat /\ stream \in Seq(Cells) /\ c + (n + 1) <= Len(stream) /\ Len(stream) \in Nat
    <2>1. /\ bufferedBytes \in Nat /\ c + bufferedBytes <= Len(stream) /\ c \in Nat
          /\ stream \in Seq(Cells) /\ Len(stream) \in Nat
      BY SlabFacts DEF BufferInv
    <2>. HIDE DEF c, stream
    <2>. QED
      BY <2>1 DEF n
  <1>6. body = Tail(all)
    BY DEF body, n
  <1>. HIDE DEF c, stream, all
  <1>7. Tail(all) \in Seq(Cells) /\ Len(Tail(all)) = n /\ \A i \in 1..n : Tail(all)[i] = all[i + 1]
    <2>1. all \in Seq(Cells) /\ Len(all) = n + 1 /\ all # <<>>
      BY <1>4, <1>5, EmptySeq
    <2>2. /\ Tail(all) \in Seq(Cells) /\ Len(Tail(all)) = Len(all) - 1
          /\ \A i \in 1..Len(Tail(all)) : Tail(all)[i] = all[i + 1]
      BY <2>1, HeadTailProperties
    <2>. QED
      BY <1>5, <2>1, <2>2
  <1>. DEFINE other == SubSeq(stream, c + 2, c + 1 + n)
  <1>8. body = other
    <2>1. /\ other \in Seq(Cells)
          /\ Len(other) = IF c + 2 <= c + 1 + n THEN (c + 1 + n) - (c + 2) + 1 ELSE 0
          /\ \A i \in 1..(c + 1 + n) - (c + 2) + 1 : other[i] = stream[(c + 2) + i - 1]
      <3>1. c + 2 \in Nat /\ c + 1 + n \in Nat /\ c + 2 >= 1 /\ c + 1 + n <= Len(stream)
        BY <1>5
      <3>. QED
        BY <1>5, <3>1, PartOf
    <2>2. \A i \in 1..n + 1 : all[i] = stream[c + i]
      <3>1. \A i \in 1..(c + (n + 1)) - (c + 1) + 1 : all[i] = stream[(c + 1) + i - 1]
        <4>1. c + 1 \in Nat /\ c + (n + 1) \in Nat /\ c + 1 >= 1
          BY <1>5
        <4>2. \A i \in 1..(c + (n + 1)) - (c + 1) + 1 :
                SubSeq(stream, c + 1, c + (n + 1))[i] = stream[(c + 1) + i - 1]
          BY <1>5, <4>1, PartOf
        <4>. QED
          BY <1>4, <4>2
      <3>2. ASSUME NEW i \in 1..n + 1 PROVE all[i] = stream[c + i]
        <4>1. i \in 1..(c + (n + 1)) - (c + 1) + 1 /\ (c + 1) + i - 1 = c + i
          BY <1>5
        <4>. QED
          BY <3>1, <4>1
      <3>. QED
        BY <3>2
    <2>. HIDE DEF other
    <2>3. Len(other) = n
      BY <1>5, <2>1
    <2>4. ASSUME NEW i \in 1..n PROVE Tail(all)[i] = other[i]
      <3>1. i \in 1..(c + 1 + n) - (c + 2) + 1 /\ (c + 2) + i - 1 = c + (i + 1) /\ i + 1 \in 1..n + 1
        BY <1>5
      <3>. QED
        BY <1>7, <2>1, <2>2, <3>1
    <2>. QED
      BY <1>6, <1>7, <2>1, <2>3, <2>4, SeqsAreEqual
  <1>. HIDE DEF body, length
  <1>9. body \in Seq(Cells) /\ Len(body) = n /\ body = SubSeq(stream, c + 2, c + 1 + n)
    BY <1>6, <1>7, <1>8
  <1>. QED
    BY <1>9 DEF n, c

(* ... and its plaintext when it is pushed.                                *)
LEMMA ChunkFacts ==
  ASSUME BufferInv, ChunkDue, ChunkFault = NoError
  PROVE  /\ HasLength /\ length \in Nat /\ length + 1 \in 0..bufferedBytes
         /\ body \in Seq(Cells) /\ Len(body) = length
         /\ body = SubSeq(stream, consumed + 2, consumed + 1 + length)
         /\ plain \in Seq(Cells) /\ Len(plain) \in Nat /\ Len(plain) <= limit("maxChunkLen")
  <1>1. RecordReady("maxChunkLen")
    BY DEF ChunkDue, Processing, Ready
  <1>2. ~Oversized("maxChunkLen")
    BY DEF ChunkFault, Truncated, NoError
  <1>3. /\ HasLength /\ length \in Nat /\ length + 1 \in 0..bufferedBytes
        /\ length <= limit("maxChunkLen") /\ limit("maxChunkLen") \in Nat
    BY <1>1, <1>2, RecordThere
  <1>4. /\ body \in Seq(Cells) /\ Len(body) = length
        /\ body = SubSeq(stream, consumed + 2, consumed + 1 + length)
    BY <1>3, BodyThere
  <1>. DEFINE n == length
  <1>. HIDE DEF n
  <1>5. n \in Nat /\ n <= limit("maxChunkLen") /\ Len(body) = n
    BY <1>3, <1>4 DEF n
  <1>6. plain \in Seq(Cells) /\ Len(plain) \in Nat /\ Len(plain) <= n
    <2>1. CASE header.encrypted
      <3>1. Len(body) >= TagLen
        BY <2>1 DEF ChunkFault, Opens, ChunkAuth, Truncated, NoError
      <3>2. plain = openChunk(body)
        BY <2>1 DEF plain
      <3>. HIDE DEF body, plain
      <3>3. openChunk(body) \in Seq(Cells) /\ Len(openChunk(body)) = Len(body) - TagLen
        BY <1>4, <3>1, OpenedChunk
      <3>4. Len(plain) = n - 1 /\ n >= 1
        BY <1>5, <3>1, <3>2, <3>3 DEF TagLen
      <3>. QED
        BY <1>5, <3>2, <3>3, <3>4
    <2>2. CASE ~header.encrypted
      BY <1>4, <1>5, <2>2 DEF plain
    <2>. QED
      BY <2>1, <2>2
  <1>. HIDE DEF body, plain, length, limit
  <1>7. Len(plain) <= limit("maxChunkLen")
    BY <1>3, <1>5, <1>6
  <1>. QED
    BY <1>3, <1>4, <1>6, <1>7

LEMMA PushBuffers ==
  ASSUME BufferInv, PushesChunk
  PROVE  /\ BufferInv' /\ consumed' = consumed + (length + 1)
         /\ readable' = readable \o plain /\ Len(readable') = Len(readable) + Len(plain)
  <1>. DEFINE n == length + 1
              room == limit("maxChunkLen")
              more == Len(plain)
  <1>1. ChunkDue /\ ChunkFault = NoError /\ processing /\ running # "idle" /\ error = NoError
    BY DEF PushesChunk, ChunkDue, Processing, BufferInv, BalanceInv, CallTypes
  <1>2. /\ length \in Nat /\ n \in 0..bufferedBytes
        /\ plain \in Seq(Cells) /\ more \in Nat /\ more <= room /\ room \in Nat
    BY <1>1, ChunkFacts, InputTypes DEF BufferInv, SlabInv
  <1>3. BalanceInv'
    BY PushBalance DEF BufferInv
  <1>4. /\ consume(n) /\ UNCHANGED inputVars /\ input' = input /\ offsetState' = offsetState
        /\ header' = header /\ readable' = readable \o plain /\ processing' = Continues(readable')
        /\ outputBackpressured' = (outputBackpressured \/ ~Continues(readable'))
        /\ running' = running /\ taking' = taking /\ delivered' = delivered /\ error' = error
    BY DEF PushesChunk, inputVars, openVars, endVars
  <1>. HIDE DEF n, room, more
  <1>5. SlabInv' /\ consumed' = consumed + n /\ bufferedBytes' = bufferedBytes - n /\ slab' = slab
    BY <1>2, <1>4, ConsumeKeeps DEF BufferInv
  <1>6. RoomInv'
    <2>1. LongestRecord' = LongestRecord
      BY <1>4 DEF LongestRecord, limit
    <2>2. /\ LongestRecord \in Nat /\ LongestPiece \in Nat /\ bufferedBytes \in Nat
          /\ offsetState # "done"
      BY <1>1, RecordFacts, SlabFacts DEF BufferInv, SlabInv, ChunkDue, Processing
    <2>. HIDE DEF LongestRecord, LongestPiece
    <2>. QED
      BY <1>2, <1>4, <1>5, <2>1, <2>2 DEF BufferInv, RoomInv
  <1>7. /\ readable' \in Seq(Cells) /\ Len(readable') = Len(readable) + more
        /\ Len(readable) \in Nat
    BY <1>2, <1>4, ConcatProperties, LenProperties DEF BufferInv, ReadableInv, more
  <1>8. /\ taking \in 0..Len(readable) /\ (running # "read" => taking = 0)
        /\ Len(readable) - taking < HighWaterMark /\ HighWaterMark \in Nat /\ HighWaterMark > 0
    BY <1>1, NodeDecoderAssumption DEF BufferInv, ReadableInv, Left
  <1>9. processing' \in BOOLEAN /\ (processing' => Len(readable') < HighWaterMark)
    <2>1. CASE readable' = <<>>
      BY <1>4, <1>8, <2>1, EmptySeq DEF Continues, Wanted
    <2>2. CASE readable' # <<>>
      BY <1>4, <2>2 DEF Continues, Wanted
    <2>. QED
      BY <2>1, <2>2
  <1>10. outputBackpressured' = ~processing'
    BY <1>1, <1>4, <1>9 DEF BufferInv, ReadableInv
  <1>11. room' = room
    BY <1>4, LimitStays DEF room
  <1>. DEFINE l == Len(readable)
              k == Len(readable')
  <1>12. /\ k - taking < HighWaterMark + room /\ (processing' => k - taking < HighWaterMark)
         /\ (processing' => k < HighWaterMark + room) /\ taking \in 0..k
         /\ (taking = 0 => k < HighWaterMark + room)
    <2>1. k = l + more /\ l \in Nat /\ taking \in 0..l /\ l - taking < HighWaterMark
      BY <1>7, <1>8
    <2>. HIDE DEF k, l
    <2>. QED
      BY <1>2, <1>8, <1>9, <2>1 DEF k
  <1>13. ReadableInv'
    <2>1. header' \in Header /\ delivered' \in Seq(Cells)
      BY <1>4 DEF BufferInv, ReadableInv
    <2>2. Left' = k - taking
      BY <1>4 DEF Left
    <2>3. Left' < HighWaterMark + room' /\ (~outputBackpressured' => Left' < HighWaterMark)
      BY <1>9, <1>10, <1>11, <1>12, <2>2
    <2>4. processing' \/ running' # "read" => Len(readable') < HighWaterMark + room'
      BY <1>4, <1>8, <1>11, <1>12
    <2>5. taking' \in 0..Len(readable') /\ (running' # "read" => taking' = 0)
      BY <1>4, <1>8, <1>12
    <2>. HIDE DEF Left, limit
    <2>. QED
      BY <1>7, <1>10, <2>1, <2>3, <2>4, <2>5 DEF ReadableInv, room
  <1>. QED
    BY <1>3, <1>4, <1>5, <1>6, <1>7, <1>13 DEF BufferInv, n, more

(* Node's calls, and their returns.                                        *)
LEMMA TransformsBuffers ==
  ASSUME BufferInv, NEW n \in Pieces, Transforms(n)
  PROVE  BufferInv' /\ (error' = NoError => consumed' = consumed)
  <1>1. /\ Open /\ ~writing /\ fed < Len(stream) /\ fed' = fed + n /\ fed' <= Len(stream)
        /\ input' = input /\ tail' = tail /\ UNCHANGED stateVars /\ UNCHANGED outVars
        /\ outputBackpressured' = outputBackpressured
    BY DEF Transforms
  <1>2. ~processing /\ ~outputBackpressured /\ ~Ready /\ error = NoError /\ running = "idle"
    BY <1>1, Quiet DEF BufferInv, Open
  <1>3. BalanceInv'
    BY CallsBalance DEF Calls, BufferInv
  <1>4. n \in Nat /\ n <= LongestPiece
    BY RecordFacts DEF BufferInv, SlabInv
  <1>5. ASSUME SlabInv', RoomInv', processing' => ~outputBackpressured, running' # "read",
               error' # NoError \/ error' = error
        PROVE  BufferInv'
    <2>1. /\ readable' = readable /\ delivered' = delivered /\ taking' = taking /\ header' = header
          /\ limit("maxChunkLen")' = limit("maxChunkLen")
      BY <1>1, LimitStays DEF outVars, stateVars, openVars
    <2>. HIDE DEF limit
    <2>. QED
      BY <1>1, <1>2, <1>3, <1>5, <2>1 DEF BufferInv, ReadableInv, Left
  <1>6. CASE offsetState = "done"
    <2>1. /\ error' = TrailingData /\ UNCHANGED slabVars /\ UNCHANGED callVars
      BY <1>6 DEF Transforms
    <2>2. SlabInv' /\ RoomInv'
      <3>1. fed' \in 0..Len(stream) /\ bufferedBytes = 0 /\ offsetState' = offsetState
        BY <1>1, <1>4, <1>6, SlabFacts DEF BufferInv, RoomInv, stateVars
      <3>2. stream' = stream /\ LongestRecord' = LongestRecord
        BY <1>1 DEF stream, LongestRecord, limit
      <3>. HIDE DEF stream, LongestRecord
      <3>3. SlabInv'
        BY <1>1, <2>1, <3>1, <3>2 DEF slabVars, BufferInv, SlabInv
      <3>. QED
        BY <2>1, <3>1, <3>2, <3>3 DEF slabVars, BufferInv, RoomInv
    <2>. QED
      BY <1>2, <1>5, <2>1, <2>2 DEF callVars, TrailingData, NoError
  <1>7. CASE offsetState # "done"
    <2>1. /\ enqueue(SubSeq(stream, fed + 1, fed')) /\ running' = "transform" /\ error' = error
      BY <1>7 DEF Transforms, endVars
    <2>2. /\ SlabInv' /\ bufferedBytes' = bufferedBytes + n /\ consumed' = consumed
          /\ Len(slab') \in {MinCapacity, Len(slab)} \/ Len(slab') < 2 * (bufferedBytes + n)
      BY <1>1, <1>4, <2>1, EnqueueKeeps DEF BufferInv
    <2>3. RoomInv'
      <3>. DEFINE record == LongestRecord
                  piece == LongestPiece
                  bb == bufferedBytes
                  l == Len(slab)
      <3>1. /\ bb < record /\ record \in Nat /\ piece \in Nat /\ bb \in Nat /\ record' = record
            /\ l \in Nat /\ MinCapacity \in Nat /\ Len(slab') \in Nat
        <4>1. record' = record
          BY <1>1 DEF LongestRecord, limit
        <4>. HIDE DEF record
        <4>. QED
          BY <1>2, <2>2, <4>1, LessThanRecord, RecordFacts, SlabFacts, NodeDecoderAssumption, LenProperties
             DEF BufferInv, SlabInv, record
      <3>. HIDE DEF record, piece
      <3>2. bb + n < record + piece
        BY <1>4, <3>1 DEF piece
      <3>3. Len(slab') <= MinCapacity \/ Len(slab') < 2 * (record + piece)
        <4>1. l <= MinCapacity \/ l < 2 * (record + piece)
          BY DEF BufferInv, RoomInv, record, piece
        <4>. QED
          BY <1>4, <2>2, <3>1, <3>2, <4>1
      <3>4. offsetState' = offsetState
        BY <1>1 DEF stateVars
      <3>. QED
        BY <1>7, <2>2, <3>1, <3>2, <3>3, <3>4 DEF BufferInv, RoomInv, record, piece
    <2>. QED
      BY <1>2, <1>5, <2>1, <2>2, <2>3
  <1>. QED
    BY <1>6, <1>7

(* The consumer: read() first calls _read, then takes its part.            *)
LEMMA TakesFacts ==
  ASSUME ReadableInv, NEW n \in 0..Len(readable), Takes(n)
  PROVE  /\ readable' \in Seq(Cells) /\ Len(readable') = Len(readable) - n
         /\ delivered' \in Seq(Cells) /\ delivered' \o readable' = delivered \o readable
         /\ Len(readable) \in Nat
  <1>. DEFINE part == SubSeq(readable, 1, n)
              rest == SubSeq(readable, n + 1, Len(readable))
  <1>1. readable \in Seq(Cells) /\ delivered \in Seq(Cells) /\ Len(readable) \in Nat
    BY LenProperties DEF ReadableInv
  <1>2. /\ part \in Seq(Cells) /\ rest \in Seq(Cells)
        /\ Len(part) + Len(rest) = Len(readable)
    BY <1>1, PendingSplits
  <1>3. readable = part \o rest /\ Len(part) = n
    <2>1. /\ Len(part) = n /\ \A i \in 1..n : part[i] = readable[i]
          /\ \A i \in 1..Len(readable) - n : rest[i] = readable[n + i]
      <3>1. /\ Len(part) = IF 1 <= n THEN n - 1 + 1 ELSE 0
            /\ \A i \in 1..n - 1 + 1 : part[i] = readable[1 + i - 1]
        BY <1>1, PartOf
      <3>2. \A i \in 1..Len(readable) - (n + 1) + 1 : rest[i] = readable[(n + 1) + i - 1]
        BY <1>1, PartOf
      <3>. HIDE DEF part, rest
      <3>3. Len(part) = n
        BY <1>1, <3>1
      <3>4. ASSUME NEW i \in 1..n PROVE part[i] = readable[i]
        <4>1. i \in 1..n - 1 + 1 /\ 1 + i - 1 = i
          BY <1>1
        <4>. QED
          BY <3>1, <4>1
      <3>5. ASSUME NEW i \in 1..Len(readable) - n PROVE rest[i] = readable[n + i]
        <4>1. i \in 1..Len(readable) - (n + 1) + 1 /\ (n + 1) + i - 1 = n + i
          BY <1>1
        <4>. QED
          BY <3>2, <4>1
      <3>. QED
        BY <3>3, <3>4, <3>5
    <2>. HIDE DEF part, rest
    <2>2. /\ part \o rest \in Seq(Cells) /\ Len(part \o rest) = Len(readable)
          /\ \A i \in 1..Len(part) + Len(rest) :
               (part \o rest)[i] = IF i <= Len(part) THEN part[i] ELSE rest[i - Len(part)]
      BY <1>2, ConcatProperties
    <2>3. ASSUME NEW i \in 1..Len(readable) PROVE readable[i] = (part \o rest)[i]
      <3>1. (part \o rest)[i] = IF i <= n THEN part[i] ELSE rest[i - n]
        BY <1>2, <2>1, <2>2
      <3>2. CASE i <= n
        BY <2>1, <3>1, <3>2
      <3>3. CASE ~(i <= n)
        <4>1. i - n \in 1..Len(readable) - n /\ n + (i - n) = i
          BY <1>1, <3>3
        <4>. QED
          BY <2>1, <3>1, <3>3, <4>1
      <3>. QED
        BY <3>2, <3>3
    <2>. QED
      BY <1>1, <2>1, <2>2, <2>3, SeqsAreEqual
  <1>4. readable' = rest /\ delivered' = delivered \o part
    BY DEF Takes
  <1>. HIDE DEF part, rest
  <1>5. (delivered \o part) \o rest = delivered \o (part \o rest) /\ delivered \o part \in Seq(Cells)
    BY <1>1, <1>2, Regrouped
  <1>6. Len(rest) = Len(readable) - n
    <2>1. Len(rest) \in Nat
      BY <1>2, LenProperties
    <2>. QED
      BY <1>1, <1>2, <1>3, <2>1
  <1>. QED
    BY <1>1, <1>2, <1>3, <1>4, <1>5, <1>6

LEMMA ReadsBuffers ==
  ASSUME BufferInv, NEW n \in 0..Len(readable), ReadsBuffered(n) \/ CallsRead(n)
  PROVE  BufferInv' /\ consumed' = consumed
  <1>1. BalanceInv'
    BY StepBalance DEF Next, Consumes, BufferInv
  <1>2. SlabInv' /\ RoomInv' /\ consumed' = consumed
    BY SlabStays DEF ReadsBuffered, CallsRead, slabView, stateVars, BufferInv
  <1>3. /\ input' = input /\ header' = header /\ error' = error /\ running = "idle" /\ error = NoError
        /\ limit("maxChunkLen")' = limit("maxChunkLen")
    BY LimitStays DEF ReadsBuffered, CallsRead, inputVars, stateVars, openVars, endVars, Open
  <1>. DEFINE room == limit("maxChunkLen")
  <1>4. taking = 0 /\ room \in Nat /\ HighWaterMark \in Nat /\ HighWaterMark > 0 /\ Len(readable) \in Nat
    BY <1>3, InputTypes, NodeDecoderAssumption, LenProperties DEF BufferInv, ReadableInv, SlabInv
  <1>5. /\ Len(readable) - 0 < HighWaterMark + room
        /\ ~outputBackpressured => Len(readable) - 0 < HighWaterMark
    BY <1>3, <1>4 DEF BufferInv, ReadableInv, Left
  <1>. HIDE DEF limit
  <1>6. CASE ReadsBuffered(n)
    <2>1. /\ readable' \in Seq(Cells) /\ Len(readable') = Len(readable) - n /\ delivered' \in Seq(Cells)
      BY <1>6, TakesFacts DEF ReadsBuffered, BufferInv
    <2>2. taking' = 0 /\ running' = running /\ processing' = processing
          /\ outputBackpressured' = outputBackpressured
      BY <1>4, <1>6 DEF ReadsBuffered, callVars, holdVars
    <2>3. /\ Left' < HighWaterMark + room' /\ (~outputBackpressured' => Left' < HighWaterMark)
          /\ Len(readable') < HighWaterMark + room' /\ taking' \in 0..Len(readable')
      BY <1>3, <1>4, <1>5, <2>1, <2>2 DEF Left
    <2>4. header' \in Header /\ (processing' => ~outputBackpressured')
      BY <1>3, <2>2 DEF BufferInv, ReadableInv
    <2>. HIDE DEF Left
    <2>. QED
      BY <1>1, <1>2, <2>1, <2>2, <2>3, <2>4 DEF BufferInv, ReadableInv
  <1>7. CASE CallsRead(n)
    <2>1. /\ readable' = readable /\ delivered' = delivered /\ taking' = n /\ running' = "read"
          /\ processing' = outputBackpressured /\ outputBackpressured' = FALSE /\ ReadDue(n)
      BY <1>7 DEF CallsRead
    <2>2. Len(readable) - n < HighWaterMark
      <3>1. CASE readable = <<>>
        <4>1. Len(readable) = 0
          BY <3>1, EmptySeq
        <4>. QED
          BY <1>4, <4>1
      <3>2. CASE readable # <<>>
        BY <2>1, <3>2 DEF ReadDue
      <3>. QED
        BY <3>1, <3>2
    <2>3. /\ Left' < HighWaterMark + room' /\ Left' < HighWaterMark
          /\ Len(readable') < HighWaterMark + room' /\ taking' \in 0..Len(readable')
      BY <1>3, <1>4, <1>5, <2>1, <2>2 DEF Left
    <2>4. header' \in Header /\ readable' \in Seq(Cells) /\ delivered' \in Seq(Cells)
      BY <1>3, <2>1 DEF BufferInv, ReadableInv
    <2>. HIDE DEF Left
    <2>. QED
      BY <1>1, <1>2, <2>1, <2>3, <2>4 DEF BufferInv, ReadableInv
  <1>. QED
    BY <1>6, <1>7

LEMMA ReturnsBuffers ==
  ASSUME BufferInv, Returns
  PROVE  BufferInv' /\ consumed' = consumed
  <1>1. BalanceInv'
    BY StepBalance DEF Next, BufferInv
  <1>2. SlabInv' /\ RoomInv' /\ consumed' = consumed
    BY SlabStays DEF Returns, TransformReturns, FlushReturns, ReadReturns, slabView, stateVars, BufferInv
  <1>3. /\ input' = input /\ header' = header /\ ~processing /\ processing' = processing
        /\ running' = "idle" /\ outputBackpressured' = outputBackpressured
        /\ running # "idle" /\ limit("maxChunkLen")' = limit("maxChunkLen")
    BY LimitStays
       DEF Returns, TransformReturns, FlushReturns, ReadReturns, Returning, inputVars, stateVars, openVars
  <1>4. error = NoError
    BY <1>3 DEF BufferInv, BalanceInv
  <1>. HIDE DEF limit
  <1>5. CASE TransformReturns \/ FlushReturns
    <2>1. /\ readable' = readable /\ delivered' = delivered /\ taking' = taking /\ running # "read"
      BY <1>5 DEF TransformReturns, FlushReturns, Returning
    <2>. QED
      BY <1>1, <1>2, <1>3, <1>4, <2>1 DEF BufferInv, ReadableInv, Left
  <1>6. CASE ReadReturns
    <2>1. taking' = 0 /\ Takes(taking) /\ running = "read"
      BY <1>6 DEF ReadReturns, Returning
    <2>2. /\ readable' \in Seq(Cells) /\ Len(readable') = Len(readable) - taking
          /\ delivered' \in Seq(Cells) /\ Len(readable) \in Nat /\ taking \in 0..Len(readable)
      BY <2>1, TakesFacts DEF BufferInv, ReadableInv
    <2>3. Left' = Left /\ Len(readable') = Left /\ 0 \in 0..Len(readable')
      BY <2>1, <2>2 DEF Left
    <2>. HIDE DEF Left
    <2>. QED
      BY <1>1, <1>2, <1>3, <1>4, <2>1, <2>2, <2>3 DEF BufferInv, ReadableInv
  <1>. QED
    BY <1>5, <1>6 DEF Returns

LEMMA StepBuffers == BufferInv /\ [Next]_vars => BufferInv'
  <1>. SUFFICES ASSUME BufferInv, [Next]_vars
                PROVE  BufferInv'
    OBVIOUS
  <1>1. BalanceInv'
    BY StepBalance DEF BufferInv
  <1>2. ASSUME UNCHANGED slabView, UNCHANGED openVars, UNCHANGED <<readable, taking, delivered>>,
               UNCHANGED outputBackpressured,
               processing' => processing \/ (~outputBackpressured /\ running # "read"),
               running' # "read" => running # "read", error = NoError \/ error' # NoError
        PROVE  BufferInv'
    <2>1. SlabInv' /\ RoomInv' /\ limit("maxChunkLen")' = limit("maxChunkLen")
      BY <1>2, SlabStays, LimitStays DEF BufferInv, slabView, inputVars
    <2>. HIDE DEF limit
    <2>. QED
      BY <1>1, <1>2, <2>1 DEF BufferInv, ReadableInv, Left, openVars
  <1>3. CASE Flushes
    <2>1. running = "idle" /\ ~outputBackpressured
      BY <1>3, Quiet DEF Flushes, Open, BufferInv
    <2>. QED
      BY <1>2, <1>3, <2>1 DEF Flushes, slabView, stateVars, outVars, endVars
  <1>4. CASE SourceFails
    BY <1>2, <1>4 DEF SourceFails, slabView, stateVars, outVars, callVars, holdVars, NoError
  <1>5. CASE EmitsEnd
    BY <1>2, <1>5 DEF EmitsEnd, slabView, stateVars, callVars, holdVars, endVars
  <1>6. CASE UNCHANGED vars
    BY <1>2, <1>6 DEF vars, slabView, outVars, callVars, holdVars, endVars
  <1>7. CASE Pauses
    BY <1>2, <1>7 DEF Pauses, slabView, outVars, callVars, holdVars, endVars
  <1>8. CASE ChunkThrows
    BY <1>8, ThrowsBuffers DEF ChunkThrows, ChunkDue, Processing
  <1>9. CASE process
    BY <1>7, <1>8, <1>9, HeaderBuffers, MetadataBuffers, FooterBuffers, PushBuffers DEF process
  <1>10. CASE Calls
    BY <1>3, <1>10, TransformsBuffers DEF Calls
  <1>11. CASE Consumes
    BY <1>11, ReadsBuffers DEF Consumes
  <1>. QED
    BY <1>4, <1>5, <1>6, <1>9, <1>10, <1>11, ReturnsBuffers DEF Next

(* However the input is cut into pieces, what the slab holds is the input  *)
(* that has not been consumed.                                             *)
THEOREM SlabIsInput == Spec => []SlabHoldsInput
  <1>1. BufferInv => SlabHoldsInput
    <2>. SUFFICES ASSUME BufferInv
                  PROVE  SlabHoldsInput
      OBVIOUS
    <2>1. /\ bufferedBytes \in Nat /\ slabStart \in Nat /\ slabEnd = slabStart + bufferedBytes
          /\ fed \in Nat /\ bufferedBytes <= fed /\ bufferedBytes \in 0..bufferedBytes
      BY SlabFacts DEF BufferInv, SlabInv
    <2>2. peek(bufferedBytes) = SubSeq(stream, consumed + 1, consumed + bufferedBytes)
      BY <2>1, PeekFacts DEF BufferInv
    <2>3. peek(bufferedBytes) = SubSeq(slab, slabStart + 1, slabEnd)
      BY <2>1 DEF peek
    <2>4. consumed + 1 = fed - bufferedBytes + 1 /\ consumed + bufferedBytes = fed
      BY <2>1 DEF consumed
    <2>5. SubSeq(slab, slabStart + 1, slabEnd) = SubSeq(stream, fed - bufferedBytes + 1, fed)
      BY <2>2, <2>3, <2>4, Zenon
    <2>6. bufferedBytes = slabEnd - slabStart
      BY <2>1
    <2>. QED
      BY <2>5, <2>6 DEF SlabHoldsInput
  <1>. QED
    BY <1>1, InitBuffers, StepBuffers, PTL DEF Spec

(* A slow consumer holds the source back: what the decoder keeps is        *)
(* bounded by the caps, the mark and the largest piece, whatever the       *)
(* input has, and the slab by twice that.                                  *)
THEOREM BuffersBounded == Spec => []BuffersAreBounded
  <1>1. BufferInv => BuffersAreBounded
    <2>. SUFFICES ASSUME BufferInv
                  PROVE  BuffersAreBounded
      OBVIOUS
    <2>1. ASSUME error = NoError, ~outputBackpressured, running = "idle"
          PROVE  bufferedBytes < LongestRecord
      BY <2>1, LessThanRecord DEF BufferInv, BalanceInv, CallTypes, CallInv
    <2>. QED
      BY <2>1 DEF BuffersAreBounded, BufferInv, ReadableInv, RoomInv
  <1>. QED
    BY <1>1, InitBuffers, StepBuffers, PTL DEF Spec

-----------------------------------------------------------------------------
(* The refinement.  What decodeBytes makes of the whole input, and where   *)
(* its chunk loop stands after as many chunks as the decoder has pushed.   *)

decoded == decodeBytes(stream, input.key, limits)

Turned == AfterTurns(stream, input.key, limits, chunkIndex)

TurnError == ChunkError(stream, input.key, limits, chunkIndex, Turned.offset, Len(Turned.plain))

Pushed == delivered \o readable

NothingPushed == chunkIndex = 0 /\ plainTotal = 0 /\ readable = <<>> /\ delivered = <<>>

HeaderGood == stream # <<>> /\ ParseHeader(stream[1]) = NoError /\ header = stream[1].h

Follows ==
  /\ HeaderGood /\ PreambleError(stream, input.key, limits) = NoError
  /\ MetaEnd(stream) \in 1..Len(stream)
  /\ region = RegionOf(stream)
  /\ chunkIndex \in 0..header.chunkCount /\ (offsetState = "footer" => chunkIndex = header.chunkCount)
  /\ Turned.err = NoError /\ Turned.offset = consumed
  /\ Turned.plain = Pushed /\ Len(Turned.plain) = plainTotal
  /\ root = [key   |-> IF header.encrypted THEN rootKey(input.key, header.baseNonce) ELSE NoKey,
             input |-> <<stream[1]>> \o region \o Turned.leaves]

StateInv ==
  /\ offsetState = "header" => consumed = 0 /\ region = <<>> /\ NothingPushed
  /\ offsetState = "metadata" => consumed = 1 /\ HeaderGood /\ header.hasMetadata /\ NothingPushed
  /\ offsetState \in {"payload", "footer"} => Follows
  /\ offsetState = "done" =>
       /\ decoded.plain = Pushed
       /\ decoded.err = IF consumed = Len(stream) THEN NoError ELSE TrailingData

EndInv ==
  /\ running = "flush" => fed = Len(stream) /\ tail = Ends
  /\ ended => running = "idle" /\ offsetState = "done" /\ fed = Len(stream) /\ tail = Ends
  /\ finished => ended /\ readable = <<>>
  /\ ended \in BOOLEAN /\ finished \in BOOLEAN

FollowInv == error = NoError => StateInv /\ EndInv

-----------------------------------------------------------------------------
(* The prefix: the decoder and decodeBytes agree on it.                    *)

LEMMA HeaderFacts ==
  ASSUME stream \in Seq(Cells), stream # <<>>
  PROVE  /\ Len(stream) \in Nat /\ Len(stream) >= 1 /\ stream[1] \in Cells
         /\ ParseHeader(stream[1]) = NoError =>
              stream[1] = HeaderCell(stream[1].h) /\ stream[1].h \in Header
  <1>. HIDE DEF stream
  <1>1. Len(stream) \in Nat /\ Len(stream) >= 1
    BY EmptySeq, LenProperties
  <1>2. stream[1] \in Cells
    BY <1>1
  <1>3. ASSUME ParseHeader(stream[1]) = NoError
        PROVE  stream[1] = HeaderCell(stream[1].h) /\ stream[1].h \in Header
    <2>1. stream[1].t = "header"
      BY <1>3 DEF ParseHeader, BadMagic, NoError
    <2>2. stream[1] \in HeaderCells
      BY <1>2, <2>1 DEF Cells, HeaderCells, NumCells, CtCells, TagCells, RootCells, MagicEnd, Junk
    <2>. QED
      BY <2>2 DEF HeaderCells, HeaderCell
  <1>. QED
    BY <1>1, <1>2, <1>3

Preamble == PreambleError(stream, input.key, limits)

LEMMA PreambleFacts ==
  ASSUME input \in Inputs
  PROVE  /\ stream = <<>> => Preamble = Truncated
         /\ stream # <<>> /\ ParseHeader(stream[1]) # NoError => Preamble = ParseHeader(stream[1])
         /\ stream # <<>> /\ ParseHeader(stream[1]) = NoError =>
              Preamble = IF stream[1].h.hasMetadata /\ ~parse_metadata(stream, limit("maxMetaBytes")).ok
                         THEN MetaMalformed ELSE InitFault(stream[1].h)
  <1>1. /\ limits.maxMetaBytes = limit("maxMetaBytes") /\ limits.maxChunkCount = limit("maxChunkCount")
        /\ limits.maxTotalSize = limit("maxTotalSize")
    BY InputTypes
  <1>. HIDE DEF limits, stream, limit
  <1>. QED
    BY <1>1 DEF Preamble, PreambleError, inspectError, InitFault, Truncated, NoError, MetaMalformed

(* A region that is in the slab, and one that is not.                      *)
LEMMA RegionAgrees ==
  ASSUME BufferInv, consumed = 1, HasLength
  PROVE  /\ Len(stream) >= 2 /\ length = U32(stream[2]) /\ length \in Nat
         /\ Oversized("maxMetaBytes") \/ length + 1 > Len(stream) - 1 =>
              ~parse_metadata(stream, limit("maxMetaBytes")).ok
         /\ ~Oversized("maxMetaBytes") /\ HasRecord =>
              /\ peek(length + 1) = SubSeq(stream, 2, 2 + length)
              /\ 2 + length <= Len(stream)
              /\ parse_metadata(stream, limit("maxMetaBytes")).ok
                   <=> ParseMetadata(peek(length + 1)).ok
  <1>. DEFINE n == U32(stream[2])
              l == Len(stream)
              cap == limit("maxMetaBytes")
              part == SubSeq(stream, 2, 2 + n)
  <1>1. /\ bufferedBytes \in Nat /\ bufferedBytes >= 1 /\ l \in Nat /\ 1 + bufferedBytes <= l
        /\ stream \in Seq(Cells) /\ consumed + 1 = 2
    BY SlabFacts DEF BufferInv, HasLength
  <1>2. length = n /\ n \in Nat /\ cap \in Nat /\ ~Malformed.ok
    BY <1>1, LengthFacts, InputTypes DEF BufferInv, SlabInv, Malformed
  <1>3. /\ Oversized("maxMetaBytes") <=> n > cap
        /\ HasRecord <=> bufferedBytes >= n + 1
    BY <1>2 DEF Oversized, HasRecord, HasLength
  <1>. HIDE DEF length, stream, limit
  <1>4. parse_metadata(stream, cap) = IF n = 0 \/ n > cap \/ n > l - 2 THEN Malformed
                                      ELSE ParseMetadata(part)
    BY <1>1 DEF parse_metadata
  <1>5. ASSUME bufferedBytes >= n + 1
        PROVE  /\ peek(length + 1) = part /\ 2 + n <= l
               /\ n = 0 => ParseMetadata(part) = Malformed
    <2>1. n + 1 \in 0..bufferedBytes /\ 2 + n <= l /\ consumed + (n + 1) = 2 + n
      BY <1>1, <1>2, <1>5
    <2>2. peek(n + 1) = part
      BY <1>1, <2>1, PeekFacts DEF BufferInv
    <2>3. ASSUME n = 0 PROVE ParseMetadata(part) = Malformed
      <3>1. part = SubSeq(stream, 2, 2)
        BY <2>3
      <3>2. Len(part) = 1 /\ part[1] = stream[2]
        <4>1. 2 \in Nat /\ 2 >= 1 /\ 2 <= l
          BY <1>1
        <4>2. Len(SubSeq(stream, 2, 2)) = 1 /\ SubSeq(stream, 2, 2)[1] = stream[2]
          BY <1>1, <4>1, PartOf
        <4>. QED
          BY <3>1, <4>2
      <3>. QED
        BY <2>3, <3>2 DEF ParseMetadata
    <2>. QED
      BY <1>2, <2>1, <2>2, <2>3
  <1>. HIDE DEF n, l, cap, part
  <1>6. ASSUME n > cap \/ n + 1 > l - 1 PROVE parse_metadata(stream, cap) = Malformed
    BY <1>1, <1>2, <1>4, <1>6
  <1>7. ASSUME ~(n > cap), bufferedBytes >= n + 1
        PROVE  parse_metadata(stream, cap) = ParseMetadata(part)
    <2>1. ~(n > l - 2)
      BY <1>1, <1>2, <1>7
    <2>. QED
      BY <1>4, <1>5, <1>7, <2>1
  <1>8. ASSUME Oversized("maxMetaBytes") \/ length + 1 > l - 1
        PROVE  ~parse_metadata(stream, cap).ok
    BY <1>2, <1>3, <1>6, <1>8
  <1>9. ASSUME ~Oversized("maxMetaBytes"), HasRecord
        PROVE  /\ peek(length + 1) = part /\ 2 + n <= l
               /\ parse_metadata(stream, cap).ok <=> ParseMetadata(peek(length + 1)).ok
    BY <1>3, <1>5, <1>7, <1>9
  <1>10. l >= 2
    BY <1>1
  <1>. QED
    BY <1>2, <1>8, <1>9, <1>10 DEF n, l, cap, part

LEMMA DecodedEarly == Preamble # NoError => decoded.err = Preamble
  BY DecodedPrefix DEF Preamble, decoded

(* An exception of the prefix is the error of decodeBytes.                 *)
LEMMA HeaderFaultAgrees ==
  ASSUME BufferInv, StateInv, offsetState = "header", HasLength
  PROVE  /\ slab[slabStart + 1] = stream[1] /\ stream # <<>>
         /\ HeaderFault # NoError => decoded.err = HeaderFault
         /\ HeaderFault = NoError =>
              /\ ParseHeader(stream[1]) = NoError
              /\ ~stream[1].h.hasMetadata => Preamble = NoError
  <1>1. consumed = 0
    BY DEF StateInv
  <1>2. slab[slabStart + 1] = stream[1]
    BY <1>1, LengthFacts DEF BufferInv
  <1>3. stream # <<>>
    <2>1. bufferedBytes \in Nat /\ bufferedBytes >= 1 /\ bufferedBytes <= Len(stream)
      BY <1>1, SlabFacts DEF BufferInv, HasLength
    <2>. QED
      BY <2>1, EmptySeq
  <1>4. /\ ParseHeader(stream[1]) # NoError => Preamble = ParseHeader(stream[1])
        /\ ParseHeader(stream[1]) = NoError =>
             Preamble = IF stream[1].h.hasMetadata /\ ~parse_metadata(stream, limit("maxMetaBytes")).ok
                        THEN MetaMalformed ELSE InitFault(stream[1].h)
    BY <1>3, PreambleFacts DEF BufferInv, SlabInv
  <1>5. HeaderFault = IF ParseHeader(stream[1]) # NoError THEN ParseHeader(stream[1])
                      ELSE IF stream[1].h.hasMetadata THEN NoError ELSE InitFault(stream[1].h)
    BY <1>2 DEF HeaderFault
  <1>. HIDE DEF HeaderFault, stream, Preamble
  <1>. QED
    BY <1>2, <1>3, <1>4, <1>5, DecodedEarly

LEMMA MetadataFaultAgrees ==
  ASSUME BufferInv, StateInv, offsetState = "metadata", RecordReady("maxMetaBytes")
  PROVE  /\ MetadataFault # NoError => decoded.err = MetadataFault
         /\ MetadataFault = NoError =>
              /\ Preamble = NoError /\ ~Oversized("maxMetaBytes") /\ HasRecord
              /\ length \in Nat /\ length + 1 \in 0..bufferedBytes
              /\ MetaEnd(stream) = 2 + length /\ MetaEnd(stream) \in 1..Len(stream)
              /\ peek(length + 1) = RegionOf(stream)
  <1>1. consumed = 1 /\ HeaderGood /\ header.hasMetadata /\ HasLength
    BY DEF StateInv, RecordReady
  <1>2. Preamble = IF ~parse_metadata(stream, limit("maxMetaBytes")).ok
                   THEN MetaMalformed ELSE InitFault(header)
    BY <1>1, PreambleFacts DEF BufferInv, SlabInv, HeaderGood
  <1>3. CASE Oversized("maxMetaBytes")
    <2>1. ~parse_metadata(stream, limit("maxMetaBytes")).ok
      BY <1>1, <1>3, RegionAgrees
    <2>. QED
      BY <1>2, <1>3, <2>1, DecodedEarly DEF MetadataFault, MetaMalformed, NoError
  <1>4. CASE ~Oversized("maxMetaBytes")
    <2>1. HasRecord
      BY <1>4 DEF RecordReady
    <2>2. /\ length = U32(stream[2]) /\ length \in Nat /\ Len(stream) >= 2
          /\ peek(length + 1) = SubSeq(stream, 2, 2 + length) /\ 2 + length <= Len(stream)
          /\ parse_metadata(stream, limit("maxMetaBytes")).ok <=> ParseMetadata(peek(length + 1)).ok
      BY <1>1, <1>4, <2>1, RegionAgrees
    <2>3. MetadataFault = Preamble
      BY <1>2, <1>4, <2>2 DEF MetadataFault
    <2>4. MetaEnd(stream) = 2 + length
      BY <1>1, <2>2 DEF MetaEnd, HeaderGood
    <2>5. peek(length + 1) = RegionOf(stream)
      BY <2>2, <2>4 DEF RegionOf
    <2>6. length + 1 \in 0..bufferedBytes /\ Len(stream) \in Nat
      BY <1>4, RecordThere, SlabFacts DEF BufferInv
    <2>. HIDE DEF length, stream, Preamble, MetadataFault
    <2>7. MetaEnd(stream) \in 1..Len(stream)
      BY <2>2, <2>4, <2>6
    <2>. QED
      BY <1>4, <2>1, <2>2, <2>3, <2>4, <2>5, <2>6, <2>7, DecodedEarly
  <1>. QED
    BY <1>3, <1>4

-----------------------------------------------------------------------------
(* The chunks: the decoder stands where the loop of decodeBytes does after *)
(* the same number of them.                                                *)

LEMMA FollowsFacts ==
  ASSUME BufferInv, Follows
  PROVE  /\ stream \in Seq(Cells) /\ Len(stream) \in Nat /\ Preamble = NoError
         /\ MetaEnd(stream) \in 0..Len(stream)
         /\ header = stream[1].h /\ HeaderCell(header) = stream[1] /\ stream[1] \in Cells
         /\ header.chunkCount \in Nat /\ header.totalSize \in Nat
         /\ chunkIndex \in Nat /\ chunkIndex <= header.chunkCount
         /\ TurnShape(stream, Turned) /\ plainTotal \in Nat
         /\ consumed \in Nat /\ consumed + bufferedBytes = fed /\ fed <= Len(stream)
         /\ bufferedBytes \in Nat
         /\ Begins(Pushed, decoded.plain, Cells) /\ decoded.plain \in Seq(Cells)
  <1>1. /\ stream \in Seq(Cells) /\ Len(stream) \in Nat /\ consumed \in Nat /\ bufferedBytes \in Nat
        /\ consumed + bufferedBytes = fed /\ fed <= Len(stream)
    BY SlabFacts DEF BufferInv
  <1>2. /\ HeaderGood /\ PreambleError(stream, input.key, limits) = NoError
        /\ MetaEnd(stream) \in 1..Len(stream) /\ chunkIndex \in 0..header.chunkCount
        /\ Turned.plain = Pushed /\ Len(Turned.plain) = plainTotal
    BY DEF Follows
  <1>3. /\ stream # <<>> /\ header = stream[1].h /\ stream[1] = HeaderCell(header)
        /\ header \in Header /\ stream[1] \in Cells
    BY <1>1, <1>2, HeaderFacts DEF HeaderGood
  <1>4. header.chunkCount \in Nat /\ header.totalSize \in Nat
    BY <1>3, WidthAssumption DEF Header
  <1>5. /\ MetaEnd(stream) \in 0..Len(stream) /\ stream[1].h.chunkCount \in Nat
        /\ chunkIndex \in 0..stream[1].h.chunkCount
    BY <1>1, <1>2, <1>3, <1>4
  <1>6. /\ TurnShape(stream, Turned) /\ Begins(Turned.plain, decoded.plain, Cells)
        /\ decoded.plain \in Seq(Cells)
    BY <1>1, <1>2, <1>5, LoopBegins DEF Turned, decoded
  <1>7. plainTotal \in Nat
    BY <1>2, <1>6, LenProperties DEF TurnShape
  <1>8. chunkIndex \in Nat /\ chunkIndex <= header.chunkCount
    BY <1>2, <1>4
  <1>9. Begins(Pushed, decoded.plain, Cells)
    BY <1>2, <1>6
  <1>. QED
    BY <1>1, <1>2, <1>3, <1>4, <1>5, <1>6, <1>7, <1>8, <1>9 DEF Preamble

(* Where it starts.                                                        *)
LEMMA FollowsStarts ==
  ASSUME stream \in Seq(Cells), input' = input, offsetState' = "payload",
         stream # <<>>, ParseHeader(stream[1]) = NoError, header' = stream[1].h,
         Preamble = NoError, MetaEnd(stream) \in 1..Len(stream), region' = RegionOf(stream),
         root' = RootOf(header', region'), NothingPushed', consumed' = MetaEnd(stream)
  PROVE  Follows'
  <1>1. stream' = stream /\ limits' = limits
    BY DEF stream, limits, limit
  <1>2. Turned' = Start(stream)
    <2>1. Turned' = AfterTurns(stream, input.key, limits, 0)
      BY <1>1 DEF Turned, NothingPushed
    <2>. QED
      BY <2>1, AfterTurnsValues
  <1>3. /\ Turned'.err = NoError /\ Turned'.offset = MetaEnd(stream)
        /\ Turned'.plain = <<>> /\ Turned'.leaves = <<>>
    BY <1>2 DEF Start
  <1>4. Pushed' = <<>> /\ chunkIndex' = 0 /\ plainTotal' = 0
    BY DEF Pushed, NothingPushed
  <1>5. /\ stream[1] = HeaderCell(header') /\ stream[1] \in Cells /\ Len(stream) \in Nat
        /\ header' \in Header
    BY HeaderFacts
  <1>6. region' \in Seq(Cells)
    <2>1. MetaEnd(stream) \in Nat /\ MetaEnd(stream) <= Len(stream) /\ 2 \in Nat /\ 2 >= 1
      BY <1>5
    <2>. QED
      BY <2>1, PartOf DEF RegionOf
  <1>7. root' = [key   |-> IF header'.encrypted THEN rootKey(input.key, header'.baseNonce) ELSE NoKey,
                 input |-> <<stream[1]>> \o region' \o <<>>]
    <2>1. <<stream[1]>> \in Seq(Cells)
      BY <1>5
    <2>2. <<stream[1]>> \o region' \in Seq(Cells)
      BY <1>6, <2>1, ConcatProperties
    <2>3. (<<stream[1]>> \o region') \o <<>> = <<stream[1]>> \o region'
      BY <2>2, ConcatEmptySeq
    <2>. QED
      BY <1>5, <2>3 DEF RootOf
  <1>8. 0 \in 0..header'.chunkCount
    BY <1>5, WidthAssumption DEF Header
  <1>9. HeaderGood'
    BY <1>1 DEF HeaderGood
  <1>10. Len(<<>>) = 0
    BY EmptySeq
  <1>11. PreambleError(stream, input.key, limits) = NoError
    BY DEF Preamble
  <1>. HIDE DEF stream, limits, Turned, Pushed, HeaderGood, consumed
  <1>. QED
    BY <1>1, <1>3, <1>4, <1>7, <1>8, <1>9, <1>10, <1>11 DEF Follows

(* What changes none of it.                                                *)
LEMMA FollowsKept ==
  ASSUME Follows, input' = input, consumed' = consumed, UNCHANGED openVars, UNCHANGED chunkVars,
         root' = root, offsetState' = "footer" => chunkIndex = header.chunkCount,
         Pushed' = Pushed
  PROVE  Follows'
  <1>1. /\ stream' = stream /\ limits' = limits /\ header' = header /\ region' = region
        /\ chunkIndex' = chunkIndex /\ plainTotal' = plainTotal
    BY DEF stream, limits, limit, openVars, chunkVars
  <1>2. Turned' = Turned
    BY <1>1 DEF Turned
  <1>3. HeaderGood' <=> HeaderGood
    BY <1>1 DEF HeaderGood
  <1>. HIDE DEF Turned, stream, limits, Pushed, HeaderGood, consumed
  <1>. QED
    BY <1>1, <1>2, <1>3 DEF Follows

(* process() and decodeBytes find the same fault in a chunk.               *)
LEMMA ChunkErrorsAgree ==
  ASSUME BufferInv, Follows, ChunkDue
  PROVE  TurnError = ChunkFault
  <1>. DEFINE l == Len(stream)
              c == consumed
              n == U32(stream[c + 1])
              cap == limit("maxChunkLen")
              part == SubSeq(stream, c + 2, c + 1 + n)
              tag == IF header.encrypted THEN TagLen ELSE 0
              opens == Opens(input.key, header.baseNonce, stream[1], RegionOf(stream), chunkIndex, part)
  <1>1. RecordReady("maxChunkLen") /\ HasLength
    BY DEF ChunkDue, Processing, Ready, RecordReady
  <1>2. /\ l \in Nat /\ c \in Nat /\ bufferedBytes >= 1 /\ c + bufferedBytes <= l /\ bufferedBytes \in Nat
        /\ header = stream[1].h /\ HeaderCell(header) = stream[1] /\ plainTotal \in Nat
        /\ header.totalSize \in Nat
    <2>1. /\ l \in Nat /\ c \in Nat /\ bufferedBytes \in Nat /\ c + bufferedBytes = fed /\ fed <= l
          /\ header = stream[1].h /\ HeaderCell(header) = stream[1] /\ plainTotal \in Nat
          /\ header.totalSize \in Nat
      BY FollowsFacts
    <2>. QED
      BY <1>1, <2>1 DEF HasLength
  <1>3. length = n /\ n \in Nat /\ cap \in Nat /\ limits.maxChunkLen = cap
    BY <1>1, LengthFacts, InputTypes DEF BufferInv, SlabInv
  <1>4. Turned.offset = c /\ Len(Turned.plain) = plainTotal /\ region = RegionOf(stream)
    BY DEF Follows
  <1>5. TurnError = IF l - c < 1 THEN Truncated
                    ELSE IF n > cap \/ n > l - c - 1 THEN Truncated
                    ELSE IF header.encrypted /\ ~opens THEN ChunkAuth
                    ELSE IF plainTotal + Len(part) - tag > header.totalSize THEN RootMismatch
                    ELSE NoError
    <2>1. TurnError = ChunkError(stream, input.key, limits, chunkIndex, c, plainTotal)
      BY <1>4 DEF TurnError
    <2>. HIDE DEF TurnError, stream, limits, limit, consumed
    <2>. QED
      BY <1>2, <1>3, <2>1 DEF ChunkError
  <1>6. Oversized("maxChunkLen") <=> n > cap
    BY <1>3 DEF Oversized
  <1>7. CASE n > cap
    BY <1>2, <1>5, <1>6, <1>7 DEF ChunkFault
  <1>8. CASE ~(n > cap)
    <2>1. ~Oversized("maxChunkLen")
      BY <1>6, <1>8
    <2>2. length + 1 \in 0..bufferedBytes
      BY <1>1, <2>1, RecordThere
    <2>3. ~(n > l - c - 1) /\ ~(l - c < 1) /\ n + 1 \in 0..bufferedBytes /\ c + 1 + n <= l
      BY <1>2, <1>3, <2>2
    <2>4. body = part /\ body \in Seq(Cells) /\ Len(body) = n
      BY <1>3, <2>3, BodyThere
    <2>5. ChunkFault = IF header.encrypted /\ ~opens THEN ChunkAuth
                       ELSE IF plainTotal + Len(plain) > header.totalSize THEN RootMismatch
                       ELSE NoError
      <3>. HIDE DEF body, plain
      <3>. QED
        BY <1>2, <1>4, <2>1, <2>4 DEF ChunkFault, ExceedsTotal
    <2>6. ASSUME header.encrypted => opens
          PROVE  plainTotal + Len(part) - tag = plainTotal + Len(plain)
      <3>1. CASE header.encrypted
        <4>1. Len(body) >= TagLen
          BY <2>4, <2>6, <3>1 DEF Opens
        <4>2. plain = openChunk(body)
          BY <3>1 DEF plain
        <4>. HIDE DEF body, plain
        <4>3. Len(plain) = Len(body) - TagLen
          BY <2>4, <4>1, <4>2, OpenedChunk
        <4>. QED
          BY <1>2, <1>3, <2>4, <3>1, <4>1, <4>3 DEF TagLen
      <3>2. CASE ~header.encrypted
        <4>1. plain = body
          BY <3>2 DEF plain
        <4>. HIDE DEF body, plain
        <4>. QED
          BY <1>2, <1>3, <2>4, <3>2, <4>1
      <3>. QED
        BY <3>1, <3>2
    <2>. HIDE DEF l, c, n, cap, part, tag, opens, plain, body, TurnError, ChunkFault
    <2>. QED
      BY <1>5, <1>8, <2>3, <2>5, <2>6
  <1>. QED
    BY <1>7, <1>8

(* A chunk that is pushed is a turn of the loop.                           *)
LEMMA FollowsPushed ==
  ASSUME BufferInv, Follows, PushesChunk
  PROVE  Follows'
  <1>. DEFINE n == length
              c == consumed
  <1>1. ChunkDue /\ ChunkFault = NoError /\ TurnError = NoError
    BY ChunkErrorsAgree DEF PushesChunk
  <1>2. /\ consumed' = c + (n + 1) /\ readable' = readable \o plain
    BY PushBuffers
  <1>3. /\ root' = [root EXCEPT !.input = Append(@, Leaf(body))]
        /\ plainTotal' = plainTotal + Len(plain) /\ chunkIndex' = chunkIndex + 1
        /\ input' = input /\ offsetState' = offsetState /\ offsetState = "payload"
        /\ header' = header /\ region' = region /\ delivered' = delivered
        /\ chunkIndex # header.chunkCount
    BY <1>1 DEF PushesChunk, inputVars, openVars, ChunkDue, Processing
  <1>4. stream' = stream /\ limits' = limits
    BY <1>3 DEF stream, limits, limit
  <1>5. /\ HasLength /\ n \in Nat /\ n + 1 \in 0..bufferedBytes /\ body \in Seq(Cells) /\ Len(body) = n
        /\ body = SubSeq(stream, c + 2, c + 1 + n) /\ plain \in Seq(Cells) /\ Len(plain) \in Nat
    BY <1>1, ChunkFacts
  <1>6. n = U32(stream[c + 1])
    BY <1>5, LengthFacts DEF BufferInv
  <1>7. /\ stream \in Seq(Cells) /\ TurnShape(stream, Turned) /\ header = stream[1].h
        /\ chunkIndex \in Nat /\ chunkIndex <= header.chunkCount /\ header.chunkCount \in Nat
        /\ plainTotal \in Nat /\ stream[1] \in Cells /\ c \in Nat
    BY FollowsFacts
  <1>8. /\ Turned.err = NoError /\ Turned.offset = c /\ Turned.plain = Pushed
        /\ Len(Turned.plain) = plainTotal /\ region = RegionOf(stream)
        /\ PreambleError(stream, input.key, limits) = NoError /\ HeaderGood
        /\ MetaEnd(stream) \in 1..Len(stream)
        /\ root = [key   |-> IF header.encrypted THEN rootKey(input.key, header.baseNonce) ELSE NoKey,
                   input |-> <<stream[1]>> \o region \o Turned.leaves]
    BY DEF Follows
  <1>9. TakesChunk(stream, input.key, limits, chunkIndex, Turned)
    <2>1. ChunkError(stream, input.key, limits, chunkIndex, Turned.offset, Len(Turned.plain)) = NoError
      BY <1>1 DEF TurnError
    <2>. QED
      BY <1>7, <1>8, <2>1, GoodTurn, Zenon
  <1>10. /\ TurnBody(stream, c) = body /\ TurnOpened(stream, c) = plain
    <2>1. TurnBody(stream, c) = body
      BY <1>5, <1>6 DEF TurnBody
    <2>. QED
      BY <1>7, <2>1 DEF TurnOpened, plain
  <1>11. Turned' = Turn(stream, input.key, limits, Turned, chunkIndex)
    <2>1. Turned' = AfterTurns(stream, input.key, limits, chunkIndex + 1)
      BY <1>3, <1>4 DEF Turned
    <2>2. \A i \in Nat : AfterTurns(stream, input.key, limits, i + 1)
              = Turn(stream, input.key, limits, AfterTurns(stream, input.key, limits, i), i)
      BY AfterTurnsValues
    <2>. QED
      BY <1>7, <2>1, <2>2 DEF Turned
  <1>12. /\ Turned'.err = NoError /\ Turned'.offset = c + 1 + n
         /\ Turned'.plain = Turned.plain \o plain /\ Turned'.leaves = Append(Turned.leaves, Leaf(body))
    <2>. HIDE DEF body, plain, length, consumed, stream
    <2>. QED
      BY <1>6, <1>8, <1>9, <1>10, <1>11 DEF TakesChunk
  <1>. HIDE DEF Turned, n, c, body, plain
  <1>13. Turned'.plain = Pushed' /\ Len(Turned'.plain) = plainTotal'
    <2>1. delivered \in Seq(Cells) /\ readable \in Seq(Cells)
      BY DEF BufferInv, ReadableInv
    <2>. DEFINE p == plain
    <2>0. p \in Seq(Cells) /\ Len(p) \in Nat
      BY <1>5
    <2>. HIDE DEF p
    <2>2. (delivered \o readable) \o p = delivered \o (readable \o p)
      BY <2>0, <2>1, Regrouped
    <2>3. Pushed' = delivered \o (readable \o p)
      BY <1>2, <1>3 DEF Pushed, p
    <2>4. Turned.plain \in Seq(Cells)
      BY <1>7 DEF TurnShape
    <2>5. Len(Turned.plain \o p) = Len(Turned.plain) + Len(p)
      BY <2>0, <2>4, ConcatProperties
    <2>. QED
      BY <1>3, <1>8, <1>12, <2>2, <2>3, <2>5 DEF Pushed, p
  <1>14. root'.input = <<stream[1]>> \o region \o Turned'.leaves
    <2>. DEFINE a == <<stream[1]>> \o region
                Hashed0 == Cells \cup [t : {"leaf"}, body : Seq(Cells)]
    <2>1. Cells \subseteq Hashed0 /\ [t : {"leaf"}, body : Seq(Cells)] \subseteq Hashed0
      OBVIOUS
    <2>2. Turned.leaves \in Seq([t : {"leaf"}, body : Seq(Cells)])
      BY <1>7 DEF TurnShape
    <2>3. region \in Seq(Cells)
      <3>1. MetaEnd(stream) \in Nat /\ MetaEnd(stream) <= Len(stream) /\ 2 \in Nat /\ 2 >= 1
        BY <1>7, <1>8, LenProperties
      <3>. QED
        BY <1>7, <1>8, <3>1, PartOf DEF RegionOf
    <2>4. Leaf(body) \in Hashed0
      BY <1>5 DEF Leaf
    <2>. HIDE DEF Hashed0
    <2>5. Turned.leaves \in Seq(Hashed0)
      BY <2>1, <2>2, SeqMonotonic
    <2>6. region \in Seq(Hashed0) /\ <<stream[1]>> \in Seq(Hashed0)
      BY <1>7, <2>1, <2>3, SeqMonotonic
    <2>7. a \in Seq(Hashed0)
      BY <2>6, ConcatProperties
    <2>8. \A p \in Seq(Hashed0), q \in Seq(Hashed0), x \in Hashed0 :
             Append(p \o q, x) = p \o Append(q, x)
      <3>. SUFFICES ASSUME NEW p \in Seq(Hashed0), NEW q \in Seq(Hashed0), NEW x \in Hashed0
                    PROVE  Append(p \o q, x) = p \o Append(q, x)
        OBVIOUS
      <3>1. <<x>> \in Seq(Hashed0) /\ p \o q \in Seq(Hashed0)
        BY ConcatProperties
      <3>2. Append(p \o q, x) = (p \o q) \o <<x>> /\ Append(q, x) = q \o <<x>>
        BY <3>1, AppendIsConcat
      <3>. QED
        BY <3>1, <3>2, ConcatAssociative
    <2>9. Append(a \o Turned.leaves, Leaf(body)) = a \o Append(Turned.leaves, Leaf(body))
      BY <2>4, <2>5, <2>7, <2>8, Zenon
    <2>. HIDE DEF a
    <2>10. root.input = a \o Turned.leaves
      BY <1>8 DEF a
    <2>11. root'.input = Append(root.input, Leaf(body))
      BY <1>3, <1>8
    <2>12. root'.input = a \o Turned'.leaves
      BY <1>12, <2>9, <2>10, <2>11
    <2>. QED
      BY <2>12 DEF a
  <1>15. root' = [key   |-> IF header.encrypted THEN rootKey(input.key, header.baseNonce) ELSE NoKey,
                  input |-> <<stream[1]>> \o region \o Turned'.leaves]
    <2>1. root' = [key |-> root.key, input |-> root'.input] /\ root.key =
                    IF header.encrypted THEN rootKey(input.key, header.baseNonce) ELSE NoKey
      BY <1>3, <1>8
    <2>. QED
      BY <1>14, <2>1
  <1>16. chunkIndex' \in 0..header.chunkCount /\ offsetState' # "footer"
    BY <1>3, <1>7
  <1>17. HeaderGood' <=> HeaderGood
    BY <1>3, <1>4 DEF HeaderGood
  <1>18. Turned'.offset = consumed'
    BY <1>2, <1>5, <1>7, <1>12
  <1>. HIDE DEF stream, limits, Pushed, HeaderGood, consumed
  <1>. QED
    BY <1>3, <1>4, <1>8, <1>12, <1>13, <1>15, <1>16, <1>17, <1>18 DEF Follows

-----------------------------------------------------------------------------
(* The end.                                                                *)

LEMMA ChunkFaultAgrees ==
  ASSUME BufferInv, Follows, ChunkDue, ChunkFault # NoError
  PROVE  decoded.err = ChunkFault
  <1>1. /\ stream \in Seq(Cells) /\ Preamble = NoError /\ MetaEnd(stream) \in 0..Len(stream)
        /\ stream[1].h.chunkCount \in Nat /\ chunkIndex \in Nat /\ chunkIndex < stream[1].h.chunkCount
    BY FollowsFacts DEF ChunkDue
  <1>2. Turned.err = NoError
    BY DEF Follows
  <1>3. ChunkFault = ChunkError(stream, input.key, limits, chunkIndex, Turned.offset, Len(Turned.plain))
    BY ChunkErrorsAgree DEF TurnError
  <1>. HIDE DEF ChunkFault
  <1>. QED
    BY <1>1, <1>2, <1>3, LoopStops DEF Preamble, decoded, Turned

LEMMA EndFacts ==
  ASSUME BufferInv, Follows, chunkIndex = header.chunkCount
  PROVE  /\ decoded.plain = Pushed
         /\ decoded.err =
              LET left == Len(stream) - consumed
              IN  IF left < 2 THEN Truncated
                  ELSE IF stream[consumed + 2] # MagicEnd THEN Truncated
                  ELSE IF plainTotal # header.totalSize
                          \/ stream[consumed + 1] # RootCell(root.key, root.input) THEN RootMismatch
                  ELSE IF left # 2 THEN TrailingData
                  ELSE NoError
  <1>1. Preamble = NoError /\ header = stream[1].h
    BY FollowsFacts
  <1>2. /\ Turned.err = NoError /\ Turned.offset = consumed /\ Turned.plain = Pushed
        /\ Len(Turned.plain) = plainTotal /\ region = RegionOf(stream)
        /\ root = [key   |-> IF header.encrypted THEN rootKey(input.key, header.baseNonce) ELSE NoKey,
                   input |-> <<stream[1]>> \o region \o Turned.leaves]
    BY DEF Follows
  <1>3. decoded.err = EndError(stream, input.key, Turned) /\ decoded.plain = Turned.plain
    <2>1. chunkIndex = stream[1].h.chunkCount
      BY <1>1
    <2>2. Turned = AfterTurns(stream, input.key, limits, stream[1].h.chunkCount)
      BY <2>1 DEF Turned
    <2>3. PreambleError(stream, input.key, limits) = NoError
      BY <1>1 DEF Preamble
    <2>. HIDE DEF Turned
    <2>. QED
      BY <1>2, <2>2, <2>3, LoopEnds DEF decoded
  <1>. DEFINE cell == RootCell(IF stream[1].h.encrypted
                               THEN rootKey(input.key, stream[1].h.baseNonce) ELSE NoKey,
                               <<stream[1]>> \o RegionOf(stream) \o Turned.leaves)
  <1>4. cell = RootCell(root.key, root.input)
    BY <1>1, <1>2
  <1>5. EndError(stream, input.key, Turned)
          = IF Len(stream) - Turned.offset < 2 THEN Truncated
            ELSE IF stream[Turned.offset + 2] # MagicEnd THEN Truncated
            ELSE IF Len(Turned.plain) # stream[1].h.totalSize
                    \/ stream[Turned.offset + 1] # cell THEN RootMismatch
            ELSE IF Len(stream) - Turned.offset # 2 THEN TrailingData
            ELSE NoError
    BY DEF EndError
  <1>. HIDE DEF cell, stream, consumed, Turned
  <1>. QED
    BY <1>1, <1>2, <1>3, <1>4, <1>5

LEMMA FooterAgrees ==
  ASSUME BufferInv, Follows, chunkIndex = header.chunkCount, bufferedBytes >= 2
  PROVE  /\ FooterFault # NoError => decoded.err = FooterFault
         /\ FooterFault = NoError =>
              /\ decoded.plain = Pushed
              /\ decoded.err = IF consumed + 2 = Len(stream) THEN NoError ELSE TrailingData
  <1>. DEFINE l == Len(stream)
              c == consumed
              first == stream[c + 1]
              last == stream[c + 2]
              cell == RootCell(root.key, root.input)
  <1>1. /\ l \in Nat /\ c \in Nat /\ bufferedBytes \in Nat /\ c + bufferedBytes <= l
    BY FollowsFacts
  <1>2. peek(2)[1] = first /\ peek(2)[2] = last
    <2>1. 2 \in 0..bufferedBytes /\ stream \in Seq(Cells)
      BY <1>1, FollowsFacts
    <2>2. peek(2) = SubSeq(stream, c + 1, c + 2)
      BY <2>1, PeekFacts DEF BufferInv
    <2>3. \A i \in 1..(c + 2) - (c + 1) + 1 : SubSeq(stream, c + 1, c + 2)[i] = stream[(c + 1) + i - 1]
      <3>1. c + 1 \in Nat /\ c + 2 \in Nat /\ c + 1 >= 1 /\ c + 2 <= l
        BY <1>1
      <3>. QED
        BY <2>1, <3>1, PartOf
    <2>4. 1 \in 1..(c + 2) - (c + 1) + 1 /\ 2 \in 1..(c + 2) - (c + 1) + 1
          /\ (c + 1) + 1 - 1 = c + 1 /\ (c + 1) + 2 - 1 = c + 2
      BY <1>1
    <2>. HIDE DEF c, l
    <2>. QED
      BY <2>2, <2>3, <2>4
  <1>3. FooterFault = IF last # MagicEnd THEN Truncated
                      ELSE IF plainTotal # header.totalSize \/ first # cell THEN RootMismatch
                      ELSE IF bufferedBytes > 2 THEN TrailingData
                      ELSE NoError
    BY <1>2 DEF FooterFault
  <1>4. /\ decoded.plain = Pushed
        /\ decoded.err = IF l - c < 2 THEN Truncated
                         ELSE IF last # MagicEnd THEN Truncated
                         ELSE IF plainTotal # header.totalSize \/ first # cell THEN RootMismatch
                         ELSE IF l - c # 2 THEN TrailingData
                         ELSE NoError
    BY EndFacts
  <1>. HIDE DEF FooterFault, first, last, cell, l, c
  <1>5. ~(l - c < 2) /\ (bufferedBytes > 2 => l - c # 2) /\ (l - c = 2 <=> c + 2 = l)
    BY <1>1
  <1>6. FooterFault # NoError => decoded.err = FooterFault
    BY <1>3, <1>4, <1>5
  <1>7. FooterFault = NoError =>
          decoded.err = IF c + 2 = l THEN NoError ELSE TrailingData
    BY <1>3, <1>4, <1>5 DEF Truncated, RootMismatch, TrailingData, NoError
  <1>. QED
    BY <1>4, <1>6, <1>7 DEF l, c

(* The end of the input before the footer is the error of decodeBytes too. *)
LEMMA UnfinishedAgrees ==
  ASSUME BufferInv, StateInv, ~Ready, fed = Len(stream)
  PROVE  decoded.err = UnfinishedError
  <1>. DEFINE l == Len(stream)
              c == consumed
              bb == bufferedBytes
  <1>1. /\ l \in Nat /\ c \in Nat /\ bb \in Nat /\ c + bb = l /\ stream \in Seq(Cells)
    BY SlabFacts DEF BufferInv
  <1>2. CASE offsetState = "header"
    <2>1. c = 0 /\ ~(bb >= 1)
      BY <1>2 DEF StateInv, Ready, HasLength
    <2>2. l = 0
      BY <1>1, <2>1
    <2>3. stream = <<>>
      BY <1>1, <2>2, EmptySeq
    <2>4. Preamble = Truncated
      BY <2>3, PreambleFacts DEF BufferInv, SlabInv
    <2>. QED
      BY <1>2, <2>4, DecodedEarly DEF UnfinishedError, Truncated, NoError
  <1>3. CASE offsetState = "metadata"
    <2>1. c = 1 /\ HeaderGood /\ header.hasMetadata /\ ~RecordReady("maxMetaBytes")
      BY <1>3 DEF StateInv, Ready
    <2>2. ~parse_metadata(stream, limit("maxMetaBytes")).ok
      <3>1. CASE ~HasLength
        <4>1. l < 2
          BY <1>1, <2>1, <3>1 DEF HasLength
        <4>. QED
          BY <4>1 DEF parse_metadata, Malformed
      <3>2. CASE HasLength
        <4>1. ~(bb >= length + 1)
          BY <2>1, <3>2 DEF RecordReady, HasRecord
        <4>2. length \in Nat
          BY <3>2, LengthFacts DEF BufferInv
        <4>. HIDE DEF length, l, c
        <4>3. length + 1 > l - 1
          BY <1>1, <2>1, <4>1, <4>2
        <4>. QED
          BY <2>1, <3>2, <4>3, RegionAgrees DEF l, c
      <3>. QED
        BY <3>1, <3>2
    <2>3. Preamble = MetaMalformed
      BY <2>1, <2>2, PreambleFacts DEF BufferInv, SlabInv, HeaderGood
    <2>. QED
      BY <1>3, <2>3, DecodedEarly DEF UnfinishedError, MetaMalformed, NoError
  <1>4. CASE offsetState = "payload"
    <2>1. Follows /\ chunkIndex # header.chunkCount /\ ~RecordReady("maxChunkLen")
      BY <1>4 DEF StateInv, Ready
    <2>2. /\ Preamble = NoError /\ MetaEnd(stream) \in 0..Len(stream)
          /\ stream[1].h.chunkCount \in Nat /\ chunkIndex \in Nat
          /\ chunkIndex < stream[1].h.chunkCount
      BY <2>1, FollowsFacts
    <2>3. Turned.err = NoError /\ Turned.offset = c
      BY <2>1 DEF Follows
    <2>4. ChunkError(stream, input.key, limits, chunkIndex, c, Len(Turned.plain)) = Truncated
      <3>1. CASE ~HasLength
        <4>1. l - c < 1
          BY <1>1, <3>1 DEF HasLength
        <4>. QED
          BY <4>1 DEF ChunkError
      <3>2. CASE HasLength
        <4>1. ~(bb >= length + 1)
          BY <2>1, <3>2 DEF RecordReady, HasRecord
        <4>2. length \in Nat /\ length = U32(stream[c + 1])
          BY <3>2, LengthFacts DEF BufferInv
        <4>. DEFINE n == U32(stream[c + 1])
        <4>3. n \in Nat /\ ~(bb >= n + 1)
          BY <4>1, <4>2
        <4>. HIDE DEF n, l, c
        <4>4. n > l - c - 1
          BY <1>1, <4>3
        <4>. QED
          BY <4>4 DEF ChunkError, n, l, c
      <3>. QED
        BY <3>1, <3>2
    <2>5. Truncated # NoError
      BY DEF Truncated, NoError
    <2>6. decodeBytes(stream, input.key, limits).err = Truncated
      BY <1>1, <2>2, <2>3, <2>4, <2>5, LoopStops DEF Preamble, Turned
    <2>. QED
      BY <1>4, <2>6 DEF UnfinishedError, decoded
  <1>5. CASE offsetState = "footer"
    <2>1. Follows /\ chunkIndex = header.chunkCount /\ ~(bb >= 2)
      BY <1>5 DEF StateInv, Ready, Follows
    <2>2. l - c < 2
      BY <1>1, <2>1
    <2>3. decoded.err = Truncated
      BY <2>1, <2>2, EndFacts
    <2>. QED
      BY <1>5, <2>3 DEF UnfinishedError
  <1>6. CASE offsetState = "done"
    <2>1. bb = 0 /\ decoded.err = IF c = l THEN NoError ELSE TrailingData
      BY <1>6 DEF StateInv, BufferInv, RoomInv
    <2>2. c = l
      BY <1>1, <2>1
    <2>. QED
      BY <1>6, <2>1, <2>2 DEF UnfinishedError
  <1>. QED
    BY <1>2, <1>3, <1>4, <1>5, <1>6 DEF BufferInv, RoomInv

-----------------------------------------------------------------------------
(* FollowInv is inductive.                                                 *)

LEMMA FollowInit == Init => FollowInv
  <1>. SUFFICES ASSUME Init
                PROVE  StateInv /\ EndInv
    BY DEF FollowInv
  <1>1. /\ offsetState = "header" /\ fed = 0 /\ bufferedBytes = 0 /\ region = <<>>
        /\ chunkIndex = 0 /\ plainTotal = 0 /\ readable = <<>> /\ delivered = <<>>
        /\ running = "idle" /\ ended = FALSE /\ finished = FALSE
    BY DEF Init
  <1>2. consumed = 0 /\ NothingPushed
    BY <1>1 DEF consumed, NothingPushed
  <1>. HIDE DEF consumed, NothingPushed
  <1>. QED
    BY <1>1, <1>2 DEF StateInv, EndInv

(* A step that parses nothing, whatever it does to the readable side.      *)
LEMMA StateKept ==
  ASSUME StateInv, ReadableInv', input' = input, consumed' = consumed, UNCHANGED stateVars,
         Pushed' = Pushed
  PROVE  StateInv'
  <1>1. /\ stream' = stream /\ limits' = limits /\ decoded' = decoded
        /\ offsetState' = offsetState /\ header' = header /\ region' = region
        /\ chunkIndex' = chunkIndex /\ plainTotal' = plainTotal /\ root' = root
        /\ UNCHANGED openVars /\ UNCHANGED chunkVars
    BY DEF stream, limits, limit, decoded, stateVars, openVars, chunkVars
  <1>2. HeaderGood' <=> HeaderGood
    BY <1>1 DEF HeaderGood
  <1>3. NothingPushed => NothingPushed'
    <2>1. SUFFICES ASSUME NothingPushed
                   PROVE  readable' = <<>> /\ delivered' = <<>>
      BY <1>1 DEF NothingPushed
    <2>2. delivered' \o readable' = <<>>
      BY <2>1 DEF NothingPushed, Pushed
    <2>3. delivered' \in Seq(Cells) /\ readable' \in Seq(Cells)
      BY DEF ReadableInv
    <2>4. Len(delivered') + Len(readable') = 0 /\ Len(delivered') \in Nat /\ Len(readable') \in Nat
      BY <2>2, <2>3, ConcatProperties, LenProperties, EmptySeq
    <2>5. Len(delivered') = 0 /\ Len(readable') = 0
      BY <2>4
    <2>. QED
      BY <2>3, <2>5, EmptySeq
  <1>4. Follows => (offsetState \in {"payload", "footer"} => Follows')
    <2>. SUFFICES ASSUME Follows PROVE Follows'
      OBVIOUS
    <2>1. offsetState' = "footer" => chunkIndex = header.chunkCount
      BY <1>1 DEF Follows
    <2>. QED
      BY <1>1, <2>1, FollowsKept
  <1>. HIDE DEF decoded, stream, Pushed, HeaderGood, NothingPushed, consumed, Follows
  <1>. QED
    BY <1>1, <1>2, <1>3, <1>4 DEF StateInv

(* A call in progress: the end has not been pushed.                        *)
LEMMA EndKept ==
  ASSUME EndInv, UNCHANGED inputVars, running' = running, ended' = ended, finished' = finished,
         running # "idle"
  PROVE  EndInv'
  <1>1. /\ stream' = stream /\ fed' = fed /\ tail' = tail
    BY DEF stream, inputVars
  <1>. HIDE DEF stream
  <1>. QED
    BY <1>1 DEF EndInv

LEMMA InCall ==
  ASSUME BalanceInv, FollowInv, processing
  PROVE  error = NoError /\ running # "idle" /\ StateInv /\ EndInv /\ ~ended /\ ~finished
  BY DEF BalanceInv, CallTypes, FollowInv, EndInv

(* The turns of the loop.                                                  *)
LEMMA FollowHeader ==
  ASSUME BufferInv, FollowInv, ParsesHeader, error' = NoError
  PROVE  FollowInv'
  <1>1. /\ processing /\ Ready /\ HasLength /\ offsetState = "header"
    BY DEF ParsesHeader, Processing, Ready
  <1>2. StateInv /\ EndInv /\ running # "idle"
    BY <1>1, InCall DEF BufferInv
  <1>3. ~(HeaderFault # NoError /\ Throws(HeaderFault))
    BY <1>1, ThrowsBuffers
  <1>4. /\ HeaderFault = NoError /\ header' = slab[slabStart + 1].h /\ consume(1)
        /\ IF header'.hasMetadata THEN offsetState' = "metadata" /\ UNCHANGED root
           ELSE offsetState' = "payload" /\ root' = RootOf(header', <<>>)
        /\ UNCHANGED <<region, chunkVars, processVars>>
    BY <1>3 DEF ParsesHeader
  <1>5. /\ slab[slabStart + 1] = stream[1] /\ stream # <<>> /\ ParseHeader(stream[1]) = NoError
        /\ ~stream[1].h.hasMetadata => Preamble = NoError
    BY <1>1, <1>2, <1>4, HeaderFaultAgrees
  <1>6. header' = stream[1].h
    BY <1>4, <1>5
  <1>7. /\ input' = input /\ UNCHANGED inputVars /\ UNCHANGED callVars /\ UNCHANGED outVars
    BY <1>4 DEF processVars, inputVars
  <1>8. consumed = 0 /\ region = <<>> /\ NothingPushed
    BY <1>1, <1>2 DEF StateInv
  <1>9. consumed' = 1
    <2>1. 1 \in 0..bufferedBytes
      BY <1>1, SlabFacts DEF HasLength, BufferInv
    <2>2. consumed' = consumed + 1
      BY <1>4, <1>7, <2>1, ConsumeKeeps DEF BufferInv
    <2>. QED
      BY <1>8, <2>2
  <1>10. NothingPushed'
    BY <1>4, <1>7, <1>8 DEF NothingPushed, chunkVars, outVars
  <1>11. EndInv'
    BY <1>2, <1>7, EndKept DEF callVars, outVars
  <1>12. stream' = stream /\ stream \in Seq(Cells)
    BY <1>7, SlabFacts DEF stream, BufferInv
  <1>13. CASE header'.hasMetadata
    <2>1. HeaderGood' /\ offsetState' = "metadata"
      BY <1>4, <1>5, <1>6, <1>12, <1>13 DEF HeaderGood
    <2>2. StateInv'
      BY <1>9, <1>10, <1>13, <2>1 DEF StateInv
    <2>. QED
      BY <1>11, <2>2 DEF FollowInv
  <1>14. CASE ~header'.hasMetadata
    <2>1. MetaEnd(stream) = 1 /\ Preamble = NoError
      BY <1>5, <1>6, <1>14 DEF MetaEnd
    <2>2. Len(stream) \in Nat /\ Len(stream) >= 1
      BY <1>5, <1>12, HeaderFacts
    <2>3. RegionOf(stream) = <<>>
      <3>1. SubSeq(stream, 2, 1) \in Seq(Cells) /\ Len(SubSeq(stream, 2, 1)) = 0
        BY <1>12, <2>2, PartOf
      <3>. QED
        BY <2>1, <3>1, EmptySeq DEF RegionOf
    <2>4. /\ offsetState' = "payload" /\ root' = RootOf(header', region')
          /\ region' = RegionOf(stream) /\ consumed' = MetaEnd(stream)
          /\ MetaEnd(stream) \in 1..Len(stream)
      BY <1>4, <1>8, <1>9, <1>14, <2>1, <2>2, <2>3
    <2>5. Follows'
      BY <1>5, <1>6, <1>7, <1>10, <1>12, <2>1, <2>4, FollowsStarts
    <2>6. StateInv'
      BY <2>4, <2>5 DEF StateInv
    <2>. QED
      BY <1>11, <2>6 DEF FollowInv
  <1>. QED
    BY <1>13, <1>14

LEMMA FollowMetadata ==
  ASSUME BufferInv, FollowInv, ParsesMetadata, error' = NoError
  PROVE  FollowInv'
  <1>1. /\ processing /\ Ready /\ RecordReady("maxMetaBytes") /\ offsetState = "metadata"
    BY DEF ParsesMetadata, Processing, Ready
  <1>2. StateInv /\ EndInv /\ running # "idle"
    BY <1>1, InCall DEF BufferInv
  <1>3. ~(MetadataFault # NoError /\ Throws(MetadataFault))
    BY <1>1, ThrowsBuffers
  <1>4. /\ MetadataFault = NoError /\ region' = peek(length + 1) /\ consume(length + 1)
        /\ root' = RootOf(header, region') /\ offsetState' = "payload"
        /\ UNCHANGED <<header, chunkVars, processVars>>
    BY <1>3 DEF ParsesMetadata
  <1>5. /\ Preamble = NoError /\ length \in Nat /\ length + 1 \in 0..bufferedBytes
        /\ MetaEnd(stream) = 2 + length /\ MetaEnd(stream) \in 1..Len(stream)
        /\ peek(length + 1) = RegionOf(stream)
    BY <1>1, <1>2, <1>4, MetadataFaultAgrees
  <1>6. /\ input' = input /\ UNCHANGED inputVars /\ UNCHANGED callVars /\ UNCHANGED outVars
    BY <1>4 DEF processVars, inputVars
  <1>7. consumed = 1 /\ HeaderGood /\ NothingPushed
    BY <1>1, <1>2 DEF StateInv
  <1>8. consumed' = MetaEnd(stream)
    <2>1. consumed' = consumed + (length + 1)
      BY <1>4, <1>5, <1>6, ConsumeKeeps DEF BufferInv
    <2>. HIDE DEF length, stream
    <2>. QED
      BY <1>5, <1>7, <2>1
  <1>9. NothingPushed'
    BY <1>4, <1>6, <1>7 DEF NothingPushed, chunkVars, outVars
  <1>10. EndInv'
    BY <1>2, <1>6, EndKept DEF callVars, outVars
  <1>11. /\ stream \in Seq(Cells) /\ stream # <<>> /\ ParseHeader(stream[1]) = NoError
         /\ header' = stream[1].h
    BY <1>4, <1>7, SlabFacts DEF HeaderGood, BufferInv
  <1>12. root' = RootOf(header', region') /\ region' = RegionOf(stream)
    BY <1>4, <1>5
  <1>13. Follows'
    BY <1>4, <1>5, <1>6, <1>8, <1>9, <1>11, <1>12, FollowsStarts
  <1>14. StateInv'
    BY <1>4, <1>13 DEF StateInv
  <1>. QED
    BY <1>10, <1>14 DEF FollowInv

LEMMA FollowChunks ==
  ASSUME BufferInv, FollowInv, ReachesFooter \/ PushesChunk
  PROVE  FollowInv'
  <1>1. processing /\ offsetState = "payload"
    BY DEF ReachesFooter, PushesChunk, ChunkDue, Processing
  <1>2. EndInv /\ running # "idle" /\ Follows
    BY <1>1, InCall DEF BufferInv, StateInv
  <1>3. EndInv'
    BY <1>2, EndKept DEF ReachesFooter, PushesChunk, processVars, callVars, outVars
  <1>4. CASE ReachesFooter
    <2>1. /\ offsetState' = "footer" /\ chunkIndex = header.chunkCount /\ input' = input
          /\ UNCHANGED openVars /\ UNCHANGED chunkVars /\ root' = root
          /\ consumed' = consumed /\ Pushed' = Pushed
      BY <1>4 DEF ReachesFooter, processVars, inputVars, outVars, slabVars, consumed, Pushed
    <2>2. Follows'
      BY <1>2, <2>1, FollowsKept
    <2>. QED
      BY <1>3, <2>1, <2>2 DEF FollowInv, StateInv
  <1>5. CASE PushesChunk
    <2>1. Follows' /\ offsetState' = "payload"
      BY <1>1, <1>2, <1>5, FollowsPushed DEF PushesChunk
    <2>. QED
      BY <1>3, <2>1 DEF FollowInv, StateInv
  <1>. QED
    BY <1>4, <1>5

LEMMA FollowFooter ==
  ASSUME BufferInv, FollowInv, ChecksFooter, error' = NoError
  PROVE  FollowInv'
  <1>1. processing /\ offsetState = "footer" /\ bufferedBytes >= 2
    BY DEF ChecksFooter, Processing, Ready
  <1>2. EndInv /\ running # "idle" /\ Follows
    BY <1>1, InCall DEF BufferInv, StateInv
  <1>3. ~(FooterFault # NoError /\ Throws(FooterFault))
    BY <1>1, ThrowsBuffers
  <1>4. FooterFault = NoError /\ consume(2) /\ offsetState' = "done" /\ UNCHANGED processVars
    BY <1>3 DEF ChecksFooter
  <1>5. /\ input' = input /\ UNCHANGED inputVars /\ UNCHANGED callVars /\ UNCHANGED outVars
    BY <1>4 DEF processVars, inputVars
  <1>6. EndInv'
    BY <1>2, <1>5, EndKept DEF callVars, outVars
  <1>7. chunkIndex = header.chunkCount
    BY <1>1, <1>2 DEF Follows
  <1>8. /\ decoded.plain = Pushed
        /\ decoded.err = IF consumed + 2 = Len(stream) THEN NoError ELSE TrailingData
    BY <1>1, <1>2, <1>4, <1>7, FooterAgrees
  <1>9. consumed' = consumed + 2
    <2>1. 2 \in 0..bufferedBytes
      BY <1>1, SlabFacts DEF BufferInv
    <2>. QED
      BY <1>4, <1>5, <2>1, ConsumeKeeps DEF BufferInv
  <1>10. stream' = stream /\ decoded' = decoded /\ Pushed' = Pushed
    BY <1>5 DEF stream, limits, limit, decoded, Pushed, outVars
  <1>11. StateInv'
    <2>. HIDE DEF consumed, stream, decoded, Pushed
    <2>. QED
      BY <1>4, <1>8, <1>9, <1>10 DEF StateInv
  <1>. QED
    BY <1>6, <1>11 DEF FollowInv

(* The calls, and what returns from them.                                  *)
LEMMA FollowCalls ==
  ASSUME BufferInv, BufferInv', FollowInv, Calls \/ SourceFails \/ EmitsEnd, error' = NoError
  PROVE  FollowInv'
  <1>1. Open /\ error = NoError /\ running = "idle" /\ StateInv /\ EndInv
    BY DEF Calls, Transforms, Flushes, SourceFails, EmitsEnd, Open, FollowInv
  <1>2. ~SourceFails
    BY DEF SourceFails, NoError
  <1>3. ReadableInv'
    BY DEF BufferInv
  <1>4. ASSUME NEW n \in Pieces, Transforms(n)
        PROVE  FollowInv'
    <2>1. consumed' = consumed /\ input' = input /\ UNCHANGED stateVars /\ UNCHANGED outVars
      BY <1>4, TransformsBuffers DEF Transforms
    <2>2. Pushed' = Pushed /\ ended' = ended /\ finished' = finished
      BY <2>1 DEF Pushed, outVars
    <2>3. StateInv'
      BY <1>1, <1>3, <2>1, <2>2, StateKept
    <2>4. ~ended /\ running' # "flush"
      BY <1>1, <1>4 DEF Transforms, callVars
    <2>5. EndInv'
      BY <1>1, <2>2, <2>4 DEF EndInv
    <2>. QED
      BY <2>3, <2>5 DEF FollowInv
  <1>5. CASE Flushes
    <2>1. /\ UNCHANGED inputVars /\ UNCHANGED slabVars /\ UNCHANGED stateVars /\ UNCHANGED outVars
          /\ ~ended /\ fed = Len(stream) /\ tail = Ends /\ input' = input
      BY <1>5 DEF Flushes, inputVars
    <2>2. /\ Pushed' = Pushed /\ ended' = ended /\ finished' = finished /\ consumed' = consumed
          /\ fed' = fed /\ tail' = tail /\ stream' = stream
      BY <2>1 DEF Pushed, outVars, consumed, inputVars, slabVars, stream
    <2>3. StateInv'
      BY <1>1, <1>3, <2>1, <2>2, StateKept
    <2>. HIDE DEF stream
    <2>5. EndInv'
      BY <1>1, <2>1, <2>2 DEF EndInv
    <2>. QED
      BY <2>3, <2>5 DEF FollowInv
  <1>6. CASE EmitsEnd
    <2>1. /\ UNCHANGED inputVars /\ UNCHANGED slabVars /\ UNCHANGED stateVars /\ UNCHANGED callVars
          /\ readable' = readable /\ delivered' = delivered /\ ended' = ended /\ ended
          /\ readable = <<>> /\ finished' = TRUE /\ input' = input
      BY <1>6 DEF EmitsEnd, inputVars
    <2>2. /\ Pushed' = Pushed /\ consumed' = consumed /\ running' = running
          /\ fed' = fed /\ tail' = tail /\ stream' = stream /\ offsetState' = offsetState
      BY <2>1 DEF Pushed, consumed, inputVars, slabVars, stream, callVars, stateVars
    <2>3. StateInv'
      BY <1>1, <1>3, <2>1, <2>2, StateKept
    <2>. HIDE DEF stream
    <2>5. EndInv'
      BY <1>1, <2>1, <2>2 DEF EndInv
    <2>. QED
      BY <2>3, <2>5 DEF FollowInv
  <1>. QED
    BY <1>2, <1>4, <1>5, <1>6 DEF Calls

LEMMA FollowReads ==
  ASSUME BufferInv, BufferInv', FollowInv, Consumes
  PROVE  FollowInv'
  <1>1. PICK n \in 0..Len(readable) : ReadsBuffered(n) \/ CallsRead(n)
    BY DEF Consumes
  <1>2. error = NoError /\ running = "idle" /\ StateInv /\ EndInv /\ ReadableInv /\ ReadableInv'
    BY <1>1 DEF ReadsBuffered, CallsRead, Open, FollowInv, BufferInv
  <1>3. /\ consumed' = consumed /\ UNCHANGED inputVars /\ UNCHANGED stateVars
        /\ ended' = ended /\ finished' = finished /\ running' # "flush"
        /\ input' = input /\ fed' = fed /\ tail' = tail /\ stream' = stream /\ offsetState' = offsetState
    <2>1. consumed' = consumed
      BY <1>1, ReadsBuffers
    <2>. QED
      BY <1>1, <1>2, <2>1 DEF ReadsBuffered, CallsRead, inputVars, callVars, stream, stateVars
  <1>4. Pushed' = Pushed
    <2>1. CASE ReadsBuffered(n)
      BY <1>2, <2>1, TakesFacts DEF ReadsBuffered, Pushed
    <2>2. CASE CallsRead(n)
      BY <2>2 DEF CallsRead, Pushed
    <2>. QED
      BY <1>1, <2>1, <2>2
  <1>5. StateInv'
    BY <1>2, <1>3, <1>4, StateKept
  <1>6. ended => running' = running /\ (readable = <<>> => readable' = <<>>)
    <2>. SUFFICES ASSUME ended
                  PROVE  running' = running /\ (readable = <<>> => readable' = <<>>)
      OBVIOUS
    <2>1. ReadsBuffered(n)
      BY <1>1 DEF CallsRead, ReadDue
    <2>2. running' = running /\ n > 0
      BY <2>1 DEF ReadsBuffered, callVars
    <2>3. readable # <<>>
      BY <2>2, EmptySeq
    <2>. QED
      BY <2>2, <2>3
  <1>. HIDE DEF stream
  <1>7. EndInv'
    BY <1>2, <1>3, <1>6 DEF EndInv
  <1>. QED
    BY <1>5, <1>7 DEF FollowInv

LEMMA FollowReturns ==
  ASSUME BufferInv, BufferInv', FollowInv, Returns, error' = NoError
  PROVE  FollowInv'
  <1>1. /\ running # "idle" /\ ~processing /\ running' = "idle"
        /\ UNCHANGED inputVars /\ UNCHANGED slabVars /\ UNCHANGED stateVars /\ finished' = finished
    BY DEF Returns, TransformReturns, FlushReturns, ReadReturns, Returning
  <1>2. /\ error = NoError /\ StateInv /\ EndInv /\ ReadableInv /\ ReadableInv' /\ ~ended /\ ~finished
        /\ HeldInv /\ CallInv
    BY <1>1 DEF BufferInv, BalanceInv, FollowInv, EndInv
  <1>3. /\ consumed' = consumed /\ input' = input /\ fed' = fed /\ tail' = tail /\ stream' = stream
        /\ offsetState' = offsetState
    BY <1>1 DEF inputVars, slabVars, stream, consumed, stateVars
  <1>4. Pushed' = Pushed
    <2>1. CASE ReadReturns
      <3>1. taking \in 0..Len(readable) /\ Takes(taking)
        BY <1>2, <2>1 DEF ReadReturns, ReadableInv
      <3>. QED
        BY <1>2, <3>1, TakesFacts DEF Pushed
    <2>2. CASE TransformReturns \/ FlushReturns
      BY <2>2 DEF TransformReturns, FlushReturns, Pushed
    <2>. QED
      BY <2>1, <2>2 DEF Returns
  <1>5. StateInv'
    BY <1>1, <1>2, <1>3, <1>4, StateKept
  <1>6. CASE FlushReturns
    <2>1. running = "flush" /\ ~outputBackpressured
      BY <1>2, <1>6 DEF FlushReturns, Returning, CallInv
    <2>2. FlushAnswered /\ fed = Len(stream) /\ tail = Ends
      BY <1>2, <1>6, <2>1 DEF FlushReturns, Blocked, EndInv
    <2>3. UnfinishedError = NoError /\ ended' = TRUE
      BY <2>2 DEF FlushAnswered, Fails
    <2>4. offsetState = "done"
      BY <2>3 DEF UnfinishedError, MetaMalformed, Truncated, NoError
    <2>. HIDE DEF stream
    <2>5. EndInv'
      BY <1>1, <1>2, <1>3, <2>2, <2>3, <2>4 DEF EndInv
    <2>. QED
      BY <1>5, <2>5 DEF FollowInv
  <1>7. CASE TransformReturns \/ ReadReturns
    <2>1. ended' = ended
      BY <1>2, <1>7 DEF TransformReturns, ReadReturns, Returning, Blocked, Defers, ReleasesCallback, HeldInv
    <2>2. EndInv'
      BY <1>1, <1>2, <2>1 DEF EndInv
    <2>. QED
      BY <1>5, <2>2 DEF FollowInv
  <1>. QED
    BY <1>6, <1>7 DEF Returns

LEMMA FollowStep == BufferInv /\ BufferInv' /\ FollowInv /\ [Next]_vars => FollowInv'
  <1>. SUFFICES ASSUME BufferInv, BufferInv', FollowInv, [Next]_vars, error' = NoError
                PROVE  FollowInv'
    BY DEF FollowInv
  <1>1. CASE UNCHANGED vars
    <2>1. /\ UNCHANGED inputVars /\ UNCHANGED slabVars /\ UNCHANGED stateVars /\ UNCHANGED outVars
          /\ UNCHANGED endVars /\ UNCHANGED callVars
      BY <1>1 DEF vars, stateVars
    <2>2. /\ Pushed' = Pushed /\ ended' = ended /\ finished' = finished /\ consumed' = consumed
          /\ fed' = fed /\ tail' = tail /\ stream' = stream /\ readable' = readable
          /\ input' = input /\ offsetState' = offsetState /\ running' = running
          /\ StateInv /\ EndInv /\ ReadableInv'
      BY <2>1 DEF Pushed, outVars, consumed, inputVars, slabVars, stream, stateVars, callVars, endVars,
                  FollowInv, BufferInv
    <2>3. StateInv'
      BY <2>1, <2>2, StateKept
    <2>. HIDE DEF stream
    <2>4. EndInv'
      BY <2>2 DEF EndInv
    <2>. QED
      BY <2>3, <2>4 DEF FollowInv
  <1>2. CASE Pauses
    <2>1. /\ UNCHANGED inputVars /\ UNCHANGED slabVars /\ UNCHANGED stateVars /\ UNCHANGED outVars
          /\ running' = running /\ processing /\ input' = input
      BY <1>2 DEF Pauses, stateVars, inputVars
    <2>2. /\ Pushed' = Pushed /\ ended' = ended /\ finished' = finished /\ consumed' = consumed
          /\ StateInv /\ EndInv /\ running # "idle" /\ ReadableInv'
      BY <2>1, InCall DEF Pushed, outVars, consumed, inputVars, slabVars, BufferInv
    <2>3. StateInv'
      BY <2>1, <2>2, StateKept
    <2>4. EndInv'
      BY <2>1, <2>2, EndKept
    <2>. QED
      BY <2>3, <2>4 DEF FollowInv
  <1>3. ~ChunkThrows
    BY ThrowsBuffers DEF ChunkThrows, ChunkDue, Processing
  <1>. QED
    BY <1>1, <1>2, <1>3, FollowHeader, FollowMetadata, FollowChunks, FollowFooter, FollowCalls,
       FollowReads, FollowReturns
    DEF Next, process

-----------------------------------------------------------------------------
(* Every step is a step of UbcReader or changes nothing that it sees.      *)

(* What the exceptions of process() are.                                   *)
LEMMA FaultsAreErrors ==
  "open" \notin {HeaderFault, MetadataFault, ChunkFault, FooterFault, UnfinishedError}
  <1>1. HeaderFault # "open"
    <2>1. \A cell : ParseHeader(cell) # "open"
      BY DEF ParseHeader, validate, NoError, BadMagic, UnsupportedVer, UnsupportedAlgo, ReservedBits, Truncated
    <2>2. \A h : InitFault(h) # "open"
      BY DEF InitFault, NoError, MissingKey, Truncated
    <2>. QED
      BY <2>1, <2>2 DEF HeaderFault, NoError
  <1>2. MetadataFault # "open"
    BY DEF MetadataFault, InitFault, NoError, MissingKey, Truncated, MetaMalformed
  <1>3. ChunkFault # "open"
    BY DEF ChunkFault, NoError, Truncated, ChunkAuth, RootMismatch
  <1>4. FooterFault # "open"
    BY DEF FooterFault, NoError, Truncated, TrailingData, RootMismatch
  <1>5. UnfinishedError # "open"
    BY DEF UnfinishedError, NoError, Truncated, MetaMalformed
  <1>. QED
    BY <1>1, <1>2, <1>3, <1>4, <1>5

(* A turn of the loop shows only when it throws, and then it throws the    *)
(* error of decodeBytes.                                                   *)
LEMMA ThrowsAgree ==
  ASSUME BufferInv, FollowInv, process
  PROVE  /\ UNCHANGED <<input, tail, delivered, finished>> /\ error = NoError /\ ~finished
         /\ error' = NoError \/ (error' = decoded.err /\ error' # "open")
  <1>1. processing /\ error = NoError /\ ~finished /\ StateInv
    <2>1. processing
      BY DEF process, ParsesHeader, ParsesMetadata, ReachesFooter, ChunkThrows, PushesChunk,
             ChecksFooter, Pauses, ChunkDue, Processing
    <2>. QED
      BY <2>1, InCall DEF BufferInv
  <1>2. UNCHANGED <<input, tail, delivered, finished>>
    BY DEF process, ParsesHeader, ParsesMetadata, ReachesFooter, ChunkThrows, PushesChunk,
           ChecksFooter, Pauses, Throws, processVars, inputVars, outVars
  <1>3. ASSUME NEW err, err # NoError, Throws(err), err # "open", decoded.err = err
        PROVE  error' = decoded.err /\ error' # "open"
    BY <1>1, <1>3, ThrowsBuffers
  <1>4. CASE ParsesHeader /\ HeaderFault # NoError /\ Throws(HeaderFault)
    <2>1. offsetState = "header" /\ HasLength
      BY <1>4 DEF ParsesHeader, Processing, Ready
    <2>2. decoded.err = HeaderFault
      BY <1>1, <1>4, <2>1, HeaderFaultAgrees
    <2>. QED
      BY <1>1, <1>2, <1>3, <1>4, <2>2, FaultsAreErrors
  <1>5. CASE ParsesMetadata /\ MetadataFault # NoError /\ Throws(MetadataFault)
    <2>1. offsetState = "metadata" /\ RecordReady("maxMetaBytes")
      BY <1>5 DEF ParsesMetadata, Processing, Ready
    <2>2. decoded.err = MetadataFault
      BY <1>1, <1>5, <2>1, MetadataFaultAgrees
    <2>. QED
      BY <1>1, <1>2, <1>3, <1>5, <2>2, FaultsAreErrors
  <1>6. CASE ChunkThrows
    <2>1. ChunkDue /\ ChunkFault # NoError /\ Throws(ChunkFault) /\ offsetState = "payload"
      BY <1>6 DEF ChunkThrows, ChunkDue, Processing
    <2>2. Follows
      BY <1>1, <2>1 DEF StateInv
    <2>3. decoded.err = ChunkFault
      BY <2>1, <2>2, ChunkFaultAgrees
    <2>. QED
      BY <1>1, <1>2, <1>3, <2>1, <2>3, FaultsAreErrors
  <1>7. CASE ChecksFooter /\ FooterFault # NoError /\ Throws(FooterFault)
    <2>1. offsetState = "footer" /\ bufferedBytes >= 2
      BY <1>7 DEF ChecksFooter, Processing, Ready
    <2>2. Follows /\ chunkIndex = header.chunkCount
      BY <1>1, <2>1 DEF StateInv, Follows
    <2>3. decoded.err = FooterFault
      BY <1>7, <2>1, <2>2, FooterAgrees
    <2>. QED
      BY <1>1, <1>2, <1>3, <1>7, <2>3, FaultsAreErrors
  <1>8. ASSUME error' = error
        PROVE  error' = NoError
    BY <1>1, <1>8
  <1>9. \/ ParsesHeader /\ HeaderFault # NoError /\ Throws(HeaderFault)
        \/ ParsesMetadata /\ MetadataFault # NoError /\ Throws(MetadataFault)
        \/ ChunkThrows
        \/ ChecksFooter /\ FooterFault # NoError /\ Throws(FooterFault)
        \/ error' = error
    BY DEF process, ParsesHeader, ParsesMetadata, ReachesFooter, PushesChunk, ChecksFooter, Pauses,
           processVars, endVars
  <1>. QED
    BY <1>1, <1>2, <1>4, <1>5, <1>6, <1>7, <1>8, <1>9, Zenon

(* What the consumer takes is the next part of what decodeBytes accepts.   *)
LEMMA TakesPlaintext ==
  ASSUME BufferInv, StateInv, NEW n \in 0..Len(readable), Takes(n)
  PROVE  \/ delivered' = delivered
         \/ \E m \in Len(delivered) + 1..Len(decoded.plain) : delivered' = SubSeq(decoded.plain, 1, m)
  <1>1. /\ readable \in Seq(Cells) /\ delivered \in Seq(Cells) /\ Len(delivered) \in Nat
        /\ readable' \in Seq(Cells) /\ delivered' \in Seq(Cells) /\ delivered' \o readable' = Pushed
        /\ Len(readable') = Len(readable) - n /\ Len(readable) \in Nat /\ Len(readable') \in Nat
        /\ Len(delivered') \in Nat
    BY TakesFacts, LenProperties DEF BufferInv, ReadableInv, Pushed
  <1>2. Len(delivered') = Len(delivered) + n
    <2>1. /\ Len(delivered' \o readable') = Len(delivered') + Len(readable')
          /\ Len(delivered \o readable) = Len(delivered) + Len(readable)
      BY <1>1, ConcatProperties
    <2>. QED
      BY <1>1, <2>1 DEF Pushed
  <1>3. CASE n = 0
    <2>1. SubSeq(readable, 1, 0) \in Seq(Cells) /\ Len(SubSeq(readable, 1, 0)) = 0
      BY <1>1, PartOf
    <2>2. SubSeq(readable, 1, 0) = <<>>
      BY <2>1, EmptySeq
    <2>3. delivered' = delivered \o <<>>
      BY <1>3, <2>2 DEF Takes
    <2>. QED
      BY <1>1, <2>3, ConcatEmptySeq
  <1>4. CASE n > 0
    <2>1. Begins(Pushed, decoded.plain, Cells) /\ decoded.plain \in Seq(Cells)
      <3>1. CASE offsetState \in {"payload", "footer"}
        BY <3>1, FollowsFacts DEF StateInv
      <3>2. CASE offsetState = "done"
        <4>1. decoded.plain = Pushed /\ Pushed \in Seq(Cells)
          BY <1>1, <3>2, ConcatProperties DEF StateInv, Pushed
        <4>. QED
          BY <4>1, BeginsItself
      <3>3. CASE offsetState \in {"header", "metadata"}
        <4>1. readable = <<>>
          BY <3>3 DEF StateInv, NothingPushed
        <4>. QED
          BY <1>4, <4>1, EmptySeq
      <3>. QED
        BY <3>1, <3>2, <3>3 DEF BufferInv, RoomInv
    <2>. DEFINE all == decoded.plain
                now == delivered'
                rest == readable'
    <2>2. Begins(now \o rest, all, Cells) /\ all \in Seq(Cells) /\ now \in Seq(Cells)
          /\ rest \in Seq(Cells)
      BY <1>1, <2>1
    <2>. HIDE DEF all, now, rest
    <2>3. Begins(now, all, Cells)
      BY <2>2, BeginsShorter
    <2>4. Len(now) <= Len(all) /\ Len(now) \in Nat /\ Len(all) \in Nat /\ now = SubSeq(all, 1, Len(now))
      BY <2>2, <2>3, BeginsIsPart
    <2>5. Len(now) = Len(delivered) + n
      BY <1>2 DEF now
    <2>6. Len(now) \in Len(delivered) + 1..Len(all)
      BY <1>1, <1>4, <2>4, <2>5
    <2>7. \E m \in Len(delivered) + 1..Len(all) : now = SubSeq(all, 1, m)
      BY <2>4, <2>6
    <2>. QED
      BY <2>7 DEF now, all
  <1>. QED
    BY <1>3, <1>4

LEMMA ReaderStarts == Init => Reader!ReaderInit
  BY DEF Init, Reader!ReaderInit, verifyStream

LEMMA ReaderSteps ==
  BufferInv /\ FollowInv /\ [Next]_vars => [Reader!ReaderNext]_(Reader!readerVars)
  <1>. SUFFICES ASSUME BufferInv, FollowInv, [Next]_vars
                PROVE  Reader!ReaderNext \/ UNCHANGED Reader!readerVars
    OBVIOUS
  <1>. DEFINE whole == <<stream, input.key, limits>>
              intact == tail # Errs
  <1>1. Decoded(whole) = decoded
    BY DEF Decoded, decoded
  <1>2. UNCHANGED <<input, tail>>
    BY DEF Next, Calls, Transforms, Flushes, SourceFails, Consumes, ReadsBuffered, CallsRead, EmitsEnd,
           process, ParsesHeader, ParsesMetadata, ReachesFooter, ChunkThrows, PushesChunk, ChecksFooter,
           Pauses, Throws, processVars, Returns, TransformReturns, FlushReturns, ReadReturns,
           inputVars, vars
  <1>3. UNCHANGED <<whole, intact>>
    BY <1>2 DEF stream, limits, limit
  <1>4. ASSUME UNCHANGED <<delivered, error, finished>>
        PROVE  UNCHANGED Reader!readerVars
    BY <1>3, <1>4 DEF Reader!readerVars, Reader!inputVars, verifyStream
  <1>5. ASSUME error = NoError, ~finished, UNCHANGED delivered, error' # NoError, error' # "open",
               tail = Errs \/ error' = decoded.err
        PROVE  Reader!ReaderNext
    <2>1. verifyStream = "open" /\ verifyStream' = error'
      BY <1>5 DEF verifyStream
    <2>. HIDE DEF verifyStream, whole
    <2>2. CASE tail = Errs
      BY <1>3, <1>5, <2>1, <2>2 DEF Reader!ReaderNext, Reader!SourceFails, Reader!inputVars, whole
    <2>3. CASE tail # Errs
      BY <1>1, <1>3, <1>5, <2>1, <2>3 DEF Reader!ReaderNext, Reader!Finish, Reader!inputVars, whole
    <2>. QED
      BY <2>2, <2>3
  <1>6. ASSUME NEW n \in 0..Len(readable), Takes(n), StateInv, error = NoError, EndInv,
               UNCHANGED <<error, finished>>
        PROVE  Reader!ReaderNext \/ UNCHANGED Reader!readerVars
    <2>1. CASE delivered' = delivered
      BY <1>4, <1>6, <2>1
    <2>2. CASE delivered' # delivered
      <3>1. PICK m \in Len(delivered) + 1..Len(decoded.plain) :
                    delivered' = SubSeq(decoded.plain, 1, m)
        BY <1>6, <2>2, TakesPlaintext
      <3>2. ~finished
        <4>. SUFFICES ASSUME finished
                      PROVE  FALSE
          OBVIOUS
        <4>1. readable = <<>>
          BY <1>6 DEF EndInv
        <4>2. delivered' \o readable' = delivered \o readable /\ delivered' \in Seq(Cells)
              /\ delivered \in Seq(Cells) /\ readable' \in Seq(Cells) /\ Len(readable') = Len(readable) - n
          BY <1>6, TakesFacts DEF BufferInv, ReadableInv
        <4>3. Len(readable) = 0 /\ n = 0
          BY <1>6, <4>1, EmptySeq
        <4>4. readable' = <<>>
          BY <4>2, <4>3, EmptySeq
        <4>. QED
          BY <2>2, <4>1, <4>2, <4>4, ConcatEmptySeq
      <3>3. verifyStream = "open" /\ verifyStream' = "open"
        BY <1>6, <3>2 DEF verifyStream
      <3>. HIDE DEF verifyStream
      <3>4. Reader!Release
        BY <1>1, <1>3, <3>1, <3>3 DEF Reader!Release, Reader!inputVars
      <3>. QED
        BY <3>4 DEF Reader!ReaderNext
    <2>. QED
      BY <2>1, <2>2
  <1>7. CASE process
    <2>1. /\ UNCHANGED <<delivered, finished>> /\ error = NoError /\ ~finished
          /\ error' = NoError \/ (error' = decoded.err /\ error' # "open")
      BY <1>7, ThrowsAgree
    <2>. QED
      BY <1>4, <1>5, <2>1
  <1>8. ASSUME NEW n \in Pieces, Transforms(n)
        PROVE  Reader!ReaderNext \/ UNCHANGED Reader!readerVars
    <2>1. /\ error = NoError /\ StateInv /\ EndInv /\ UNCHANGED <<delivered, finished>> /\ ~ended
          /\ ~finished /\ fed < Len(stream)
      BY <1>8 DEF Transforms, Open, outVars, FollowInv, EndInv
    <2>2. CASE offsetState # "done"
      BY <1>4, <1>8, <2>1, <2>2 DEF Transforms, endVars
    <2>3. CASE offsetState = "done"
      <3>1. error' = TrailingData
        BY <1>8, <2>3 DEF Transforms
      <3>2. bufferedBytes = 0 /\ decoded.err = IF consumed = Len(stream) THEN NoError ELSE TrailingData
        BY <2>1, <2>3 DEF StateInv, BufferInv, RoomInv
      <3>3. consumed # Len(stream)
        <4>1. consumed = fed /\ fed \in Nat /\ Len(stream) \in Nat
          BY <3>2, SlabFacts DEF BufferInv, consumed
        <4>. QED
          BY <2>1, <4>1
      <3>4. error' # NoError /\ error' # "open" /\ error' = decoded.err
        BY <3>1, <3>2, <3>3 DEF TrailingData, NoError
      <3>. QED
        BY <1>5, <2>1, <3>4
    <2>. QED
      BY <2>2, <2>3
  <1>9. CASE Flushes
    BY <1>4, <1>9 DEF Flushes, outVars, endVars
  <1>10. CASE SourceFails
    <2>1. /\ error = NoError /\ ~finished /\ UNCHANGED delivered /\ error' = "source error"
          /\ tail = Errs
      BY <1>10 DEF SourceFails, Open, outVars, FollowInv, EndInv
    <2>. QED
      BY <1>5, <2>1 DEF NoError
  <1>11. CASE Consumes
    <2>1. PICK n \in 0..Len(readable) : ReadsBuffered(n) \/ CallsRead(n)
      BY <1>11 DEF Consumes
    <2>2. CASE ReadsBuffered(n)
      <3>1. Takes(n) /\ error = NoError /\ StateInv /\ EndInv /\ UNCHANGED <<error, finished>>
        BY <2>2 DEF ReadsBuffered, Open, endVars, FollowInv
      <3>. QED
        BY <1>6, <3>1
    <2>3. CASE CallsRead(n)
      BY <1>4, <2>3 DEF CallsRead, endVars
    <2>. QED
      BY <2>1, <2>2, <2>3
  <1>12. CASE EmitsEnd
    <2>1. /\ error = NoError /\ StateInv /\ EndInv /\ ended /\ readable = <<>> /\ ~finished
          /\ finished' = TRUE /\ UNCHANGED <<delivered, error>>
      BY <1>12 DEF EmitsEnd, Open, endVars, FollowInv
    <2>2. offsetState = "done" /\ fed = Len(stream) /\ tail = Ends
      BY <2>1 DEF EndInv
    <2>3. /\ bufferedBytes = 0 /\ decoded.plain = Pushed
          /\ decoded.err = IF consumed = Len(stream) THEN NoError ELSE TrailingData
      BY <2>1, <2>2 DEF StateInv, BufferInv, RoomInv
    <2>4. consumed = Len(stream)
      BY <2>2, <2>3, SlabFacts DEF BufferInv, consumed
    <2>5. decoded.err = NoError /\ decoded.plain = delivered
      BY <2>1, <2>3, <2>4, ConcatEmptySeq DEF Pushed, BufferInv, ReadableInv
    <2>6. verifyStream = "open" /\ verifyStream' = NoError /\ intact
      BY <2>1, <2>2 DEF verifyStream, Ends, Errs
    <2>. HIDE DEF verifyStream, intact, whole
    <2>7. Reader!Finish
      BY <1>1, <1>3, <2>1, <2>5, <2>6 DEF Reader!Finish, Reader!inputVars, intact, whole, NoError
    <2>. QED
      BY <2>7 DEF Reader!ReaderNext
  <1>13. CASE TransformReturns
    <2>1. deferred = "none"
      BY <1>13 DEF TransformReturns, Returning, BufferInv, BalanceInv, CallInv
    <2>. QED
      BY <1>4, <1>13, <2>1 DEF TransformReturns, Defers, Blocked, endVars
  <1>14. CASE FlushReturns
    <2>1. /\ running = "flush" /\ ~outputBackpressured /\ ~Ready /\ error = NoError
          /\ StateInv /\ EndInv /\ UNCHANGED <<delivered, finished>>
      BY <1>14 DEF FlushReturns, Returning, BufferInv, BalanceInv, CallInv, FollowInv
    <2>2. FlushAnswered /\ fed = Len(stream) /\ ~finished
      BY <1>14, <2>1 DEF FlushReturns, Blocked, EndInv
    <2>3. decoded.err = UnfinishedError
      BY <2>1, <2>2, UnfinishedAgrees
    <2>4. error' = error \/ (error' = UnfinishedError /\ UnfinishedError # NoError)
      BY <2>2 DEF FlushAnswered, Fails, endVars
    <2>. QED
      BY <1>4, <1>5, <2>1, <2>2, <2>3, <2>4, FaultsAreErrors
  <1>15. CASE ReadReturns
    <2>1. /\ Takes(taking) /\ taking \in 0..Len(readable) /\ error = NoError /\ StateInv /\ EndInv
          /\ deferred # "flush" /\ UNCHANGED finished
      BY <1>15 DEF ReadReturns, Returning, BufferInv, BalanceInv, HeldInv, FollowInv, ReadableInv
    <2>2. error' = error
      BY <1>15, <2>1 DEF ReadReturns, ReleasesCallback, endVars
    <2>. QED
      BY <1>6, <2>1, <2>2
  <1>16. CASE UNCHANGED vars
    BY <1>4, <1>16 DEF vars, outVars, endVars
  <1>. QED
    BY <1>7, <1>8, <1>9, <1>10, <1>11, <1>12, <1>13, <1>14, <1>15, <1>16 DEF Next, Calls, Returns

(* The Decoder keeps the promise of UbcReader in full: however its input   *)
(* is cut into pieces, whenever it pauses and whenever the consumer reads, *)
(* what the consumer has is a beginning of what decodeBytes accepts, and   *)
(* the stream ends with decodeBytes' error or, after all of the plaintext, *)
(* with a clean end.                                                       *)
THEOREM Refines == Spec => ImplementsReader
  <1>1. BufferInv /\ FollowInv /\ [Next]_vars => [Reader!ReaderNext]_(Reader!readerVars)
    BY ReaderSteps
  <1>. QED
    BY <1>1, InitBuffers, StepBuffers, FollowInit, FollowStep, ReaderStarts, PTL
    DEF Spec, ImplementsReader, Reader!ReaderSpec

-----------------------------------------------------------------------------
(* inspectStream: the prefix it has taken and what the source still gives  *)
(* make up the whole, wherever the pieces are cut.                         *)

(* Where the read in progress began.                                       *)
ReadFrom == IF step = "header" THEN 0 ELSE IF step = "prefix" THEN 1 ELSE 2

Reached == ReadFrom + Len(chunks)

InspectTypes ==
  /\ given \in Seq(Cells) /\ givenTail \in {RunsOut, Rejects}
  /\ source \in Seq(Cells) /\ remainder \in Seq(Cells) /\ chunks \in Seq(Cells)
  /\ asked \in Nat
  /\ step \in {"header", "prefix", "body", "restore", "returned"}

(* What has been taken, and what is left.                                  *)
TakenInv ==
  Reading =>
    /\ Reached <= Len(given) /\ Len(chunks) <= asked
    /\ chunks = SubSeq(given, ReadFrom + 1, Reached)
    /\ remainder \o source = SubSeq(given, Reached + 1, Len(given))

(* What the reads before this one have shown.                              *)
SeenInv ==
  Reading =>
    /\ metadata = <<>>
    /\ step \in {"header", "prefix"} => asked = 1
    /\ step # "header" => /\ given # <<>> /\ ParseHeader(given[1]) = NoError
                          /\ seen = given[1].h /\ seen.hasMetadata
    /\ step = "body" => /\ Len(given) >= 2 /\ prefix = <<given[2]>>
                        /\ asked = U32(given[2]) /\ asked <= MaxMetaBytes

SettledInv ==
  /\ step \in {"restore", "returned"} => Answers /\ GoesOnWith(remainder \o source)
  /\ step = "returned" => remainder = <<>>

InspectInv == InspectTypes /\ TakenInv /\ SeenInv /\ SettledInv

LEMMA InspectStarts == InspectInit => InspectInv
  <1>. SUFFICES ASSUME InspectInit PROVE InspectInv
    OBVIOUS
  <1>1. PICK content \in Inspected, end \in {RunsOut, Rejects} : InspectBegins(content, end)
    BY DEF InspectInit
  <1>2. /\ given = content /\ content \in Seq(Cells) /\ givenTail = end /\ source = given
        /\ remainder = <<>> /\ asked = 1 /\ chunks = <<>> /\ step = "header" /\ metadata = <<>>
    BY <1>1, InspectAssumption DEF InspectBegins
  <1>3. <<>> \in Seq(Cells) /\ Len(<<>>) = 0 /\ Len(given) \in Nat
    BY <1>2
  <1>4. ReadFrom = 0 /\ Reached = 0
    BY <1>2, <1>3 DEF ReadFrom, Reached
  <1>5. SubSeq(given, 1, 0) = <<>> /\ SubSeq(given, 1, Len(given)) = given /\ <<>> \o given = given
    BY <1>2
  <1>6. InspectTypes
    BY <1>2, <1>3 DEF InspectTypes
  <1>7. TakenInv
    BY <1>2, <1>3, <1>4, <1>5 DEF TakenInv
  <1>8. SeenInv /\ SettledInv
    BY <1>2 DEF SeenInv, SettledInv
  <1>. QED
    BY <1>6, <1>7, <1>8 DEF InspectInv

(* What is there while a read goes on.                                     *)
LEMMA ReadingFacts ==
  ASSUME InspectInv, Reading
  PROVE  /\ given \in Seq(Cells) /\ Len(given) \in Nat /\ Len(chunks) \in Nat
         /\ ReadFrom \in 0..2 /\ Reached \in 0..Len(given) /\ Reached = ReadFrom + Len(chunks)
         /\ step = "header" => ReadFrom = 0
         /\ step = "prefix" => ReadFrom = 1
         /\ step = "body" => ReadFrom = 2
         /\ ReadFrom + asked <= 2 + MaxMetaBytes /\ MaxMetaBytes \in Nat /\ asked \in Nat
  <1>1. given \in Seq(Cells) /\ Len(given) \in Nat /\ Len(chunks) \in Nat /\ asked \in Nat
    BY DEF InspectInv, InspectTypes
  <1>2. /\ ReadFrom \in 0..2 /\ Reached = ReadFrom + Len(chunks)
        /\ step = "header" => ReadFrom = 0
        /\ step = "prefix" => ReadFrom = 1
        /\ step = "body" => ReadFrom = 2
    BY DEF ReadFrom, Reached
  <1>3. Reached \in 0..Len(given)
    BY <1>1, <1>2 DEF InspectInv, TakenInv
  <1>4. ReadFrom + asked <= 2 + MaxMetaBytes /\ MaxMetaBytes \in Nat
    BY <1>1, <1>2, InspectAssumption DEF Reading, InspectInv, SeenInv
  <1>. QED
    BY <1>1, <1>2, <1>3, <1>4

LEMMA TakesRemainderKeeps == InspectInv /\ TakesRemainder => InspectInv'
  <1>. SUFFICES ASSUME InspectInv, TakesRemainder PROVE InspectInv'
    OBVIOUS
  <1>. DEFINE k == Lesser(Missing, Len(remainder))
              a == SubSeq(remainder, 1, k)
              b == SubSeq(remainder, k + 1, Len(remainder))
  <1>1. /\ Reading /\ Missing > 0 /\ remainder # <<>>
        /\ chunks' = chunks \o a /\ remainder' = b
        /\ UNCHANGED <<given, givenTail, source, asked, step, seen, prefix, metadata, thrown>>
    BY DEF TakesRemainder, RestOf, givenVars
  <1>2. /\ given \in Seq(Cells) /\ source \in Seq(Cells) /\ remainder \in Seq(Cells)
        /\ chunks \in Seq(Cells) /\ asked \in Nat /\ Len(remainder) \in Nat /\ Len(chunks) \in Nat
    BY DEF InspectInv, InspectTypes
  <1>3. /\ Reached \in 0..Len(given) /\ Len(given) \in Nat /\ ReadFrom \in Nat
        /\ Reached = ReadFrom + Len(chunks)
        /\ chunks = SubSeq(given, ReadFrom + 1, Reached)
        /\ remainder \o source = SubSeq(given, Reached + 1, Len(given))
    <2>1. /\ Reached \in 0..Len(given) /\ Len(given) \in Nat /\ ReadFrom \in 0..2
          /\ Reached = ReadFrom + Len(chunks)
      BY <1>1, ReadingFacts
    <2>2. /\ chunks = SubSeq(given, ReadFrom + 1, Reached)
          /\ remainder \o source = SubSeq(given, Reached + 1, Len(given))
      <3>1. TakenInv
        BY DEF InspectInv
      <3>. QED
        BY <1>1, <3>1 DEF TakenInv
    <2>3. ReadFrom \in Nat
      BY <2>1
    <2>. QED
      BY <2>1, <2>2, <2>3, Zenon
  <1>4. k \in 0..Len(remainder) /\ k <= asked - Len(chunks) /\ k \in Nat
    BY <1>1, <1>2 DEF Lesser, Missing
  <1>. HIDE DEF k
  <1>5. a \in Seq(Cells) /\ b \in Seq(Cells) /\ Len(a) = k /\ remainder = a \o b
    BY <1>2, <1>4, PartsJoin
  <1>. HIDE DEF a, b
  <1>6. remainder \o source = a \o (b \o source) /\ b \o source \in Seq(Cells)
    <2>1. b \o source \in Seq(Cells)
      BY <1>2, <1>5, ConcatProperties
    <2>2. (a \o b) \o source = a \o (b \o source)
      <3>1. a \in Seq(Cells) /\ b \in Seq(Cells) /\ source \in Seq(Cells)
        BY <1>2, <1>5, Zenon
      <3>. QED
        BY <3>1, CellTriples
    <2>. QED
      BY <1>5, <2>1, <2>2, Zenon
  <1>7. /\ Reached + k \in 0..Len(given)
        /\ a = SubSeq(given, Reached + 1, Reached + k)
        /\ b \o source = SubSeq(given, Reached + k + 1, Len(given))
    <2>1. PICK at \in 0..Len(given) : at = Reached
      BY <1>3
    <2>2. PICK rest \in Seq(Cells) : rest = b \o source
      BY <1>6
    <2>3. a \o rest = SubSeq(given, at + 1, Len(given))
      BY <1>3, <1>6, <2>1, <2>2, Zenon
    <2>4. Splits(given, at, a, rest)
      BY <1>2, <1>5, <2>3, RestSplits
    <2>. QED
      BY <1>5, <2>1, <2>2, <2>4, Zenon DEF Splits
  <1>8. chunks' \in Seq(Cells) /\ Len(chunks') = Len(chunks) + k
    BY <1>1, <1>2, <1>5, ConcatProperties
  <1>9. chunks' = SubSeq(given, ReadFrom + 1, Reached + k)
    <2>1. ReadFrom + 1 \in 1..Len(given) + 1 /\ Reached \in (ReadFrom + 1) - 1..Len(given)
          /\ Reached + k \in Reached..Len(given)
      BY <1>2, <1>3, <1>4, <1>7
    <2>2. SubSeq(given, ReadFrom + 1, Reached) \o SubSeq(given, Reached + 1, Reached + k)
            = SubSeq(given, ReadFrom + 1, Reached + k)
      BY <1>2, <2>1, ConcatAdjacentSubSeq
    <2>. QED
      BY <1>1, <1>3, <1>7, <2>2
  <1>10. ReadFrom' = ReadFrom /\ Reached' = Reached + k /\ Reading'
    <2>1. ReadFrom' = ReadFrom /\ Reading' /\ Reached' = ReadFrom' + Len(chunks')
      BY <1>1 DEF ReadFrom, Reached, Reading
    <2>. QED
      BY <1>2, <1>3, <1>4, <1>8, <2>1
  <1>11. InspectTypes'
    BY <1>1, <1>5, <1>8 DEF InspectInv, InspectTypes
  <1>12. TakenInv'
    <2>1. Reached' <= Len(given') /\ Len(chunks') <= asked'
      <3>1. asked' = asked /\ given' = given
        BY <1>1
      <3>. QED
        BY <1>2, <1>4, <1>7, <1>8, <1>10, <3>1
    <2>. QED
      BY <1>1, <1>7, <1>9, <1>10, <2>1 DEF TakenInv
  <1>13. SeenInv'
    BY <1>1 DEF InspectInv, SeenInv, Reading
  <1>14. SettledInv'
    BY <1>1 DEF SettledInv, Reading
  <1>. QED
    BY <1>11, <1>12, <1>13, <1>14 DEF InspectInv

LEMMA TakesPieceKeeps == InspectInv /\ TakesPiece => InspectInv'
  <1>. SUFFICES ASSUME InspectInv, TakesPiece PROVE InspectInv'
    OBVIOUS
  <1>1. PICK n \in PrefixPieces :
          /\ remainder' = SubSeq(source, 1, Lesser(n, Len(source)))
          /\ source' = SubSeq(source, Lesser(n, Len(source)) + 1, Len(source))
    BY DEF TakesPiece
  <1>2. Reading /\ remainder = <<>>
        /\ UNCHANGED <<given, givenTail, chunks, asked, step, seen, prefix, metadata, thrown>>
    BY DEF TakesPiece, givenVars
  <1>3. source \in Seq(Cells) /\ Len(source) \in Nat /\ n \in Nat
    BY InspectAssumption DEF InspectInv, InspectTypes
  <1>4. Lesser(n, Len(source)) \in 0..Len(source)
    BY <1>3 DEF Lesser
  <1>5. remainder' \in Seq(Cells) /\ source' \in Seq(Cells) /\ remainder' \o source' = source
    BY <1>1, <1>3, <1>4, PartsJoin
  <1>6. remainder \o source = source
    BY <1>2, <1>3
  <1>7. InspectTypes'
    BY <1>2, <1>5 DEF InspectInv, InspectTypes
  <1>8. ReadFrom' = ReadFrom /\ Reached' = Reached /\ Reading'
    BY <1>2 DEF ReadFrom, Reached, Reading
  <1>9. TakenInv'
    BY <1>2, <1>5, <1>6, <1>8 DEF InspectInv, TakenInv
  <1>10. SeenInv'
    BY <1>2 DEF InspectInv, SeenInv, Reading
  <1>11. SettledInv'
    BY <1>2 DEF SettledInv, Reading
  <1>. QED
    BY <1>7, <1>9, <1>10, <1>11 DEF InspectInv

(* However it settled, the source goes on behind what was taken.           *)
LEMMA SettledGoesOn ==
  ASSUME InspectInv, Reading, UNCHANGED <<given, source, remainder>>,
         thrown' = NoError => Reached = MetaEnd(given)
  PROVE  GoesOnWith(remainder \o source)'
  <1>1. /\ Reached \in 0..Len(given) /\ Reached <= 2 + MaxMetaBytes
    <2>1. /\ Reached \in 0..Len(given) /\ Len(chunks) \in Nat /\ ReadFrom \in 0..2 /\ asked \in Nat
          /\ ReadFrom + asked <= 2 + MaxMetaBytes /\ MaxMetaBytes \in Nat
          /\ Reached = ReadFrom + Len(chunks)
      BY ReadingFacts
    <2>2. Len(chunks) <= asked
      BY DEF InspectInv, TakenInv
    <2>. QED
      BY <2>1, <2>2
  <1>2. (remainder \o source)' = SubSeq(given', Reached + 1, Len(given'))
    BY DEF InspectInv, TakenInv
  <1>. QED
    BY <1>1, <1>2 DEF GoesOnWith

LEMMA SettledKeeps ==
  ASSUME InspectInv, Reading, step' = "restore",
         UNCHANGED <<given, givenTail, source, remainder, asked>>, chunks' \in Seq(Cells),
         thrown' = NoError => Reached = MetaEnd(given),
         Answers'
  PROVE  InspectInv'
  <1>1. GoesOnWith(remainder \o source)'
    BY SettledGoesOn
  <1>2. InspectTypes'
    BY DEF InspectInv, InspectTypes
  <1>3. TakenInv' /\ SeenInv'
    BY DEF TakenInv, SeenInv, Reading
  <1>4. SettledInv'
    BY <1>1 DEF SettledInv
  <1>. QED
    BY <1>2, <1>3, <1>4 DEF InspectInv

(* The next read begins where this one ended.                              *)
LEMMA AsksKeeps ==
  ASSUME InspectInv, Reading, step' \in {"prefix", "body"}, ReadFrom' = Reached,
         UNCHANGED <<given, givenTail, source, remainder>>, chunks' = <<>>, asked' \in Nat, SeenInv'
  PROVE  InspectInv'
  <1>1. /\ given \in Seq(Cells) /\ Reached \in 0..Len(given)
        /\ Len(given) \in Nat /\ TakenInv
    BY ReadingFacts DEF InspectInv
  <1>2. Reading' /\ Reached' = ReadFrom' + Len(<<>>) /\ Len(<<>>) = 0 /\ <<>> \in Seq(Cells)
    BY DEF Reading, Reached
  <1>3. Reached' = Reached
    BY <1>1, <1>2
  <1>4. SubSeq(given, Reached + 1, Reached) = <<>>
    BY <1>1
  <1>5. TakenInv'
    <2>1. Reached' <= Len(given') /\ Len(chunks') <= asked'
      BY <1>1, <1>2, <1>3
    <2>2. chunks' = SubSeq(given', ReadFrom' + 1, Reached')
      BY <1>3, <1>4
    <2>3. (remainder \o source)' = SubSeq(given', Reached' + 1, Len(given'))
      BY <1>1, <1>3 DEF TakenInv
    <2>. QED
      BY <2>1, <2>2, <2>3 DEF TakenInv
  <1>6. InspectTypes'
    BY <1>2 DEF InspectInv, InspectTypes
  <1>7. SettledInv'
    BY DEF SettledInv
  <1>. QED
    BY <1>5, <1>6, <1>7 DEF InspectInv

(* What a read that has all it asked for has got.                          *)
LEMMA ResolvedFacts ==
  ASSUME InspectInv, Reading, Missing = 0
  PROVE  /\ Reached = ReadFrom + asked /\ Len(chunks) = asked
         /\ \A i \in 1..asked : chunks[i] = given[ReadFrom + i]
  <1>1. /\ given \in Seq(Cells) /\ Len(given) \in Nat /\ Len(chunks) \in Nat /\ asked \in Nat
        /\ ReadFrom \in 0..2 /\ Reached \in 0..Len(given) /\ Reached = ReadFrom + Len(chunks)
    BY ReadingFacts
  <1>2. Len(chunks) = asked
    BY <1>1 DEF Missing
  <1>3. chunks = SubSeq(given, ReadFrom + 1, ReadFrom + asked)
    BY <1>1, <1>2 DEF InspectInv, TakenInv
  <1>4. ReadFrom \in Nat /\ ReadFrom + asked <= Len(given)
    BY <1>1, <1>2
  <1>5. \A i \in 1..asked : SubSeq(given, ReadFrom + 1, ReadFrom + asked)[i] = given[ReadFrom + i]
    BY <1>1, <1>4, PartAfter
  <1>. QED
    BY <1>1, <1>2, <1>3, <1>5

LEMMA SourceEndsKeeps == InspectInv /\ SourceEnds => InspectInv'
  <1>. SUFFICES ASSUME InspectInv, SourceEnds PROVE InspectInv'
    OBVIOUS
  <1>1. /\ Reading /\ Missing > 0 /\ remainder = <<>> /\ source = <<>> /\ step' = "restore"
        /\ thrown' = IF givenTail = Rejects THEN "EIO" ELSE TruncationError(step)
        /\ UNCHANGED <<given, givenTail, source, remainder, chunks, asked, seen, prefix, metadata>>
    BY DEF SourceEnds, Settles, givenVars, readVars
  <1>2. /\ given \in Seq(Cells) /\ Len(given) \in Nat /\ Len(chunks) \in Nat /\ asked \in Nat
        /\ ReadFrom \in 0..2 /\ Reached \in 0..Len(given) /\ Reached = ReadFrom + Len(chunks)
        /\ MaxMetaBytes \in Nat
        /\ step = "header" => ReadFrom = 0
        /\ step = "prefix" => ReadFrom = 1
        /\ step = "body" => ReadFrom = 2
    BY <1>1, ReadingFacts
  <1>3. Reached = Len(given) /\ Len(given) < ReadFrom + asked
    <2>1. SubSeq(given, Reached + 1, Len(given)) = <<>> \o <<>>
      <3>1. TakenInv
        BY DEF InspectInv
      <3>. QED
        BY <1>1, <3>1 DEF TakenInv
    <2>2. PICK m \in Nat : m = Len(given) - Reached
      <3>1. Reached \in 0..Len(given) /\ Len(given) \in Nat
        BY <1>2, Zenon
      <3>. QED
        BY <3>1
    <2>3. Reached \in Nat /\ Reached + m = Len(given)
      BY <1>2, <2>2
    <2>4. Len(SubSeq(given, Reached + 1, Reached + m)) = m
      BY <1>2, <2>3, PartAfter
    <2>5. Len(<<>> \o <<>>) = 0
      OBVIOUS
    <2>6. m = 0
      <3>1. SubSeq(given, Reached + 1, Reached + m) = <<>> \o <<>>
        BY <2>1, <2>3, Zenon
      <3>. QED
        BY <2>4, <2>5, <3>1, Zenon
    <2>. QED
      BY <1>1, <1>2, <2>2, <2>6 DEF Missing
  <1>4. inspectError(given, MaxMetaBytes) = TruncationError(step)
    <2>1. CASE step = "header"
      <3>1. asked = 1
        BY <2>1, <1>1 DEF InspectInv, SeenInv
      <3>2. Len(given) = 0
        BY <1>2, <1>3, <2>1, <3>1
      <3>3. given = <<>>
        BY <1>2, <3>2, EmptySeq
      <3>. QED
        BY <1>2, <2>1, <3>3, InspectCases DEF TruncationError
    <2>2. CASE step # "header"
      <3>1. /\ given # <<>> /\ ParseHeader(given[1]) = NoError /\ given[1].h.hasMetadata
            /\ step \in {"prefix", "body"}
            /\ step = "prefix" => asked = 1
            /\ step = "body" => Len(given) >= 2 /\ asked = U32(given[2])
        BY <1>1, <2>2 DEF InspectInv, SeenInv, Reading
      <3>2. Len(given) < 2 \/ (Len(given) >= 2 /\ U32(given[2]) > Len(given) - 2)
        BY <1>2, <1>3, <3>1
      <3>3. ~parse_metadata(given, MaxMetaBytes).ok
        BY <1>2, <3>2, MetadataCases
      <3>4. inspectError(given, MaxMetaBytes) = MetaMalformed
        BY <1>2, <3>1, <3>3, InspectCases
      <3>. QED
        BY <2>2, <3>4 DEF TruncationError
    <2>. QED
      BY <2>1, <2>2
  <1>5. TruncationError(step) \in {Truncated, MetaMalformed} /\ NoError \notin {Truncated, MetaMalformed, "EIO"}
    BY DEF TruncationError, Truncated, MetaMalformed, NoError
  <1>6. thrown' # NoError /\ chunks' \in Seq(Cells)
    BY <1>1, <1>5 DEF InspectInv, InspectTypes
  <1>7. Answers'
    <2>1. CASE givenTail = Rejects
      <3>1. thrown' = "EIO" /\ givenTail' = Rejects
            /\ inspectError(given', MaxMetaBytes) \in {Truncated, MetaMalformed}
        BY <1>1, <1>4, <1>5, <2>1
      <3>. QED
        BY <3>1 DEF Answers
    <2>2. CASE givenTail # Rejects
      <3>1. thrown' = inspectError(given', MaxMetaBytes)
        BY <1>1, <1>4, <2>2
      <3>. QED
        BY <1>6, <3>1 DEF Answers
    <2>. QED
      BY <2>1, <2>2
  <1>. QED
    BY <1>1, <1>6, <1>7, SettledKeeps

LEMMA InspectsHeaderKeeps == InspectInv /\ InspectsHeader => InspectInv'
  <1>. SUFFICES ASSUME InspectInv, InspectsHeader PROVE InspectInv'
    OBVIOUS
  <1>1. /\ step = "header" /\ Missing = 0 /\ Reading /\ asked = 1 /\ metadata = <<>>
        /\ UNCHANGED <<given, givenTail, source, remainder, prefix, metadata>>
    BY DEF InspectsHeader, Resolved, Reading, givenVars, InspectInv, SeenInv
  <1>2. /\ given \in Seq(Cells) /\ Len(given) \in Nat /\ Reached \in 0..Len(given) /\ ReadFrom = 0
        /\ MaxMetaBytes \in Nat
    BY <1>1, ReadingFacts
  <1>3. Reached = 1 /\ chunks[1] = given[1]
    <2>1. /\ Reached = ReadFrom + asked
          /\ \A i \in 1..asked : chunks[i] = given[ReadFrom + i]
      BY <1>1, ResolvedFacts
    <2>. QED
      BY <1>1, <1>2, <2>1
  <1>4. given # <<>> /\ given[1] \in Cells
    BY <1>2, <1>3, EmptySeq, ElementOfSeq
  <1>5. CASE ParseHeader(given[1]) # NoError
    <2>1. /\ step' = "restore" /\ thrown' = ParseHeader(given[1]) /\ UNCHANGED <<asked, chunks, seen>>
      BY <1>3, <1>5 DEF InspectsHeader, Settles
    <2>2. Answers'
      <3>1. inspectError(given, MaxMetaBytes) = ParseHeader(given[1])
        BY <1>2, <1>4, <1>5, InspectCases
      <3>. QED
        BY <1>1, <1>5, <2>1, <3>1 DEF Answers
    <2>3. chunks' \in Seq(Cells)
      BY <2>1 DEF InspectInv, InspectTypes
    <2>. QED
      BY <1>1, <1>5, <2>1, <2>2, <2>3, SettledKeeps
  <1>6. CASE ParseHeader(given[1]) = NoError /\ ~given[1].h.hasMetadata
    <2>1. /\ step' = "restore" /\ thrown' = NoError /\ seen' = given[1].h /\ UNCHANGED <<asked, chunks>>
      BY <1>3, <1>6 DEF InspectsHeader, Settles
    <2>2. Answers'
      <3>1. inspectError(given, MaxMetaBytes) = NoError
        BY <1>2, <1>4, <1>6, InspectCases
      <3>2. HeaderCell(given[1].h) = given[1]
        BY <1>4, <1>6, HeaderIsCell
      <3>. QED
        BY <1>1, <1>6, <2>1, <3>1, <3>2 DEF Answers
    <2>3. chunks' \in Seq(Cells)
      BY <2>1 DEF InspectInv, InspectTypes
    <2>4. Reached = MetaEnd(given)
      BY <1>3, <1>6 DEF MetaEnd
    <2>. QED
      BY <1>1, <2>1, <2>2, <2>3, <2>4, SettledKeeps
  <1>7. CASE ParseHeader(given[1]) = NoError /\ given[1].h.hasMetadata
    <2>1. /\ step' = "prefix" /\ seen' = given[1].h /\ asked' = 1 /\ chunks' = <<>>
      BY <1>3, <1>7 DEF InspectsHeader, Asks
    <2>2. ReadFrom' = 1
      BY <2>1 DEF ReadFrom
    <2>3. SeenInv'
      BY <1>1, <1>4, <1>7, <2>1 DEF SeenInv
    <2>. QED
      BY <1>1, <1>3, <2>1, <2>2, <2>3, AsksKeeps
  <1>. QED
    BY <1>5, <1>6, <1>7

LEMMA ReadsPrefixKeeps == InspectInv /\ ReadsPrefix => InspectInv'
  <1>. SUFFICES ASSUME InspectInv, ReadsPrefix PROVE InspectInv'
    OBVIOUS
  <1>1. /\ step = "prefix" /\ Missing = 0 /\ Reading /\ asked = 1 /\ metadata = <<>>
        /\ given # <<>> /\ ParseHeader(given[1]) = NoError /\ seen = given[1].h /\ seen.hasMetadata
        /\ UNCHANGED <<given, givenTail, source, remainder, seen, metadata>> /\ prefix' = chunks
    BY DEF ReadsPrefix, Resolved, Reading, givenVars, InspectInv, SeenInv
  <1>2. /\ given \in Seq(Cells) /\ Len(given) \in Nat /\ Reached \in 0..Len(given) /\ ReadFrom = 1
        /\ MaxMetaBytes \in Nat
    BY <1>1, ReadingFacts
  <1>3. Reached = 2 /\ Len(chunks) = 1 /\ chunks[1] = given[2] /\ chunks \in Seq(Cells)
    <2>1. /\ Reached = ReadFrom + asked /\ Len(chunks) = asked
          /\ \A i \in 1..asked : chunks[i] = given[ReadFrom + i]
      BY <1>1, ResolvedFacts
    <2>. QED
      BY <1>1, <1>2, <2>1 DEF InspectInv, InspectTypes
  <1>4. Len(given) >= 2 /\ given[2] \in Cells /\ U32(given[2]) \in Nat /\ chunks = <<given[2]>>
    <2>1. Len(given) >= 2 /\ given[2] \in Cells
      BY <1>2, <1>3, ElementOfSeq
    <2>2. chunks = <<given[2]>>
      BY <1>3
    <2>. QED
      BY <2>1, <2>2, CellFacts
  <1>5. CASE U32(given[2]) > MaxMetaBytes
    <2>1. step' = "restore" /\ thrown' = MetaMalformed /\ UNCHANGED <<asked, chunks>>
      BY <1>3, <1>5 DEF ReadsPrefix, Settles
    <2>2. MetaMalformed # NoError
      BY DEF MetaMalformed, NoError
    <2>3. inspectError(given, MaxMetaBytes) = MetaMalformed
      <3>1. ~parse_metadata(given, MaxMetaBytes).ok
        BY <1>2, <1>4, <1>5, MetadataCases
      <3>. QED
        BY <1>1, <1>2, <3>1, InspectCases
    <2>4. Answers'
      BY <1>1, <2>1, <2>2, <2>3 DEF Answers
    <2>. QED
      BY <1>1, <1>3, <2>1, <2>2, <2>4, SettledKeeps
  <1>6. CASE ~(U32(given[2]) > MaxMetaBytes)
    <2>1. step' = "body" /\ asked' = U32(given[2]) /\ chunks' = <<>>
      BY <1>3, <1>6 DEF ReadsPrefix, Asks
    <2>2. ReadFrom' = 2
      BY <2>1 DEF ReadFrom
    <2>3. asked' <= MaxMetaBytes
      BY <1>2, <1>4, <1>6, <2>1
    <2>4. SeenInv'
      BY <1>1, <1>4, <2>1, <2>3 DEF SeenInv
    <2>. QED
      BY <1>1, <1>3, <1>4, <2>1, <2>2, <2>4, AsksKeeps
  <1>. QED
    BY <1>5, <1>6

LEMMA InspectsMetadataKeeps == InspectInv /\ InspectsMetadata => InspectInv'
  <1>. SUFFICES ASSUME InspectInv, InspectsMetadata PROVE InspectInv'
    OBVIOUS
  <1>1. /\ step = "body" /\ Missing = 0 /\ Reading /\ metadata = <<>>
        /\ given # <<>> /\ ParseHeader(given[1]) = NoError /\ seen = given[1].h /\ seen.hasMetadata
        /\ Len(given) >= 2 /\ prefix = <<given[2]>> /\ asked = U32(given[2])
        /\ UNCHANGED <<given, givenTail, source, remainder, chunks, asked, seen>>
    BY DEF InspectsMetadata, Resolved, Reading, givenVars, readVars, InspectInv, SeenInv
  <1>2. /\ given \in Seq(Cells) /\ Len(given) \in Nat /\ Reached \in 0..Len(given) /\ ReadFrom = 2
        /\ MaxMetaBytes \in Nat /\ asked \in Nat
    BY <1>1, ReadingFacts
  <1>3. Reached = 2 + asked /\ chunks \in Seq(Cells)
    <2>1. Reached = ReadFrom + asked
      BY <1>1, ResolvedFacts
    <2>. QED
      BY <1>2, <2>1 DEF InspectInv, InspectTypes
  <1>4. HeaderCell(seen) = given[1] /\ given[1] \in Cells /\ given[2] \in Cells
    <2>1. given[1] \in Cells /\ given[2] \in Cells
      BY <1>1, <1>2, ElementOfSeq
    <2>. QED
      BY <1>1, <2>1, HeaderIsCell
  <1>5. chunks = SubSeq(given, 3, 2 + asked)
    <2>1. TakenInv
      BY DEF InspectInv
    <2>2. chunks = SubSeq(given, ReadFrom + 1, Reached)
      BY <1>1, <2>1 DEF TakenInv
    <2>3. ReadFrom + 1 = 3
      BY <1>2
    <2>. QED
      BY <1>3, <2>2, <2>3
  <1>6. (<<HeaderCell(seen)>> \o prefix) \o chunks = SubSeq(given, 1, 2 + asked)
    <2>1. <<given[1]>> \o <<given[2]>> = SubSeq(given, 1, 2)
      BY <1>1, <1>2
    <2>2. 1 \in 1..Len(given) + 1 /\ 2 \in 1 - 1..Len(given) /\ 2 + asked \in 2..Len(given) /\ 2 + 1 = 3
      BY <1>1, <1>2, <1>3
    <2>3. SubSeq(given, 1, 2) \o SubSeq(given, 2 + 1, 2 + asked) = SubSeq(given, 1, 2 + asked)
      BY <1>2, <2>2, ConcatAdjacentSubSeq
    <2>. QED
      BY <1>1, <1>4, <1>5, <2>1, <2>2, <2>3, Zenon
  <1>. DEFINE parsed == parse_metadata(given, MaxMetaBytes)
  <1>7. parse_metadata(<<HeaderCell(seen)>> \o prefix \o chunks, MaxMetaBytes) = parsed
    <2>1. U32(given[2]) <= Len(given) - 2
      BY <1>1, <1>2, <1>3
    <2>2. parse_metadata(SubSeq(given, 1, 2 + U32(given[2])), MaxMetaBytes) = parsed
      BY <1>1, <1>2, <2>1, PrefixParses
    <2>. QED
      BY <1>1, <1>6, <2>2, Zenon
  <1>8. /\ step' = "restore"
        /\ parsed.ok => thrown' = NoError /\ metadata' = parsed.entries
        /\ ~parsed.ok => thrown' = MetaMalformed
    BY <1>7 DEF InspectsMetadata, Settles
  <1>. HIDE DEF parsed
  <1>9. inspectError(given, MaxMetaBytes) = IF parsed.ok THEN NoError ELSE MetaMalformed
    BY <1>1, <1>2, InspectCases DEF parsed
  <1>10. Answers'
    <2>1. CASE parsed.ok
      <3>1. /\ thrown' = inspectError(given, MaxMetaBytes)
            /\ HeaderCell(seen) = given[1] /\ seen.hasMetadata
            /\ metadata' = parse_metadata(given, MaxMetaBytes).entries
        BY <1>1, <1>4, <1>8, <1>9, <2>1 DEF parsed
      <3>. QED
        BY <1>1, <3>1 DEF Answers
    <2>2. CASE ~parsed.ok
      <3>1. thrown' = inspectError(given, MaxMetaBytes) /\ thrown' # NoError
        BY <1>8, <1>9, <2>2 DEF MetaMalformed, NoError
      <3>. QED
        BY <1>1, <3>1 DEF Answers
    <2>. QED
      BY <2>1, <2>2
  <1>11. Reached = MetaEnd(given)
    BY <1>1, <1>3 DEF MetaEnd
  <1>. QED
    BY <1>1, <1>3, <1>8, <1>10, <1>11, SettledKeeps

LEMMA RestoresKeeps == InspectInv /\ Restores => InspectInv'
  <1>. SUFFICES ASSUME InspectInv, Restores PROVE InspectInv'
    OBVIOUS
  <1>1. /\ step = "restore" /\ step' = "returned" /\ source' = remainder \o source /\ remainder' = <<>>
        /\ UNCHANGED <<given, givenTail, chunks, asked, seen, prefix, metadata, thrown>>
    BY DEF Restores, givenVars
  <1>2. source' \in Seq(Cells) /\ <<>> \in Seq(Cells)
    BY <1>1, ConcatProperties DEF InspectInv, InspectTypes
  <1>3. (remainder \o source)' = remainder \o source
    BY <1>1, <1>2
  <1>4. InspectTypes'
    BY <1>1, <1>2 DEF InspectInv, InspectTypes
  <1>5. TakenInv' /\ SeenInv'
    BY <1>1 DEF TakenInv, SeenInv, Reading
  <1>6. Answers /\ GoesOnWith(remainder \o source)
    BY <1>1 DEF InspectInv, SettledInv
  <1>7. Answers'
    BY <1>1, <1>6 DEF Answers
  <1>8. GoesOnWith(remainder \o source)'
    BY <1>1, <1>3, <1>6 DEF GoesOnWith
  <1>9. SettledInv'
    BY <1>1, <1>7, <1>8 DEF SettledInv
  <1>. QED
    BY <1>4, <1>5, <1>9 DEF InspectInv

LEMMA InspectStep == InspectInv /\ [InspectNext]_inspectVars => InspectInv'
  <1>. SUFFICES ASSUME InspectInv, [InspectNext]_inspectVars PROVE InspectInv'
    OBVIOUS
  <1>1. CASE InspectSteps
    BY <1>1, TakesRemainderKeeps, TakesPieceKeeps, SourceEndsKeeps, InspectsHeaderKeeps,
       ReadsPrefixKeeps, InspectsMetadataKeeps, RestoresKeeps DEF InspectSteps
  <1>2. CASE UNCHANGED inspectVars
    <2>1. UNCHANGED <<given, givenTail, source, remainder, chunks, asked, step, seen, prefix, metadata, thrown>>
      BY <1>2 DEF inspectVars, givenVars, readVars
    <2>2. InspectTypes' /\ SeenInv'
      BY <2>1 DEF InspectInv, InspectTypes, SeenInv, Reading
    <2>3. TakenInv'
      BY <2>1 DEF InspectInv, TakenInv, Reading, Reached, ReadFrom
    <2>4. SettledInv'
      BY <2>1 DEF InspectInv, SettledInv, Answers, GoesOnWith
    <2>. QED
      BY <2>2, <2>3, <2>4 DEF InspectInv
  <1>. QED
    BY <1>1, <1>2 DEF InspectNext, InspectReturned

(* However its source comes in pieces, inspectStream of the Node SDK       *)
(* returns or throws what inspect does for the whole of it, a source that  *)
(* fails too early apart, and leaves the source where the payload begins   *)
(* or, after an error, within the prefix, with nothing lost or repeated.   *)
THEOREM InspectTransparent == InspectSpec => []InspectIsTransparent
  <1>1. InspectInv => InspectIsTransparent
    <2>. SUFFICES ASSUME InspectInv, step = "returned" PROVE Answers /\ GoesOnWith(source)
      BY DEF InspectIsTransparent
    <2>1. Answers /\ GoesOnWith(remainder \o source) /\ remainder = <<>> /\ source \in Seq(Cells)
      BY DEF InspectInv, SettledInv, InspectTypes
    <2>2. remainder \o source = source
      BY <2>1
    <2>. QED
      BY <2>1, <2>2
  <1>. QED
    BY <1>1, InspectStarts, InspectStep, PTL DEF InspectSpec

=============================================================================
