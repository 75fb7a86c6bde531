---------------------------- MODULE ChunkedStream ----------------------------
(***************************************************************************)
(* class ChunkedStream of seren-core/src/stream/chunked_stream.ts: a byte  *)
(* buffer of a known length that is filled out of order, in whole chunks   *)
(* (range responses), or from its beginning (the progressive response),    *)
(* and the checks a parser makes before it reads a byte or a range of it.  *)
(***************************************************************************)
EXTENDS Integers, FiniteSets

CONSTANTS
    Length,         \* bytes in the file
    ChunkSize       \* bytes in a chunk (rangeChunkSize)

ASSUME SizeAssumption ==
    /\ Length \in Nat \ {0}
    /\ ChunkSize \in Nat \ {0}

VARIABLES
    bytes,                  \* the positions of the buffer that have been written
    loadedChunks,           \* _loadedChunks: the chunks that may be read
    progressiveDataLength   \* bytes of the progressive response written so far

streamVars == <<bytes, loadedChunks, progressiveDataLength>>

NumChunks == (Length + ChunkSize - 1) \div ChunkSize        \* Math.ceil
Chunks    == 0 .. NumChunks - 1
Positions == 0 .. Length - 1

BytesOf(chunk) == {p \in Positions : chunk * ChunkSize <= p /\ p < (chunk + 1) * ChunkSize}

------------------------------------------------------------------------------
(* Writing.                                                                 *)

StreamInit ==
    /\ bytes = {}
    /\ loadedChunks = {}
    /\ progressiveDataLength = 0

\* The offsets onReceiveData accepts; it throws on any other pair.
AlignedRange(begin, end) ==
    /\ begin % ChunkSize = 0
    /\ end % ChunkSize = 0 \/ end = Length

\* The chunks onReceiveData marks for the bytes begin .. end - 1.
RangeChunks(begin, end) == begin \div ChunkSize .. (end - 1) \div ChunkSize

StreamReceiveData(begin, end) ==
    /\ AlignedRange(begin, end)
    /\ bytes' = bytes \cup (begin .. end - 1)
    /\ loadedChunks' = loadedChunks \cup RangeChunks(begin, end)
    /\ UNCHANGED progressiveDataLength

\* Mutants of ProgressiveChunks: one chunk too many at the end of the file; a
\* chunk counted as soon as its first byte is there.
ProgressiveChunksPastEnd(begin, end) ==
    begin \div ChunkSize .. (IF end >= Length THEN NumChunks ELSE end \div ChunkSize - 1)
ProgressiveChunksPartial(begin, end) ==
    begin \div ChunkSize .. (end - 1) \div ChunkSize

\* The chunks onReceiveProgressiveData marks when the prefix grows from
\* position begin to position end: the last, possibly shorter, chunk counts
\* only when the whole file is there.
ProgressiveChunks(begin, end) ==
    begin \div ChunkSize ..
        (IF end >= Length THEN NumChunks ELSE end \div ChunkSize) - 1

StreamReceiveProgressiveData(end) ==
    /\ bytes' = bytes \cup (progressiveDataLength .. end - 1)
    /\ loadedChunks' = loadedChunks \cup ProgressiveChunks(progressiveDataLength, end)
    /\ progressiveDataLength' = end

------------------------------------------------------------------------------
(* Reading: a parser may use a byte or a range only when these do not       *)
(* throw a MissingDataException. A view is what a stream object holds of    *)
(* its own: a substream copies progressive (progressiveDataLength) and last *)
(* (lastSuccessfulEnsureByteChunk) when it is made and never refreshes      *)
(* them, while loadedChunks is shared by reference.                         *)

Views == [progressive : 0 .. Length, last : -1 .. NumChunks]

CurrentView(last) == [progressive |-> progressiveDataLength, last |-> last]

MissingChunks == Chunks \ loadedChunks

\* Mutant of IsDataLoaded: an off-by-one.
IsDataLoadedEarly == Cardinality(loadedChunks) >= NumChunks - 1

IsDataLoaded == Cardinality(loadedChunks) = NumChunks

EnsureByteThrows(view, pos) ==
    /\ pos >= view.progressive
    /\ pos \div ChunkSize <= NumChunks
    /\ pos \div ChunkSize # view.last
    /\ pos \div ChunkSize \notin loadedChunks

\* ensureByte returns before it looks at chunks.
ReturnsEarly(view, pos) == pos < view.progressive \/ pos \div ChunkSize > NumChunks

\* Mutant of LastAfterEnsureByte: the position instead of its chunk.
LastIsPosition(view, pos) == pos

\* The cache after ensureByte(pos) has returned without throwing.
LastAfterEnsureByte(view, pos) ==
    IF ReturnsEarly(view, pos) THEN view.last ELSE pos \div ChunkSize

\* Mutant of EnsureRangeThrows: the last chunk of the range is not checked.
EnsureRangeForgetsLast(view, begin, end) ==
    /\ begin < end
    /\ end > view.progressive
    /\ begin \div ChunkSize <= NumChunks
    /\ \E chunk \in MissingChunks :
          begin \div ChunkSize <= chunk /\ chunk < (end - 1) \div ChunkSize

EnsureRangeThrows(view, begin, end) ==
    /\ begin < end
    /\ end > view.progressive
    /\ begin \div ChunkSize <= NumChunks
    /\ \E chunk \in MissingChunks :
          begin \div ChunkSize <= chunk /\ chunk <= (end - 1) \div ChunkSize

\* The first chunk that is not in loaded, from beginChunk on and around the end
\* of the file: the empty set for null.
NextEmptyChunk(loaded, beginChunk) ==
    LET at(i) == (beginChunk + i) % NumChunks
        free  == {i \in 0 .. NumChunks - 1 : at(i) \notin loaded}
    IN  {at(i) : i \in {j \in free : \A k \in free : j <= k}}

==============================================================================
