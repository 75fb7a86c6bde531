------------------------- MODULE ChunkedStreamManager -------------------------
(***************************************************************************)
(* class ChunkedStreamManager of seren-core/src/stream/chunked_stream.ts:  *)
(* it turns "these chunks are needed" into range requests to the network,  *)
(* shares a chunk that is already on its way between all who asked for it, *)
(* and settles the promise of each request when its last chunk is there.   *)
(*                                                                         *)
(* A handler of the worker's event loop runs to completion, so one action  *)
(* is one call of requestRange, requestAllChunks, onReceiveData or abort   *)
(* with everything it does before it returns. The network is the           *)
(* environment: a range reader ends with its data or fails, in any order.  *)
(***************************************************************************)
EXTENDS ChunkedStream

CONSTANTS
    DisableAutoFetch,   \* the disableAutoFetch option
    Streaming,          \* TRUE: progressive data arrives as well
    Failures,           \* TRUE: a range request may fail
    Longer,             \* TRUE: the server may return more than it was asked for
    Aborts,             \* TRUE: the worker may be terminated
    MaxRequests         \* bound: no call from outside once so many ids are used

ASSUME OptionAssumption ==
    /\ DisableAutoFetch \in BOOLEAN
    /\ Streaming \in BOOLEAN
    /\ Failures \in BOOLEAN
    /\ Longer \in BOOLEAN
    /\ Aborts \in BOOLEAN
    /\ MaxRequests \in Nat

VARIABLES
    currRequestId,      \* the id of the next request
    asked,              \* the chunks argument of each _requestChunks call
    chunksNeeded,       \* _chunksNeededByRequest
    requestsByChunk,    \* _requestsByChunk; an absent entry is the empty set
    promisesByRequest,  \* the ids that are keys of _promisesByRequest
    promise,            \* what the caller of each request sees of its promise
    fetches,            \* the sendRequest calls that have not finished
    aborted,            \* aborted
    loadedStream,       \* _loadedStreamCapability
    arrived             \* bytes of the full response that have reached the main
                        \* thread, not all of which have been passed to the worker

managerVars == <<currRequestId, asked, chunksNeeded, requestsByChunk,
                 promisesByRequest, promise, fetches, aborted, loadedStream, arrived>>
vars == <<streamVars, managerVars>>

Ids == 0 .. currRequestId - 1

\* "ignored" is a promise fulfilled because its failure came after the abort.
PromiseStates == {"pending", "resolved", "rejected", "ignored"}

FetchRecords == [req : Nat, begin : Chunks, end : 1 .. NumChunks]
ChunksOf(fetch) == fetch.begin .. fetch.end - 1

\* Mutant of GetEndChunk: rounded down.
GetEndChunkFloor(end) == end \div ChunkSize

GetBeginChunk(begin) == begin \div ChunkSize
GetEndChunk(end)     == (end - 1) \div ChunkSize + 1

Minimum(a, b) == IF a <= b THEN a ELSE b

Init ==
    /\ StreamInit
    /\ currRequestId = 0
    /\ asked = << >>
    /\ chunksNeeded = << >>
    /\ requestsByChunk = [c \in Chunks |-> {}]
    /\ promisesByRequest = {}
    /\ promise = << >>
    /\ fetches = {}
    /\ aborted = FALSE
    /\ loadedStream = "pending"
    /\ arrived = 0

------------------------------------------------------------------------------
(* Requesting.                                                              *)

\* Mutant of GroupChunks: the groups after the first gap are forgotten.
FirstGroupOnly(S) ==
    {g \in [begin : S, end : {c + 1 : c \in S}] :
        /\ g.begin .. g.end - 1 \subseteq S /\ g.begin < g.end
        /\ \A c \in S : g.begin <= c
        /\ g.end \notin S}

\* The chunks of S as contiguous ranges, as few as possible.
GroupChunks(S) ==
    {g \in [begin : S, end : {c + 1 : c \in S}] :
        /\ g.begin < g.end
        /\ g.begin .. g.end - 1 \subseteq S
        /\ g.begin - 1 \notin S
        /\ g.end \notin S}

\* Mutant of NotYetRequested: every chunk that is missing is fetched.
AllRequested(need, byChunk) == need

NotYetRequested(need, byChunk) == {c \in need : byChunk[c] = {}}

\* _requestChunks(S), from the request tables as they are when it is called:
\* only the chunks nobody asked for yet are fetched.
RequestChunks(S, needed, byChunk, promises, settled, inFlight) ==
    LET id        == currRequestId
        need      == S \ loadedChunks'
        toRequest == NotYetRequested(need, byChunk)
    IN  /\ currRequestId' = id + 1
        /\ asked' = [i \in 0 .. id |-> IF i = id THEN S ELSE asked[i]]
        /\ chunksNeeded' = [i \in 0 .. id |-> IF i = id THEN need ELSE needed[i]]
        /\ requestsByChunk' =
              [c \in Chunks |-> IF c \in need THEN byChunk[c] \cup {id} ELSE byChunk[c]]
        /\ promisesByRequest' = promises \cup {i \in {id} : need # {}}
        /\ promise' = [i \in 0 .. id |->
              IF i < id THEN settled[i] ELSE IF need = {} THEN "resolved" ELSE "pending"]
        /\ fetches' = inFlight \cup
              {[req |-> id, begin |-> g.begin, end |-> g.end] : g \in GroupChunks(toRequest)}

CallRequestChunks(S) ==
    /\ UNCHANGED <<streamVars, aborted, loadedStream, arrived>>
    /\ RequestChunks(S, chunksNeeded, requestsByChunk, promisesByRequest, promise, fetches)

RangeRequested(begin, end) ==
    GetBeginChunk(begin) .. GetEndChunk(Minimum(end, Length)) - 1

RequestRange(begin, end) == CallRequestChunks(RangeRequested(begin, end))

RequestAllChunks == CallRequestChunks(MissingChunks)

------------------------------------------------------------------------------
(* Receiving.                                                               *)

\* Mutant of ReceivedEndChunk: the short last chunk is never counted.
ReceivedEndChunkFloor(end) == end \div ChunkSize

\* The chunks onReceiveData takes the bytes begin .. end - 1 to complete.
ReceivedEndChunk(end) ==
    IF end < Length THEN end \div ChunkSize ELSE (end + ChunkSize - 1) \div ChunkSize

ReceivedChunks(begin, end) == begin \div ChunkSize .. ReceivedEndChunk(end) - 1

\* Mutant of AutoFetchChunk: no wrap-around at the end of the file.
AutoFetchOnlyNext(loaded, endChunk) == (Chunks \cap {endChunk}) \ loaded

\* The chunk to fetch next when nothing is pending: after the first chunk the
\* last one, otherwise the next one missing; the empty set for none.
AutoFetchChunk(loaded, endChunk) ==
    IF Cardinality(loaded) = 1
    THEN {NumChunks - 1} \ loaded
    ELSE NextEmptyChunk(loaded, endChunk)

\* The request tables once the chunks of C have arrived, the requests that have
\* thereby got their last chunk, and what the callers are told.
ByChunkWithout(C) == [c \in Chunks |-> IF c \in C THEN {} ELSE requestsByChunk[c]]

NeededWithout(C) == [i \in Ids |-> chunksNeeded[i] \ {c \in C : i \in requestsByChunk[c]}]

CompletedBy(C) ==
    {i \in Ids : NeededWithout(C)[i] = {} /\ \E c \in C : i \in requestsByChunk[c]}

SettledBy(C) ==
    [i \in Ids |-> IF i \in CompletedBy(C) /\ promise[i] = "pending"
                   THEN "resolved" ELSE promise[i]]

\* The chunk that is asked for without being needed: none as long as a request
\* is pending.
AutoFetch(byChunk, loaded, endChunk) ==
    IF DisableAutoFetch \/ \E c \in Chunks : byChunk[c] # {}
    THEN {} ELSE AutoFetchChunk(loaded, endChunk)

\* onReceiveData(begin .. end - 1), once the stream has taken the data: settle
\* the requests that have their last chunk and, if nothing is pending, ask for
\* one chunk more.
Received(begin, end, inFlight) ==
    LET C    == ReceivedChunks(begin, end)
        left == promisesByRequest \ CompletedBy(C)
        auto == AutoFetch(ByChunkWithout(C), loadedChunks', ReceivedEndChunk(end))
    IN  /\ loadedStream' = IF IsDataLoaded' THEN "resolved" ELSE loadedStream
        /\ \/ /\ auto # {}
              /\ RequestChunks(auto, NeededWithout(C), ByChunkWithout(C), left,
                               SettledBy(C), inFlight)
           \/ /\ auto = {}
              /\ chunksNeeded' = NeededWithout(C)
              /\ requestsByChunk' = ByChunkWithout(C)
              /\ promisesByRequest' = left
              /\ promise' = SettledBy(C)
              /\ fetches' = inFlight
              /\ UNCHANGED <<currRequestId, asked>>

\* A response is as long as the request, or longer by whole chunks.
ResponseEnds(fetch) ==
    {Minimum(e * ChunkSize, Length) : e \in
        IF Longer THEN fetch.end .. NumChunks ELSE {fetch.end}}

\* A range reader has delivered its data and ended: sendRequest goes on.
FetchDone(fetch) ==
    /\ ~aborted
    /\ \E end \in ResponseEnds(fetch) :
          /\ StreamReceiveData(fetch.begin * ChunkSize, end)
          /\ Received(fetch.begin * ChunkSize, end, fetches \ {fetch})
    /\ UNCHANGED <<aborted, arrived>>

\* The main thread has no range reader for bytes that its full reader already
\* has: the range reader of the worker ends without data.
FetchSkipped(fetch) ==
    /\ ~aborted
    /\ Minimum(fetch.end * ChunkSize, Length) <= arrived
    /\ UNCHANGED streamVars
    /\ Received(fetch.begin * ChunkSize, fetch.begin * ChunkSize, fetches \ {fetch})
    /\ UNCHANGED <<aborted, arrived>>

\* ... after the abort its data is dropped.
FetchIgnored(fetch) ==
    /\ aborted
    /\ fetches' = fetches \ {fetch}
    /\ UNCHANGED <<streamVars, currRequestId, asked, chunksNeeded, requestsByChunk,
                   promisesByRequest, promise, aborted, loadedStream, arrived>>

\* Mutant of Reject: every request that waits is given up.
RejectAll(ids, outcome) ==
    promise' = [i \in Ids |-> IF promise[i] = "pending" THEN outcome ELSE promise[i]]

Reject(ids, outcome) ==
    promise' = [i \in Ids |->
        IF i \in ids /\ promise[i] = "pending" THEN outcome ELSE promise[i]]

\* A range reader fails: the promise of the request that started it, and of no
\* other, is rejected; the tables keep the request.
FetchFailed(fetch) ==
    /\ Failures \/ aborted
    /\ fetches' = fetches \ {fetch}
    /\ Reject({fetch.req}, IF aborted THEN "ignored" ELSE "rejected")
    /\ UNCHANGED <<streamVars, currRequestId, asked, chunksNeeded, requestsByChunk,
                   promisesByRequest, aborted, loadedStream, arrived>>

\* The full response has brought the bytes up to position end to the main thread.
Arrive(end) ==
    /\ Streaming
    /\ arrived < end
    /\ arrived' = end
    /\ UNCHANGED <<streamVars, currRequestId, asked, chunksNeeded, requestsByChunk,
                   promisesByRequest, promise, fetches, aborted, loadedStream>>

\* The worker is passed the bytes up to position end; its read loop stops once
\* the worker is terminated.
ProgressiveData(end) ==
    /\ ~aborted
    /\ progressiveDataLength < end /\ end <= arrived
    /\ StreamReceiveProgressiveData(end)
    /\ Received(progressiveDataLength, end, fetches)
    /\ UNCHANGED <<aborted, arrived>>

Abort ==
    /\ Aborts /\ ~aborted
    /\ aborted' = TRUE
    /\ Reject(promisesByRequest, "ignored")
    /\ UNCHANGED <<streamVars, currRequestId, asked, chunksNeeded, requestsByChunk,
                   promisesByRequest, fetches, loadedStream, arrived>>

------------------------------------------------------------------------------

Call ==
    /\ currRequestId < MaxRequests
    /\ \/ RequestAllChunks
       \/ \E begin, end \in 0 .. Length : begin < end /\ RequestRange(begin, end)

FetchEnds ==
    \E fetch \in fetches :
        \/ FetchDone(fetch)
        \/ FetchSkipped(fetch)
        \/ FetchIgnored(fetch)
        \/ FetchFailed(fetch)

Next ==
    \/ Call
    \/ FetchEnds
    \/ \E end \in 1 .. Length : Arrive(end) \/ ProgressiveData(end)
    \/ Abort

Spec == Init /\ [][Next]_vars

\* Every range reader ends one day, and what has arrived is passed on: the stream
\* protocol promises that each read is settled and that done follows the last
\* chunk. Nothing is assumed of the callers or of the arrival of more data.
FairSpec ==
    /\ Spec
    /\ WF_vars(FetchEnds)
    /\ WF_vars(ProgressiveData(arrived))

------------------------------------------------------------------------------
(* What the manager promises.                                               *)

TypeOK ==
    /\ bytes \subseteq Positions
    /\ loadedChunks \subseteq Chunks
    /\ progressiveDataLength \in 0 .. Length
    /\ currRequestId \in Nat
    /\ asked \in [Ids -> SUBSET Chunks]
    /\ chunksNeeded \in [Ids -> SUBSET Chunks]
    /\ requestsByChunk \in [Chunks -> SUBSET Ids]
    /\ promisesByRequest \subseteq Ids
    /\ promise \in [Ids -> PromiseStates]
    /\ fetches \subseteq FetchRecords
    /\ aborted \in BOOLEAN
    /\ loadedStream \in {"pending", "resolved"}
    /\ arrived \in progressiveDataLength .. Length

\* A chunk is readable only when every byte of it has been written, whatever
\* mix of range responses and progressive data of any length brought them.
LoadedIsWritten == \A chunk \in loadedChunks : BytesOf(chunk) \subseteq bytes

\* The two tables of onReceiveData agree with each other and with the stream:
\* a request is listed under exactly the chunks it asked for that are still
\* missing.
TablesAgree ==
    \A id \in Ids :
        /\ chunksNeeded[id] = asked[id] \ loadedChunks
        /\ \A chunk \in Chunks : id \in requestsByChunk[chunk] <=> chunk \in chunksNeeded[id]

\* A caller is told "loaded" only when all it asked for is there; it is not
\* left waiting when all of it is; and the promise that onReceiveData will
\* look up without a check exists as long as the tables name the request.
PromisesTellTheTruth ==
    \A id \in Ids :
        /\ promise[id] = "resolved" => asked[id] \subseteq loadedChunks
        /\ promise[id] = "pending" => ~(asked[id] \subseteq loadedChunks)
        /\ chunksNeeded[id] # {} <=> id \in promisesByRequest

\* No chunk is fetched twice at the same time, whoever asks for it, and a
\* chunk on its way is one that somebody waits for unless it came otherwise.
NoDoubleFetch ==
    \A f \in fetches :
        /\ \A g \in fetches : f # g => ChunksOf(f) \cap ChunksOf(g) = {}
        /\ \A chunk \in ChunksOf(f) : chunk \in loadedChunks \/ requestsByChunk[chunk] # {}

Failed == \E id \in Ids : promise[id] = "rejected"

\* The work never stands still. While nothing has failed, every chunk somebody
\* waits for is on its way, in a range request or among the bytes that have arrived
\* already. And with auto-fetch, data that arrived is always followed by a request
\* for more until the whole file is there. (The rule "after the first chunk the
\* last one" has one hole: it asks for nothing when the first chunk to arrive is the
\* last one of the file.)
WorkGoesOn ==
    /\ ~(Failed \/ aborted) =>
          \A chunk \in Chunks : requestsByChunk[chunk] # {} =>
              \/ \E f \in fetches : chunk \in ChunksOf(f)
              \/ \A p \in BytesOf(chunk) : p < arrived
    /\ (~DisableAutoFetch /\ ~aborted /\ loadedChunks \notin {{}, {NumChunks - 1}}) =>
          \/ loadedChunks = Chunks
          \/ \E chunk \in Chunks : requestsByChunk[chunk] # {}

\* requestLoadedStream is settled by the data that completes the file, through
\* whichever of the two ways it came.
LoadedStreamOnTime == loadedStream = "resolved" <=> loadedChunks = Chunks

\* Every request is settled one day, unless a request fails or the manager is
\* aborted. (The number of requests is bounded, so that there is a time after the
\* last of them.)
SomeoneWaits == \E id \in Ids : promise[id] = "pending"

RequestsSettle == []<>(~SomeoneWaits \/ Failed \/ aborted)

\* "Loads any chunks in the requested range that are not yet loaded": a failure
\* settles the requests it concerns, and no other is the worse for it.
EveryRequestSettles == []<>(~SomeoneWaits \/ aborted)

\* The manager is a chunk loader: a request is answered in the step in which its
\* last chunk is written, whichever fetch brings it, once, and never unasked.
Loader == INSTANCE ChunkLoader WITH
    Chunk <- Chunks, loaded <- loadedChunks, count <- currRequestId,
    wants <- asked, answer <- promise

ImplementsLoader == Loader!LoaderSpec

==============================================================================
