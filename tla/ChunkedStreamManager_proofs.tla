--------------------- MODULE ChunkedStreamManager_proofs ---------------------
(***************************************************************************)
(* What the ChunkedStreamManager guarantees for files and chunks of every  *)
(* size, any number of requests and every combination of its options.      *)
(*                                                                         *)
(* The module goes from arithmetic (which chunks a piece of data           *)
(* completes) to the effect of _requestChunks and onReceiveData on the     *)
(* request tables, to the inductive invariant, to the theorems.            *)
(***************************************************************************)
EXTENDS ChunkedStreamManager, FiniteSetTheorems, WellFoundedInduction, TLAPS

(* Which chunks a piece of data completes.                                  *)

\* Division rounds down.
LEMMA Division ==
    ASSUME NEW n \in Int, NEW k \in Nat \ {0}
    PROVE  /\ n \div k \in Int
           /\ k * (n \div k) <= n
           /\ n < k * (n \div k) + k
  OBVIOUS

\* The quotient is the only number with that property.
LEMMA DivisionUnique ==
    ASSUME NEW n \in Int, NEW k \in Nat \ {0}, NEW q \in Int,
           k * q <= n, n < k * q + k
    PROVE  n \div k = q
  <1>1. n \div k \in Int /\ k * (n \div k) <= n /\ n < k * (n \div k) + k
    BY Division
  <1>2. CASE q < n \div k
    <2>1. k * q + k <= k * (n \div k)
      BY <1>1, <1>2
    <2> QED BY <2>1, <1>1
  <1>3. CASE q > n \div k
    BY <1>1, <1>3
  <1> QED BY <1>1, <1>2, <1>3

\* The chunks cover the file, and the last one is needed for that.
LEMMA NumChunksBounds ==
    /\ NumChunks \in Nat \ {0}
    /\ ChunkSize * (NumChunks - 1) < Length
    /\ Length <= ChunkSize * NumChunks
  <1>1. /\ NumChunks \in Int
        /\ ChunkSize * NumChunks <= Length + ChunkSize - 1
        /\ Length + ChunkSize - 1 < ChunkSize * NumChunks + ChunkSize
    BY Division, SizeAssumption DEF NumChunks
  <1>2. Length <= ChunkSize * NumChunks
    BY <1>1, SizeAssumption
  <1>3. NumChunks > 0
    <2>1. CASE NumChunks <= 0
      <3>1. ChunkSize * NumChunks <= 0
        BY <2>1, <1>1, SizeAssumption
      <3> QED BY <3>1, <1>1, <1>2, SizeAssumption
    <2> QED BY <2>1, <1>1
  <1>4. ChunkSize * (NumChunks - 1) = ChunkSize * NumChunks - ChunkSize
    BY <1>1, SizeAssumption
  <1> QED BY <1>1, <1>2, <1>3, <1>4, SizeAssumption

\* Chunk numbers compare as the positions at which the chunks begin do.
LEMMA TimesMonotone ==
    ASSUME NEW a \in Int, NEW b \in Int, NEW k \in Nat \ {0}
    PROVE  a <= b <=> k * a <= k * b
  <1>1. CASE a <= b
    <2>1. b - a \in Nat /\ k * (b - a) >= 0
      BY <1>1
    <2>2. k * (b - a) = k * b - k * a
      OBVIOUS
    <2> QED BY <2>1, <2>2, <1>1
  <1>2. CASE b < a
    <2>1. a - b - 1 \in Nat /\ k * (a - b - 1) >= 0
      BY <1>2
    <2>2. k * (a - b - 1) = k * a - k * b - k
      OBVIOUS
    <2> QED BY <2>1, <2>2, <1>2
  <1> QED BY <1>1, <1>2

\* A response of whole chunks, cut off at the end of the file, completes the
\* chunks begin .. end - 1, in the view of the stream and of the manager.
LEMMA ResponseChunks ==
    ASSUME NEW begin \in Chunks, NEW end \in 1 .. NumChunks,
           NEW stop, stop = Minimum(end * ChunkSize, Length)
    PROVE  /\ RangeChunks(begin * ChunkSize, stop) = begin .. end - 1
           /\ ReceivedChunks(begin * ChunkSize, stop) = begin .. end - 1
           /\ ReceivedEndChunk(stop) = end
           /\ stop \in 1 .. Length
  <1> USE SizeAssumption, NumChunksBounds
  <1>1. (begin * ChunkSize) \div ChunkSize = begin
    BY DivisionUnique DEF Chunks
  <1>2. CASE end * ChunkSize < Length
    <2>1. stop = end * ChunkSize /\ stop < Length
      BY <1>2 DEF Minimum
    <2>2. (stop - 1) \div ChunkSize = end - 1
      <3>1. ChunkSize * (end - 1) <= stop - 1 /\ stop - 1 < ChunkSize * (end - 1) + ChunkSize
        BY <2>1
      <3>2. stop - 1 \in Int /\ end - 1 \in Int
        BY <2>1
      <3> QED BY <3>1, <3>2, DivisionUnique
    <2>3. stop \div ChunkSize = end
      BY <2>1, DivisionUnique
    <2>4. stop >= 1
      BY <2>1
    <2> QED BY <1>1, <2>1, <2>2, <2>3, <2>4 DEF RangeChunks, ReceivedChunks, ReceivedEndChunk
  <1>3. CASE end * ChunkSize >= Length
    <2>1. stop = Length
      BY <1>3 DEF Minimum
    <2>2. end = NumChunks
      <3>1. CASE end <= NumChunks - 1
        <4>1. ChunkSize * end <= ChunkSize * (NumChunks - 1)
          BY <3>1, TimesMonotone
        <4> QED BY <4>1, <1>3
      <3> QED BY <3>1
    <2>3. (stop - 1) \div ChunkSize = end - 1
      <3>1. ChunkSize * (end - 1) <= stop - 1 /\ stop - 1 < ChunkSize * (end - 1) + ChunkSize
        BY <2>1, <2>2
      <3> QED BY <3>1, <2>1, DivisionUnique
    <2>4. ReceivedEndChunk(stop) = end
      BY <2>1, <2>2 DEF ReceivedEndChunk, NumChunks
    <2> QED BY <1>1, <2>1, <2>3, <2>4 DEF RangeChunks, ReceivedChunks
  <1> QED BY <1>2, <1>3 DEF Chunks

\* A response without data completes no chunk.
LEMMA EmptyResponse ==
    ASSUME NEW begin \in Chunks
    PROVE  /\ ReceivedChunks(begin * ChunkSize, begin * ChunkSize) = {}
           /\ ReceivedEndChunk(begin * ChunkSize) = begin
  <1> USE SizeAssumption, NumChunksBounds
  <1>1. (begin * ChunkSize) \div ChunkSize = begin
    BY DivisionUnique DEF Chunks
  <1>2. begin * ChunkSize < Length
    <2>1. ChunkSize * begin <= ChunkSize * (NumChunks - 1)
      BY TimesMonotone DEF Chunks
    <2> QED BY <2>1 DEF Chunks
  <1> QED BY <1>1, <1>2 DEF ReceivedChunks, ReceivedEndChunk, Chunks

\* Both see the same chunks in the progressive data from begin to end.
LEMMA ProgressiveIsReceived ==
    ASSUME NEW begin \in 0 .. Length, NEW end \in 1 .. Length, begin < end
    PROVE  /\ ReceivedChunks(begin, end) = ProgressiveChunks(begin, end)
           /\ ReceivedChunks(begin, end) \subseteq Chunks
           /\ ReceivedEndChunk(end) \in 0 .. NumChunks
  <1> USE SizeAssumption, NumChunksBounds
  <1>1. begin \div ChunkSize \in Nat
    <2>1. begin \div ChunkSize \in Int /\ begin < ChunkSize * (begin \div ChunkSize) + ChunkSize
      BY Division
    <2>2. CASE begin \div ChunkSize <= -1
      <3>1. ChunkSize * (begin \div ChunkSize) <= ChunkSize * (-1)
        BY <2>1, <2>2, TimesMonotone
      <3> QED BY <3>1, <2>1
    <2> QED BY <2>1, <2>2
  <1>2. CASE end = Length
    <2>1. ReceivedEndChunk(end) = NumChunks
      BY <1>2 DEF ReceivedEndChunk, NumChunks
    <2> QED BY <1>1, <1>2, <2>1 DEF ReceivedChunks, ProgressiveChunks, Chunks
  <1>3. CASE end < Length
    <2>1. ReceivedEndChunk(end) = end \div ChunkSize
      BY <1>3 DEF ReceivedEndChunk
    <2>2. end \div ChunkSize \in Int /\ ChunkSize * (end \div ChunkSize) <= end
          /\ end < ChunkSize * (end \div ChunkSize) + ChunkSize
      BY Division
    <2>3. end \div ChunkSize <= NumChunks
      BY <2>2, TimesMonotone
    <2>4. end \div ChunkSize >= 0
      <3>1. CASE end \div ChunkSize <= -1
        <4>1. ChunkSize * (end \div ChunkSize) <= ChunkSize * (-1)
          BY <2>2, <3>1, TimesMonotone
        <4> QED BY <4>1, <2>2
      <3> QED BY <3>1, <2>2
    <2> QED BY <1>1, <1>3, <2>1, <2>2, <2>3, <2>4 DEF ReceivedChunks, ProgressiveChunks, Chunks
  <1> QED BY <1>2, <1>3

------------------------------------------------------------------------------
(* The request tables. onReceiveData changes them in two steps, the second  *)
(* of which is a call of _requestChunks, so their invariant is stated for   *)
(* any tables: those of a state, and those in between.                      *)

TablesTyped(ids, ask, needed, byChunk, promises, prom) ==
    /\ ask \in [ids -> SUBSET Chunks]
    /\ needed \in [ids -> SUBSET Chunks]
    /\ byChunk \in [Chunks -> SUBSET ids]
    /\ promises \subseteq ids
    /\ prom \in [ids -> PromiseStates]

RequestConsistent(id, loaded, ask, needed, byChunk, promises, prom) ==
    /\ needed[id] = ask[id] \ loaded
    /\ \A c \in Chunks : id \in byChunk[c] <=> c \in needed[id]
    /\ prom[id] = "resolved" => ask[id] \subseteq loaded
    /\ prom[id] = "pending" => ~(ask[id] \subseteq loaded)
    /\ needed[id] # {} <=> id \in promises

TablesConsistent(ids, loaded, ask, needed, byChunk, promises, prom) ==
    /\ TablesTyped(ids, ask, needed, byChunk, promises, prom)
    /\ \A id \in ids : RequestConsistent(id, loaded, ask, needed, byChunk, promises, prom)

\* _requestChunks adds a request and leaves the tables consistent with the
\* chunks that are loaded; what it fetches are ranges of chunks of the file.
LEMMA RequestChunksTables ==
    ASSUME currRequestId \in Nat,
           NEW S \in SUBSET Chunks,
           NEW needed, NEW byChunk, NEW promises, NEW settled,
           NEW inFlight \in SUBSET FetchRecords,
           TablesConsistent(Ids, loadedChunks', asked, needed, byChunk, promises, settled),
           RequestChunks(S, needed, byChunk, promises, settled, inFlight)
    PROVE  /\ currRequestId' \in Nat
           /\ TablesConsistent(Ids', loadedChunks', asked', chunksNeeded',
                               requestsByChunk', promisesByRequest', promise')
           /\ fetches' \subseteq FetchRecords
  <1> DEFINE need == S \ loadedChunks'
  <1>1. /\ currRequestId' = currRequestId + 1
        /\ asked' = [i \in 0 .. currRequestId |-> IF i = currRequestId THEN S ELSE asked[i]]
        /\ chunksNeeded' =
              [i \in 0 .. currRequestId |-> IF i = currRequestId THEN need ELSE needed[i]]
        /\ requestsByChunk' = [c \in Chunks |->
              IF c \in need THEN byChunk[c] \cup {currRequestId} ELSE byChunk[c]]
        /\ promisesByRequest' = promises \cup {i \in {currRequestId} : need # {}}
        /\ promise' = [i \in 0 .. currRequestId |-> IF i < currRequestId THEN settled[i]
              ELSE IF need = {} THEN "resolved" ELSE "pending"]
        /\ fetches' = inFlight \cup
              {[req |-> currRequestId, begin |-> g.begin, end |-> g.end] :
                  g \in GroupChunks(NotYetRequested(need, byChunk))}
    BY DEF RequestChunks
  <1>2. Ids' = 0 .. currRequestId /\ Ids' = Ids \cup {currRequestId} /\ currRequestId \notin Ids
    <2>1. currRequestId' = currRequestId + 1
      BY <1>1
    <2>2. Ids' = 0 .. currRequestId
      BY <2>1 DEF Ids
    <2>3. 0 .. currRequestId = Ids \cup {currRequestId} /\ currRequestId \notin Ids
      BY DEF Ids
    <2> QED BY <2>2, <2>3
  <1>3. TablesTyped(Ids', asked', chunksNeeded', requestsByChunk', promisesByRequest', promise')
    <2>1. TablesTyped(Ids, asked, needed, byChunk, promises, settled) /\ need \subseteq Chunks
      BY DEF TablesConsistent
    <2>2. asked' \in [Ids' -> SUBSET Chunks] /\ chunksNeeded' \in [Ids' -> SUBSET Chunks]
      BY <1>1, <1>2, <2>1 DEF TablesTyped
    <2>3. requestsByChunk' \in [Chunks -> SUBSET Ids']
      BY <1>1, <1>2, <2>1 DEF TablesTyped
    <2>4. promisesByRequest' \subseteq Ids'
      BY <1>1, <1>2, <2>1 DEF TablesTyped
    <2>5. promise' \in [Ids' -> PromiseStates]
      BY <1>1, <1>2, <2>1 DEF TablesTyped, PromiseStates, Ids
    <2> QED BY <2>2, <2>3, <2>4, <2>5 DEF TablesTyped
  <1>4. ASSUME NEW id \in Ids'
        PROVE  RequestConsistent(id, loadedChunks', asked', chunksNeeded',
                                 requestsByChunk', promisesByRequest', promise')
    <2>1. CASE id = currRequestId
      <3>1. /\ asked'[id] = S /\ chunksNeeded'[id] = need
            /\ promise'[id] = IF need = {} THEN "resolved" ELSE "pending"
        BY <1>1, <1>2, <2>1
      <3>2. \A c \in Chunks : id \notin byChunk[c]
        BY <1>2, <2>1 DEF TablesConsistent, TablesTyped
      <3>3. id \notin promises
        BY <1>2, <2>1 DEF TablesConsistent, TablesTyped
      <3>4. /\ \A c \in Chunks : id \in requestsByChunk'[c] <=> c \in need
            /\ id \in promisesByRequest' <=> need # {}
        BY <1>1, <2>1, <3>2, <3>3
      <3> QED BY <3>1, <3>4 DEF RequestConsistent
    <2>2. CASE id \in Ids
      <3>1. /\ asked'[id] = asked[id] /\ chunksNeeded'[id] = needed[id]
            /\ promise'[id] = settled[id] /\ id # currRequestId
        BY <1>1, <1>2, <2>2 DEF Ids
      <3>2. RequestConsistent(id, loadedChunks', asked, needed, byChunk, promises, settled)
        BY <2>2 DEF TablesConsistent
      <3>3. /\ \A c \in Chunks : id \in requestsByChunk'[c] <=> id \in byChunk[c]
            /\ id \in promisesByRequest' <=> id \in promises
        BY <1>1, <3>1
      <3> QED BY <3>1, <3>2, <3>3 DEF RequestConsistent
    <2> QED BY <1>2, <2>1, <2>2
  <1>5. fetches' \subseteq FetchRecords
    <2>1. ASSUME NEW g \in GroupChunks(NotYetRequested(need, byChunk))
          PROVE  [req |-> currRequestId, begin |-> g.begin, end |-> g.end] \in FetchRecords
      <3>1. g.begin \in Chunks /\ \E c \in Chunks : g.end = c + 1
        BY DEF GroupChunks, NotYetRequested
      <3> QED BY <3>1, NumChunksBounds DEF FetchRecords, Chunks
    <2> QED BY <1>1, <2>1
  <1>6. currRequestId' \in Nat
    BY <1>1
  <1> QED BY <1>3, <1>4, <1>5, <1>6 DEF TablesConsistent

\* No chunk is in two fetches, and one in a fetch is loaded or waited for.
FetchesSound(loaded, byChunk, inFlight) ==
    \A f \in inFlight :
        /\ \A g \in inFlight : f # g => ChunksOf(f) \cap ChunksOf(g) = {}
        /\ \A chunk \in ChunksOf(f) : chunk \in loaded \/ byChunk[chunk] # {}

\* Two different groups of groupChunks have no chunk in common, and a group
\* consists of chunks that were to be grouped.
LEMMA GroupsDisjoint ==
    ASSUME NEW S \in SUBSET Chunks, NEW g \in GroupChunks(S)
    PROVE  /\ ChunksOf(g) \subseteq S
           /\ \A h \in GroupChunks(S) : g # h => ChunksOf(g) \cap ChunksOf(h) = {}
  <1>1. ASSUME NEW x \in GroupChunks(S)
        PROVE  /\ x \in [begin : S, end : {c + 1 : c \in S}]
               /\ x.begin \in Int /\ x.end \in Int
               /\ x.begin .. x.end - 1 \subseteq S
               /\ x.begin - 1 \notin S /\ x.end \notin S
    <2>1. /\ x \in [begin : S, end : {c + 1 : c \in S}]
          /\ x.begin .. x.end - 1 \subseteq S
          /\ x.begin - 1 \notin S /\ x.end \notin S
      BY DEF GroupChunks
    <2>2. x.begin \in S /\ \E c \in S : x.end = c + 1
      BY <2>1
    <2>3. x.begin \in Int /\ x.end \in Int
      <3>1. S \subseteq Int
        BY DEF Chunks
      <3>2. PICK c \in S : x.end = c + 1
        BY <2>2
      <3>3. c \in Int
        BY <3>1
      <3>4. x.begin \in Int
        BY <2>2, <3>1
      <3>5. x.end \in Int
        BY <3>2, <3>3
      <3> QED BY <3>4, <3>5
    <2> QED BY <2>1, <2>3
  <1>2. ASSUME NEW x \in GroupChunks(S), NEW y \in GroupChunks(S),
               NEW c \in ChunksOf(x) \cap ChunksOf(y)
        PROVE  x.begin <= y.begin /\ x.end <= y.end
    <2>1. c \in Int /\ x.begin <= c /\ c < x.end /\ y.begin <= c /\ c < y.end
      BY <1>1 DEF ChunksOf
    <2>2. CASE y.begin < x.begin
      <3>1. x.begin - 1 \in y.begin .. y.end - 1
        BY <1>1, <2>1, <2>2
      <3> QED BY <1>1, <3>1
    <2>3. CASE y.end < x.end
      <3>1. y.end \in x.begin .. x.end - 1
        BY <1>1, <2>1, <2>3
      <3> QED BY <1>1, <3>1
    <2> QED BY <1>1, <2>2, <2>3
  <1>3. ASSUME NEW h \in GroupChunks(S), NEW c \in ChunksOf(g) \cap ChunksOf(h)
        PROVE  g = h
    <2>1. g.begin = h.begin /\ g.end = h.end
      BY <1>1, <1>2, <1>3
    <2>2. g = [begin |-> g.begin, end |-> g.end] /\ h = [begin |-> h.begin, end |-> h.end]
      BY <1>1
    <2> QED BY <2>1, <2>2
  <1> QED BY <1>1, <1>3 DEF ChunksOf

\* _requestChunks fetches no chunk that is on its way, and none that it does not
\* enter in the tables.
LEMMA RequestChunksFetches ==
    ASSUME NEW S \in SUBSET Chunks,
           NEW needed, NEW byChunk \in [Chunks -> SUBSET Ids], NEW promises, NEW settled,
           NEW inFlight \in SUBSET FetchRecords,
           FetchesSound(loadedChunks', byChunk, inFlight),
           RequestChunks(S, needed, byChunk, promises, settled, inFlight)
    PROVE  FetchesSound(loadedChunks', requestsByChunk', fetches')
  <1> DEFINE need   == S \ loadedChunks'
             groups == GroupChunks(NotYetRequested(need, byChunk))
             Fetch(g) == [req |-> currRequestId, begin |-> g.begin, end |-> g.end]
  <1>1. /\ requestsByChunk' = [c \in Chunks |->
              IF c \in need THEN byChunk[c] \cup {currRequestId} ELSE byChunk[c]]
        /\ fetches' = inFlight \cup {Fetch(g) : g \in groups}
    BY DEF RequestChunks
  <1>2. NotYetRequested(need, byChunk) \in SUBSET Chunks
    BY DEF NotYetRequested
  <1>3. ASSUME NEW g \in groups, NEW c \in ChunksOf(Fetch(g))
        PROVE  c \in ChunksOf(g) /\ c \in need /\ c \in Chunks /\ byChunk[c] = {}
    BY <1>2, GroupsDisjoint DEF NotYetRequested, ChunksOf
  <1>4. ASSUME NEW f \in inFlight, NEW c \in ChunksOf(f)
        PROVE  c \in Chunks /\ (c \in loadedChunks' \/ byChunk[c] # {})
    <2>1. c \in Chunks
      BY NumChunksBounds DEF FetchRecords, ChunksOf, Chunks
    <2> QED BY <2>1 DEF FetchesSound
  <1>5. ASSUME NEW f \in fetches', NEW c \in ChunksOf(f)
        PROVE  c \in loadedChunks' \/ requestsByChunk'[c] # {}
    <2>1. CASE f \in inFlight
      BY <1>1, <1>4, <2>1
    <2>2. CASE \E g \in groups : f = Fetch(g)
      BY <1>1, <1>3, <2>2
    <2> QED BY <1>1, <2>1, <2>2
  <1>6. ASSUME NEW f \in fetches', NEW g \in fetches', f # g
        PROVE  ChunksOf(f) \cap ChunksOf(g) = {}
    <2>1. CASE f \in inFlight /\ g \in inFlight
      BY <1>6, <2>1 DEF FetchesSound
    <2>2. CASE \E h, k \in groups : f = Fetch(h) /\ g = Fetch(k)
      <3>1. PICK h \in groups, k \in groups : f = Fetch(h) /\ g = Fetch(k)
        BY <2>2
      <3>2. h # k
        BY <1>6, <3>1
      <3> QED BY <1>2, <3>1, <3>2, GroupsDisjoint DEF ChunksOf
    <2>3. ASSUME NEW x \in inFlight, NEW h \in groups
          PROVE  ChunksOf(x) \cap ChunksOf(Fetch(h)) = {}
      BY <1>3, <1>4
    <2> QED BY <1>1, <2>1, <2>2, <2>3
  <1> QED BY <1>5, <1>6 DEF FetchesSound

\* onReceiveData settles the requests that have got their last chunk, and no
\* other, before it calls _requestChunks.
LEMMA ReceivedTables ==
    ASSUME NEW C \in SUBSET Chunks,
           TablesConsistent(Ids, loadedChunks, asked, chunksNeeded,
                            requestsByChunk, promisesByRequest, promise),
           loadedChunks' = loadedChunks \cup C
    PROVE  /\ TablesConsistent(Ids, loadedChunks', asked, NeededWithout(C),
                  ByChunkWithout(C), promisesByRequest \ CompletedBy(C), SettledBy(C))
           /\ \A i \in Ids : SettledBy(C)[i] =
                  IF promise[i] = "pending" /\ asked[i] \subseteq loadedChunks'
                  THEN "resolved" ELSE promise[i]
  <1>1. TablesTyped(Ids, asked, chunksNeeded, requestsByChunk, promisesByRequest, promise)
    BY DEF TablesConsistent
  <1>2. TablesTyped(Ids, asked, NeededWithout(C), ByChunkWithout(C),
                    promisesByRequest \ CompletedBy(C), SettledBy(C))
    <2>1. NeededWithout(C) \in [Ids -> SUBSET Chunks]
      BY <1>1 DEF TablesTyped, NeededWithout
    <2>2. ByChunkWithout(C) \in [Chunks -> SUBSET Ids]
      BY <1>1 DEF TablesTyped, ByChunkWithout
    <2>3. SettledBy(C) \in [Ids -> PromiseStates]
      BY <1>1 DEF TablesTyped, SettledBy, PromiseStates
    <2> QED BY <1>1, <2>1, <2>2, <2>3 DEF TablesTyped
  <1>3. ASSUME NEW i \in Ids
        PROVE  /\ RequestConsistent(i, loadedChunks', asked, NeededWithout(C),
                      ByChunkWithout(C), promisesByRequest \ CompletedBy(C), SettledBy(C))
               /\ SettledBy(C)[i] =
                      IF promise[i] = "pending" /\ asked[i] \subseteq loadedChunks'
                      THEN "resolved" ELSE promise[i]
    <2>1. /\ chunksNeeded[i] = asked[i] \ loadedChunks
          /\ \A c \in Chunks : i \in requestsByChunk[c] <=> c \in chunksNeeded[i]
          /\ promise[i] = "resolved" => asked[i] \subseteq loadedChunks
          /\ promise[i] = "pending" => ~(asked[i] \subseteq loadedChunks)
          /\ chunksNeeded[i] # {} <=> i \in promisesByRequest
      BY DEF TablesConsistent, RequestConsistent
    <2>2. asked[i] \subseteq Chunks /\ promise[i] \in PromiseStates
      BY <1>1 DEF TablesTyped
    <2>3. NeededWithout(C)[i] = asked[i] \ loadedChunks'
      BY <2>1, <2>2 DEF NeededWithout
    <2>4. \A c \in Chunks : i \in ByChunkWithout(C)[c] <=> c \in NeededWithout(C)[i]
      <3>1. ASSUME NEW c \in Chunks
            PROVE  i \in ByChunkWithout(C)[c] <=> c \notin C /\ i \in requestsByChunk[c]
        BY <3>1 DEF ByChunkWithout
      <3> QED BY <2>1, <2>3, <3>1
    <2>5. i \in CompletedBy(C) <=> chunksNeeded[i] # {} /\ NeededWithout(C)[i] = {}
      <3>1. (\E c \in C : i \in requestsByChunk[c]) <=> C \cap chunksNeeded[i] # {}
        BY <2>1
      <3>2. NeededWithout(C)[i] = chunksNeeded[i] \ C
        BY <2>1, <2>3
      <3> QED BY <3>1, <3>2 DEF CompletedBy
    <2>6. SettledBy(C)[i] = IF promise[i] = "pending" /\ asked[i] \subseteq loadedChunks'
                            THEN "resolved" ELSE promise[i]
      <3>1. SettledBy(C)[i] = IF i \in CompletedBy(C) /\ promise[i] = "pending"
                              THEN "resolved" ELSE promise[i]
        BY DEF SettledBy
      <3> QED BY <2>1, <2>3, <2>5, <3>1
    <2>7. NeededWithout(C)[i] # {} <=> i \in promisesByRequest \ CompletedBy(C)
      BY <2>1, <2>3, <2>5
    <2> QED BY <2>1, <2>3, <2>4, <2>6, <2>7 DEF RequestConsistent
  <1> QED BY <1>2, <1>3 DEF TablesConsistent

\* What is fetched without being asked for is a chunk of the file.
LEMMA AutoFetchInFile ==
    ASSUME NEW byChunk, NEW loaded, NEW endChunk \in Nat
    PROVE  AutoFetch(byChunk, loaded, endChunk) \subseteq Chunks
  <1>1. \A i \in Nat : (endChunk + i) % NumChunks \in Chunks
    BY NumChunksBounds DEF Chunks
  <1>2. NextEmptyChunk(loaded, endChunk) \subseteq Chunks
    <2>1. 0 .. NumChunks - 1 \subseteq Nat
      OBVIOUS
    <2> QED BY <1>1, <2>1 DEF NextEmptyChunk
  <1>3. NumChunks - 1 \in Chunks
    BY NumChunksBounds DEF Chunks
  <1> QED BY <1>2, <1>3 DEF AutoFetch, AutoFetchChunk

------------------------------------------------------------------------------
(* The inductive invariant.                                                 *)

\* The progressive data fills the buffer from its beginning without a gap.
PrefixWritten == 0 .. progressiveDataLength - 1 \subseteq bytes

\* The tables and the fetches depend on each other: a chunk that is being
\* fetched is one the tables name, and what the tables say about a request
\* decides what its caller is told.
RequestInv ==
    /\ currRequestId \in Nat
    /\ fetches \subseteq FetchRecords
    /\ TablesConsistent(Ids, loadedChunks, asked, chunksNeeded, requestsByChunk,
                        promisesByRequest, promise)
    /\ FetchesSound(loadedChunks, requestsByChunk, fetches)

StreamInv ==
    /\ bytes \subseteq Positions
    /\ loadedChunks \subseteq Chunks
    /\ progressiveDataLength \in 0 .. Length
    /\ arrived \in progressiveDataLength .. Length
    /\ aborted \in BOOLEAN
    /\ PrefixWritten
    /\ LoadedIsWritten

IInv ==
    /\ StreamInv
    /\ RequestInv
    /\ loadedStream \in {"pending", "resolved"}
    /\ LoadedStreamOnTime

\* isDataLoaded counts chunks; that decides whether all of them are there.
LEMMA AllLoaded ==
    ASSUME NEW S \in SUBSET Chunks
    PROVE  Cardinality(S) = NumChunks <=> S = Chunks
  <1>1. IsFiniteSet(Chunks) /\ Cardinality(Chunks) = NumChunks
    BY FS_Interval, NumChunksBounds DEF Chunks
  <1> QED BY <1>1, FS_Subset

\* What onReceiveData does to the requests.
LEMMA ReceivedRequests ==
    ASSUME RequestInv, loadedChunks \subseteq Chunks,
           NEW begin, NEW end, NEW inFlight \in SUBSET fetches,
           ReceivedChunks(begin, end) \subseteq Chunks,
           ReceivedEndChunk(end) \in Nat,
           loadedChunks' = loadedChunks \cup ReceivedChunks(begin, end),
           Received(begin, end, inFlight)
    PROVE  RequestInv'
  <1> DEFINE C    == ReceivedChunks(begin, end)
             left == promisesByRequest \ CompletedBy(C)
             auto == AutoFetch(ByChunkWithout(C), loadedChunks', ReceivedEndChunk(end))
  <1>1. TablesConsistent(Ids, loadedChunks', asked, NeededWithout(C), ByChunkWithout(C),
                         left, SettledBy(C))
    BY ReceivedTables DEF RequestInv
  <1>2. inFlight \in SUBSET FetchRecords
    BY DEF RequestInv
  <1>3. FetchesSound(loadedChunks', ByChunkWithout(C), inFlight)
    <2>1. ASSUME NEW f \in inFlight, NEW c \in ChunksOf(f)
          PROVE  c \in loadedChunks' \/ ByChunkWithout(C)[c] # {}
      <3>1. c \in loadedChunks \/ requestsByChunk[c] # {}
        BY DEF RequestInv, FetchesSound
      <3>2. c \in Chunks
        BY <1>2, NumChunksBounds DEF FetchRecords, ChunksOf, Chunks
      <3> QED BY <3>1, <3>2 DEF ByChunkWithout
    <2> QED BY <2>1 DEF RequestInv, FetchesSound
  <1>4. CASE auto # {}
    <2>1. RequestChunks(auto, NeededWithout(C), ByChunkWithout(C), left, SettledBy(C), inFlight)
      BY <1>4 DEF Received
    <2>2. auto \in SUBSET Chunks
      BY AutoFetchInFile
    <2>3. /\ currRequestId' \in Nat
          /\ TablesConsistent(Ids', loadedChunks', asked', chunksNeeded',
                              requestsByChunk', promisesByRequest', promise')
          /\ fetches' \subseteq FetchRecords
      BY <1>1, <1>2, <2>1, <2>2, RequestChunksTables DEF RequestInv
    <2>4. FetchesSound(loadedChunks', requestsByChunk', fetches')
      <3>1. ByChunkWithout(C) \in [Chunks -> SUBSET Ids]
        BY <1>1 DEF TablesConsistent, TablesTyped
      <3> QED BY <1>2, <1>3, <2>1, <2>2, <3>1, RequestChunksFetches
    <2> QED BY <2>3, <2>4 DEF RequestInv
  <1>5. CASE auto = {}
    <2>1. /\ chunksNeeded' = NeededWithout(C)
          /\ requestsByChunk' = ByChunkWithout(C)
          /\ promisesByRequest' = left
          /\ promise' = SettledBy(C)
          /\ fetches' = inFlight
          /\ currRequestId' = currRequestId
          /\ asked' = asked
          /\ Ids' = Ids
      BY <1>5 DEF Received, Ids
    <2> QED BY <1>1, <1>2, <1>3, <2>1 DEF RequestInv
  <1> QED BY <1>4, <1>5

\* ... and to the promise of requestLoadedStream.
LEMMA ReceivedLoadedStream ==
    ASSUME loadedStream \in {"pending", "resolved"}, LoadedStreamOnTime,
           loadedChunks \subseteq Chunks,
           NEW begin, NEW end, NEW inFlight,
           ReceivedChunks(begin, end) \subseteq Chunks,
           loadedChunks' = loadedChunks \cup ReceivedChunks(begin, end),
           Received(begin, end, inFlight)
    PROVE  loadedStream' \in {"pending", "resolved"} /\ LoadedStreamOnTime'
  <1>1. IsDataLoaded' <=> loadedChunks' = Chunks
    BY AllLoaded DEF IsDataLoaded
  <1>2. loadedChunks = Chunks => loadedChunks' = Chunks
    OBVIOUS
  <1>3. loadedStream' = IF IsDataLoaded' THEN "resolved" ELSE loadedStream
    BY DEF Received
  <1> QED BY <1>1, <1>2, <1>3 DEF LoadedStreamOnTime

\* A call from outside changes nothing but the requests.
LEMMA CallPreserves ==
    ASSUME IInv, NEW S \in SUBSET Chunks, CallRequestChunks(S)
    PROVE  IInv'
  <1>1. /\ UNCHANGED <<streamVars, aborted, loadedStream, arrived>>
        /\ RequestChunks(S, chunksNeeded, requestsByChunk, promisesByRequest, promise, fetches)
    BY DEF CallRequestChunks
  <1>2. StreamInv' /\ (loadedStream \in {"pending", "resolved"})' /\ LoadedStreamOnTime'
    BY <1>1 DEF IInv, StreamInv, streamVars, PrefixWritten, LoadedIsWritten, LoadedStreamOnTime
  <1>3. RequestInv'
    <2>1. loadedChunks' = loadedChunks
      BY <1>1 DEF streamVars
    <2>2. /\ currRequestId \in Nat
          /\ fetches \in SUBSET FetchRecords
          /\ requestsByChunk \in [Chunks -> SUBSET Ids]
          /\ TablesConsistent(Ids, loadedChunks', asked, chunksNeeded, requestsByChunk,
                              promisesByRequest, promise)
          /\ FetchesSound(loadedChunks', requestsByChunk, fetches)
      BY <2>1 DEF IInv, RequestInv, TablesConsistent, TablesTyped
    <2>3. /\ currRequestId' \in Nat
          /\ TablesConsistent(Ids', loadedChunks', asked', chunksNeeded',
                              requestsByChunk', promisesByRequest', promise')
          /\ fetches' \subseteq FetchRecords
      BY <1>1, <2>2, RequestChunksTables
    <2>4. FetchesSound(loadedChunks', requestsByChunk', fetches')
      BY <1>1, <2>2, RequestChunksFetches
    <2> QED BY <2>3, <2>4 DEF RequestInv
  <1> QED BY <1>2, <1>3 DEF IInv

\* The data of a range response makes whole chunks readable, and only those.
LEMMA FetchDonePreserves ==
    ASSUME IInv, NEW fetch \in fetches, FetchDone(fetch)
    PROVE  IInv'
  <1> DEFINE start == fetch.begin * ChunkSize
  <1>1. fetch \in FetchRecords /\ fetch.begin \in Chunks /\ fetch.end \in 1 .. NumChunks
    BY DEF IInv, RequestInv, FetchRecords
  <1>2. PICK stop \in ResponseEnds(fetch) :
            /\ StreamReceiveData(start, stop)
            /\ Received(start, stop, fetches \ {fetch})
    BY DEF FetchDone
  <1>3. PICK e \in 1 .. NumChunks : stop = Minimum(e * ChunkSize, Length)
    BY <1>1, NumChunksBounds DEF ResponseEnds
  <1>4. /\ RangeChunks(start, stop) = fetch.begin .. e - 1
        /\ ReceivedChunks(start, stop) = fetch.begin .. e - 1
        /\ ReceivedEndChunk(stop) = e
        /\ stop \in 1 .. Length
    BY <1>1, <1>3, ResponseChunks
  <1>5. /\ bytes' = bytes \cup (start .. stop - 1)
        /\ loadedChunks' = loadedChunks \cup (fetch.begin .. e - 1)
        /\ UNCHANGED <<progressiveDataLength, aborted, arrived>>
    BY <1>2, <1>4 DEF StreamReceiveData, FetchDone
  <1>6. fetch.begin .. e - 1 \subseteq Chunks
    BY <1>1, NumChunksBounds DEF Chunks
  <1>7. RequestInv' /\ (loadedStream \in {"pending", "resolved"})' /\ LoadedStreamOnTime'
    <2>1. loadedChunks \subseteq Chunks /\ ReceivedEndChunk(stop) \in Nat
      BY <1>4 DEF IInv, StreamInv
    <2>2. /\ ReceivedChunks(start, stop) \subseteq Chunks
          /\ loadedChunks' = loadedChunks \cup ReceivedChunks(start, stop)
      BY <1>4, <1>5, <1>6
    <2>3. RequestInv'
      BY <1>2, <2>1, <2>2, ReceivedRequests DEF IInv
    <2>4. (loadedStream \in {"pending", "resolved"})' /\ LoadedStreamOnTime'
      BY <1>2, <2>1, <2>2, ReceivedLoadedStream DEF IInv
    <2> QED BY <2>3, <2>4
  <1>8. start \in Nat
    BY <1>1, SizeAssumption DEF Chunks
  <1>9. LoadedIsWritten'
    <2>1. ASSUME NEW c \in fetch.begin .. e - 1, NEW p \in BytesOf(c)
          PROVE  p \in start .. stop - 1
      <3>1. p \in Nat /\ p < Length /\ c * ChunkSize <= p /\ p < (c + 1) * ChunkSize
        BY SizeAssumption DEF BytesOf, Positions
      <3>2. start <= c * ChunkSize
        BY <1>1, SizeAssumption, TimesMonotone DEF Chunks
      <3>3. (c + 1) * ChunkSize <= e * ChunkSize
        BY <1>1, <1>3, SizeAssumption, TimesMonotone DEF Chunks
      <3>4. p < stop
        BY <1>3, <3>1, <3>3, SizeAssumption DEF Minimum
      <3> QED BY <1>4, <1>8, <3>1, <3>2, <3>4, SizeAssumption DEF Chunks
    <2> QED BY <1>5, <2>1 DEF IInv, StreamInv, LoadedIsWritten, BytesOf
  <1>10. StreamInv'
    <2>1. start .. stop - 1 \subseteq Positions
      BY <1>4, <1>8, SizeAssumption DEF Positions
    <2> QED BY <1>5, <1>6, <1>9, <2>1 DEF IInv, StreamInv, PrefixWritten
  <1> QED BY <1>7, <1>10 DEF IInv

\* A range reader that ends without data changes no table.
LEMMA FetchSkippedPreserves ==
    ASSUME IInv, NEW fetch \in fetches, FetchSkipped(fetch)
    PROVE  IInv'
  <1> DEFINE start == fetch.begin * ChunkSize
  <1>1. fetch.begin \in Chunks
    BY DEF IInv, RequestInv, FetchRecords
  <1>2. /\ Received(start, start, fetches \ {fetch})
        /\ UNCHANGED <<streamVars, aborted, arrived>>
    BY DEF FetchSkipped
  <1>3. ReceivedChunks(start, start) = {} /\ ReceivedEndChunk(start) \in Nat
    BY <1>1, EmptyResponse DEF Chunks
  <1>4. RequestInv' /\ (loadedStream \in {"pending", "resolved"})' /\ LoadedStreamOnTime'
    <2>1. loadedChunks \subseteq Chunks /\ loadedChunks' = loadedChunks \cup ReceivedChunks(start, start)
      BY <1>2, <1>3 DEF IInv, StreamInv, streamVars
    <2> QED BY <1>2, <1>3, <2>1, ReceivedRequests, ReceivedLoadedStream DEF IInv
  <1>5. StreamInv'
    BY <1>2 DEF IInv, StreamInv, streamVars, PrefixWritten, LoadedIsWritten
  <1> QED BY <1>4, <1>5 DEF IInv

\* Progressive data of any length: a chunk it completes may have been begun by
\* earlier progressive data.
LEMMA ProgressiveDataPreserves ==
    ASSUME IInv, NEW end \in 1 .. Length, ProgressiveData(end)
    PROVE  IInv'
  <1> DEFINE begin == progressiveDataLength
             C     == ReceivedChunks(begin, end)
  <1>1. /\ begin < end /\ end <= arrived
        /\ bytes' = bytes \cup (begin .. end - 1)
        /\ loadedChunks' = loadedChunks \cup ProgressiveChunks(begin, end)
        /\ progressiveDataLength' = end
        /\ Received(begin, end, fetches)
        /\ UNCHANGED <<aborted, arrived>>
    BY DEF ProgressiveData, StreamReceiveProgressiveData
  <1>2. begin \in 0 .. Length
    BY DEF IInv, StreamInv
  <1>3. /\ C = ProgressiveChunks(begin, end)
        /\ C \subseteq Chunks
        /\ ReceivedEndChunk(end) \in Nat
    BY <1>1, <1>2, ProgressiveIsReceived
  <1>4. RequestInv' /\ (loadedStream \in {"pending", "resolved"})' /\ LoadedStreamOnTime'
    <2>1. loadedChunks \subseteq Chunks /\ loadedChunks' = loadedChunks \cup C
      BY <1>1, <1>3 DEF IInv, StreamInv
    <2> QED BY <1>1, <1>3, <2>1, ReceivedRequests, ReceivedLoadedStream DEF IInv
  <1>5. PrefixWritten'
    BY <1>1, <1>2 DEF IInv, StreamInv, PrefixWritten
  <1>6. LoadedIsWritten'
    <2>1. ASSUME NEW c \in C, NEW p \in BytesOf(c)
          PROVE  p < end
      <3>1. c \in Chunks /\ p \in Nat /\ p < Length /\ p < (c + 1) * ChunkSize
        BY <1>3, SizeAssumption DEF BytesOf, Positions
      <3>2. CASE end = Length
        BY <3>1, <3>2
      <3>3. CASE end < Length
        <4>1. c + 1 <= end \div ChunkSize /\ end \div ChunkSize \in Int
          BY <1>3, <3>1, <3>3, Division, SizeAssumption DEF ProgressiveChunks, Chunks
        <4>2. ChunkSize * (c + 1) <= ChunkSize * (end \div ChunkSize)
          BY <3>1, <4>1, SizeAssumption, TimesMonotone DEF Chunks
        <4>3. ChunkSize * (end \div ChunkSize) <= end
          BY Division, SizeAssumption
        <4>4. (c + 1) * ChunkSize = ChunkSize * (c + 1)
          BY <3>1, SizeAssumption DEF Chunks
        <4>5. p < ChunkSize * (c + 1) /\ ChunkSize * (c + 1) \in Int
          BY <3>1, <4>4, SizeAssumption DEF Chunks
        <4> QED BY <3>1, <4>1, <4>2, <4>3, <4>5, SizeAssumption
      <3> QED BY <3>2, <3>3, SizeAssumption
    <2>2. ASSUME NEW c \in C, NEW p \in BytesOf(c)
          PROVE  p \in bytes'
      BY <1>1, <1>2, <1>5, <2>1, <2>2 DEF PrefixWritten, BytesOf, Positions
    <2> QED BY <1>1, <1>3, <2>2 DEF IInv, StreamInv, LoadedIsWritten, BytesOf
  <1>7. StreamInv'
    <2>1. begin .. end - 1 \subseteq Positions
      BY <1>2, SizeAssumption DEF Positions
    <2>2. end \in 0 .. Length /\ arrived' \in end .. Length
      BY <1>1, <1>2 DEF IInv, StreamInv
    <2> QED BY <1>1, <1>3, <1>5, <1>6, <2>1, <2>2 DEF IInv, StreamInv
  <1> QED BY <1>4, <1>7 DEF IInv

\* A range is cut off at the end of the file before it is divided into chunks.
LEMMA RequestedInFile ==
    ASSUME NEW begin \in Nat, NEW end \in Nat \ {0}
    PROVE  RangeRequested(begin, end) \subseteq Chunks
  <1> DEFINE stop == Minimum(end, Length)
  <1> USE SizeAssumption, NumChunksBounds
  <1>1. stop \in 1 .. Length
    BY DEF Minimum
  <1>2. begin \div ChunkSize \in Int /\ begin < ChunkSize * (begin \div ChunkSize) + ChunkSize
    BY Division
  <1>3. begin \div ChunkSize >= 0
    <2>1. CASE begin \div ChunkSize <= -1
      <3>1. ChunkSize * (begin \div ChunkSize) <= ChunkSize * (-1)
        BY <1>2, <2>1, TimesMonotone
      <3> QED BY <3>1, <1>2
    <2> QED BY <2>1, <1>2
  <1> HIDE DEF stop
  <1>4. (stop - 1) \div ChunkSize \in Int /\ ChunkSize * ((stop - 1) \div ChunkSize) <= stop - 1
    BY <1>1, Division
  <1>5. (stop - 1) \div ChunkSize < NumChunks
    <2>1. CASE NumChunks <= (stop - 1) \div ChunkSize
      <3>1. ChunkSize * NumChunks <= ChunkSize * ((stop - 1) \div ChunkSize)
        BY <1>4, <2>1, TimesMonotone
      <3> QED BY <3>1, <1>1, <1>4
    <2> QED BY <2>1, <1>4
  <1> QED BY <1>2, <1>3, <1>4, <1>5 DEF RangeRequested, GetBeginChunk, GetEndChunk, Chunks, stop

\* The steps that end a fetch without data, and the steps of the environment,
\* only tell callers that their request has failed.
LEMMA RejectPreserves ==
    ASSUME IInv, NEW ids, NEW outcome \in {"rejected", "ignored"}, Reject(ids, outcome),
           fetches' \subseteq fetches, aborted' \in BOOLEAN,
           UNCHANGED <<streamVars, currRequestId, asked, chunksNeeded, requestsByChunk,
                       promisesByRequest, loadedStream, arrived>>
    PROVE  IInv'
  <1>1. /\ Ids' = Ids
        /\ UNCHANGED <<bytes, loadedChunks, progressiveDataLength, currRequestId, asked,
                       chunksNeeded, requestsByChunk, promisesByRequest, loadedStream, arrived>>
    BY DEF streamVars, Ids
  <1>2. promise' = [i \in Ids |->
            IF i \in ids /\ promise[i] = "pending" THEN outcome ELSE promise[i]]
    BY DEF Reject
  <1>3. TablesTyped(Ids, asked, chunksNeeded, requestsByChunk, promisesByRequest, promise')
    BY <1>2 DEF IInv, RequestInv, TablesConsistent, TablesTyped, PromiseStates
  <1>4. ASSUME NEW i \in Ids
        PROVE  RequestConsistent(i, loadedChunks, asked, chunksNeeded, requestsByChunk,
                                 promisesByRequest, promise')
    <2>1. RequestConsistent(i, loadedChunks, asked, chunksNeeded, requestsByChunk,
                            promisesByRequest, promise)
      BY DEF IInv, RequestInv, TablesConsistent
    <2>2. promise'[i] \in {"resolved", "pending"} => promise'[i] = promise[i]
      BY <1>2
    <2> QED BY <2>1, <2>2 DEF RequestConsistent
  <1>5. RequestInv'
    <2>1. TablesConsistent(Ids', loadedChunks', asked', chunksNeeded', requestsByChunk',
                           promisesByRequest', promise')
      BY <1>1, <1>3, <1>4 DEF TablesConsistent
    <2>2. currRequestId' \in Nat /\ fetches' \subseteq FetchRecords
          /\ FetchesSound(loadedChunks', requestsByChunk', fetches')
      BY <1>1 DEF IInv, RequestInv, FetchesSound
    <2> QED BY <2>1, <2>2 DEF RequestInv
  <1>6. StreamInv' /\ LoadedStreamOnTime'
    BY <1>1 DEF IInv, StreamInv, PrefixWritten, LoadedIsWritten, LoadedStreamOnTime
  <1> QED BY <1>1, <1>5, <1>6 DEF IInv

\* A step that leaves the requests and the stream alone.
LEMMA QuietPreserves ==
    ASSUME IInv, fetches' \subseteq fetches,
           arrived' \in progressiveDataLength .. Length, aborted' \in BOOLEAN,
           UNCHANGED <<streamVars, currRequestId, asked, chunksNeeded, requestsByChunk,
                       promisesByRequest, promise, loadedStream>>
    PROVE  IInv'
  <1>1. /\ Ids' = Ids
        /\ UNCHANGED <<bytes, loadedChunks, progressiveDataLength, currRequestId, asked,
                       chunksNeeded, requestsByChunk, promisesByRequest, promise, loadedStream>>
    BY DEF streamVars, Ids
  <1>2. RequestInv'
    <2>1. TablesConsistent(Ids', loadedChunks', asked', chunksNeeded', requestsByChunk',
                           promisesByRequest', promise')
      BY <1>1 DEF IInv, RequestInv
    <2>2. currRequestId' \in Nat /\ fetches' \subseteq FetchRecords
          /\ FetchesSound(loadedChunks', requestsByChunk', fetches')
      BY <1>1 DEF IInv, RequestInv, FetchesSound
    <2> QED BY <2>1, <2>2 DEF RequestInv
  <1>3. StreamInv' /\ LoadedStreamOnTime'
    BY <1>1 DEF IInv, StreamInv, PrefixWritten, LoadedIsWritten, LoadedStreamOnTime
  <1> QED BY <1>1, <1>2, <1>3 DEF IInv

\* The invariant holds of a manager that has just been made ...
LEMMA InitIInv == Init => IInv
  <1> SUFFICES ASSUME Init PROVE IInv
    OBVIOUS
  <1> USE DEF Init, StreamInit
  <1>1. Ids = {}
    BY DEF Ids
  <1>2. StreamInv
    <2>1. 0 .. progressiveDataLength - 1 = {} /\ arrived \in 0 .. Length
      BY SizeAssumption
    <2> QED BY <2>1 DEF StreamInv, PrefixWritten, LoadedIsWritten
  <1>3. RequestInv
    BY <1>1 DEF RequestInv, TablesConsistent, TablesTyped, FetchesSound
  <1>4. LoadedStreamOnTime
    BY NumChunksBounds DEF LoadedStreamOnTime, Chunks
  <1> QED BY <1>2, <1>3, <1>4 DEF IInv

\* ... and is kept by each of its operations and by the network.
LEMMA NextIInv == IInv /\ [Next]_vars => IInv'
  <1> SUFFICES ASSUME IInv, [Next]_vars PROVE IInv'
    OBVIOUS
  <1>1. CASE Call
    <2>1. CASE RequestAllChunks
      BY <2>1, CallPreserves DEF RequestAllChunks, MissingChunks
    <2>2. CASE \E begin, end \in 0 .. Length : begin < end /\ RequestRange(begin, end)
      <3>1. PICK begin \in 0 .. Length, end \in 0 .. Length :
                begin < end /\ RequestRange(begin, end)
        BY <2>2
      <3>2. RangeRequested(begin, end) \subseteq Chunks
        BY <3>1, RequestedInFile, SizeAssumption
      <3> QED BY <3>1, <3>2, CallPreserves DEF RequestRange
    <2> QED BY <1>1, <2>1, <2>2 DEF Call
  <1>2. ASSUME NEW fetch \in fetches, FetchDone(fetch)
        PROVE  IInv'
    BY <1>2, FetchDonePreserves
  <1>3. ASSUME NEW fetch \in fetches, FetchSkipped(fetch)
        PROVE  IInv'
    BY <1>3, FetchSkippedPreserves
  <1>4. ASSUME NEW fetch \in fetches, FetchIgnored(fetch)
        PROVE  IInv'
    BY <1>4, QuietPreserves DEF FetchIgnored, IInv, StreamInv
  <1>5. ASSUME NEW fetch \in fetches, FetchFailed(fetch)
        PROVE  IInv'
    BY <1>5, RejectPreserves DEF FetchFailed, IInv, StreamInv
  <1>6. ASSUME NEW end \in 1 .. Length, Arrive(end)
        PROVE  IInv'
    <2>1. arrived' \in progressiveDataLength .. Length
      BY <1>6 DEF Arrive, IInv, StreamInv
    <2> QED BY <1>6, <2>1, QuietPreserves DEF Arrive, IInv, StreamInv
  <1>7. ASSUME NEW end \in 1 .. Length, ProgressiveData(end)
        PROVE  IInv'
    BY <1>7, ProgressiveDataPreserves
  <1>8. CASE Abort
    BY <1>8, RejectPreserves DEF Abort
  <1>9. CASE UNCHANGED vars
    BY <1>9, QuietPreserves DEF vars, managerVars, IInv, StreamInv
  <1> QED BY <1>1, <1>2, <1>3, <1>4, <1>5, <1>6, <1>7, <1>8, <1>9 DEF Next, FetchEnds

\* So it holds in every state of every behaviour.
LEMMA Invariance == Spec => []IInv
  BY InitIInv, NextIInv, PTL DEF Spec

------------------------------------------------------------------------------
(* What follows from it.                                                    *)

\* Every variable keeps its type: whatever arrives and is asked for, the tables
\* name only chunks of the file and requests that were made.
THEOREM TypeCorrect == Spec => []TypeOK
  <1>1. IInv => TypeOK
    BY DEF IInv, StreamInv, RequestInv, TablesConsistent, TablesTyped, TypeOK
  <1> QED BY <1>1, Invariance, PTL

\* A chunk that a parser may read has been written completely, whatever mix of
\* range responses and progressive data of any length brought its bytes.
THEOREM LoadedChunksAreWritten == Spec => []LoadedIsWritten
  <1>1. IInv => LoadedIsWritten
    BY DEF IInv, StreamInv
  <1> QED BY <1>1, Invariance, PTL

\* A request is listed under exactly the chunks it asked for that are missing.
THEOREM TablesAlwaysAgree == Spec => []TablesAgree
  <1>1. IInv => TablesAgree
    BY DEF IInv, RequestInv, TablesConsistent, RequestConsistent, TablesAgree
  <1> QED BY <1>1, Invariance, PTL

\* A caller is told that its data is there if and only if it is, unless its
\* request has failed or the worker was terminated before.
THEOREM PromisesAreKept == Spec => []PromisesTellTheTruth
  <1>1. IInv => PromisesTellTheTruth
    BY DEF IInv, RequestInv, TablesConsistent, RequestConsistent, PromisesTellTheTruth
  <1> QED BY <1>1, Invariance, PTL

\* No chunk is on its way twice, however the requests overlap.
THEOREM FetchedOnce == Spec => []NoDoubleFetch
  <1>1. IInv => NoDoubleFetch
    BY DEF IInv, RequestInv, FetchesSound, NoDoubleFetch
  <1> QED BY <1>1, Invariance, PTL

\* requestLoadedStream is resolved by the very data that completes the file.
THEOREM LoadedStreamIsOnTime == Spec => []LoadedStreamOnTime
  <1>1. IInv => LoadedStreamOnTime
    BY DEF IInv
  <1> QED BY <1>1, Invariance, PTL

------------------------------------------------------------------------------
(* The manager implements the ChunkLoader.                                  *)

\* A request that waits has a chunk missing, so a step that loads nothing
\* answers nobody.
LEMMA NothingNew ==
    ASSUME IInv, loadedChunks' = loadedChunks
    PROVE  \A i \in Ids : Loader!AnswerNow(i) = promise[i]
  BY DEF IInv, RequestInv, TablesConsistent, RequestConsistent, Loader!AnswerNow

\* _requestChunks is a new request of the loader.
LEMMA RequestIsNewRequest ==
    ASSUME IInv, NEW S \in SUBSET Chunks,
           NEW needed, NEW byChunk, NEW promises, NEW settled, NEW inFlight,
           \A i \in Ids : settled[i] = Loader!AnswerNow(i),
           RequestChunks(S, needed, byChunk, promises, settled, inFlight)
    PROVE  Loader!NewRequest
  <1>1. /\ currRequestId' = currRequestId + 1
        /\ asked' = [i \in 0 .. currRequestId |-> IF i = currRequestId THEN S ELSE asked[i]]
        /\ promise' = [i \in 0 .. currRequestId |-> IF i < currRequestId THEN settled[i]
              ELSE IF S \ loadedChunks' = {} THEN "resolved" ELSE "pending"]
    BY DEF RequestChunks
  <1>2. promise' = [i \in 0 .. currRequestId |->
            IF i = currRequestId
            THEN (IF S \subseteq loadedChunks' THEN "resolved" ELSE "pending")
            ELSE Loader!AnswerNow(i)]
    <2>1. currRequestId \in Nat
      BY DEF IInv, RequestInv
    <2>2. ASSUME NEW i \in 0 .. currRequestId
          PROVE  promise'[i] = IF i = currRequestId
                     THEN (IF S \subseteq loadedChunks' THEN "resolved" ELSE "pending")
                     ELSE Loader!AnswerNow(i)
      <3>1. CASE i = currRequestId
        <4>1. promise'[i] = IF S \ loadedChunks' = {} THEN "resolved" ELSE "pending"
          BY <1>1, <2>1, <3>1
        <4> QED BY <3>1, <4>1
      <3>2. CASE i # currRequestId
        <4>1. i \in Ids /\ i < currRequestId
          BY <2>1, <3>2 DEF Ids
        <4> QED BY <1>1, <3>2, <4>1
      <3> QED BY <3>1, <3>2
    <2> QED BY <1>1, <2>2
  <1> QED BY <1>1, <1>2 DEF Loader!NewRequest

\* onReceiveData loads chunks and answers those who waited for the last of them.
LEMMA ReceivedIsLoad ==
    ASSUME IInv, NEW begin, NEW end, NEW inFlight,
           ReceivedChunks(begin, end) \subseteq Chunks,
           ReceivedEndChunk(end) \in Nat,
           loadedChunks' = loadedChunks \cup ReceivedChunks(begin, end),
           Received(begin, end, inFlight)
    PROVE  Loader!Load
  <1> DEFINE C    == ReceivedChunks(begin, end)
             auto == AutoFetch(ByChunkWithout(C), loadedChunks', ReceivedEndChunk(end))
  <1>1. loadedChunks' \in SUBSET Chunks /\ loadedChunks \subseteq loadedChunks'
    BY DEF IInv, StreamInv
  <1>2. \A i \in Ids : SettledBy(C)[i] = Loader!AnswerNow(i)
    BY ReceivedTables DEF IInv, RequestInv, Loader!AnswerNow
  <1>3. CASE auto # {}
    <2>1. RequestChunks(auto, NeededWithout(C), ByChunkWithout(C),
              promisesByRequest \ CompletedBy(C), SettledBy(C), inFlight)
      BY <1>3 DEF Received
    <2>2. Loader!NewRequest
      BY <1>2, <2>1, AutoFetchInFile, RequestIsNewRequest
    <2> QED BY <1>1, <2>2 DEF Loader!Load
  <1>4. CASE auto = {}
    <2>1. promise' = SettledBy(C) /\ UNCHANGED <<currRequestId, asked>>
      BY <1>4 DEF Received
    <2>2. promise' = [i \in Loader!Requests |-> Loader!AnswerNow(i)]
      BY <1>2, <2>1 DEF SettledBy, Loader!Requests, Ids
    <2> QED BY <1>1, <2>1, <2>2 DEF Loader!Load
  <1> QED BY <1>3, <1>4

\* A failure is told to the one who started the fetch, if it still waits.
LEMMA RejectIsFail ==
    ASSUME IInv, NEW id, NEW outcome \in {"rejected", "ignored"}, Reject({id}, outcome),
           UNCHANGED <<loadedChunks, currRequestId, asked>>
    PROVE  Loader!Fail \/ UNCHANGED Loader!loaderVars
  <1>1. promise' = [i \in Ids |->
            IF i \in {id} /\ promise[i] = "pending" THEN outcome ELSE promise[i]]
    BY DEF Reject
  <1>2. promise \in [Ids -> PromiseStates]
    BY DEF IInv, RequestInv, TablesConsistent, TablesTyped
  <1>3. CASE id \in Ids /\ promise[id] = "pending"
    <2>1. promise' = [promise EXCEPT ![id] = outcome]
      BY <1>1, <1>2, <1>3
    <2> QED BY <1>3, <2>1 DEF Loader!Fail, Loader!Requests, Ids
  <1>4. CASE ~(id \in Ids /\ promise[id] = "pending")
    <2>1. promise' = promise
      BY <1>1, <1>2, <1>4
    <2> QED BY <2>1 DEF Loader!loaderVars
  <1> QED BY <1>3, <1>4

\* When the worker is terminated, everybody who waits is let go.
LEMMA AbortIsGiveUp ==
    ASSUME IInv, Abort
    PROVE  Loader!GiveUp
  <1>1. promise' = [i \in Ids |->
            IF i \in promisesByRequest /\ promise[i] = "pending" THEN "ignored" ELSE promise[i]]
    BY DEF Abort, Reject
  <1>2. \A i \in Ids : promise[i] = "pending" => i \in promisesByRequest
    BY DEF IInv, RequestInv, TablesConsistent, RequestConsistent
  <1>3. promise' = [i \in Ids |-> IF promise[i] = "pending" THEN "ignored" ELSE promise[i]]
    BY <1>1, <1>2
  <1> QED BY <1>3 DEF Abort, streamVars, Loader!GiveUp, Loader!Requests, Ids

\* Every step of the manager is a step of the loader or leaves it unchanged.
LEMMA NextImplementsLoader ==
    ASSUME IInv, [Next]_vars
    PROVE  [Loader!LoaderNext]_Loader!loaderVars
  <1> USE DEF Loader!LoaderNext
  <1>1. ASSUME NEW S \in SUBSET Chunks, CallRequestChunks(S)
        PROVE  Loader!Ask
    <2>1. /\ loadedChunks' = loadedChunks
          /\ RequestChunks(S, chunksNeeded, requestsByChunk, promisesByRequest, promise, fetches)
      BY <1>1 DEF CallRequestChunks, streamVars
    <2> QED BY <2>1, NothingNew, RequestIsNewRequest DEF Loader!Ask
  <1>2. CASE Call
    <2>1. CASE RequestAllChunks
      BY <1>1, <2>1 DEF RequestAllChunks, MissingChunks
    <2>2. CASE \E begin, end \in 0 .. Length : begin < end /\ RequestRange(begin, end)
      BY <1>1, <2>2, RequestedInFile DEF RequestRange
    <2> QED BY <1>2, <2>1, <2>2 DEF Call
  <1>3. ASSUME NEW fetch \in fetches, FetchDone(fetch)
        PROVE  Loader!Load
    <2>1. fetch.begin \in Chunks /\ fetch.end \in 1 .. NumChunks
      BY DEF IInv, RequestInv, FetchRecords
    <2>2. PICK stop \in ResponseEnds(fetch) :
              /\ StreamReceiveData(fetch.begin * ChunkSize, stop)
              /\ Received(fetch.begin * ChunkSize, stop, fetches \ {fetch})
      BY <1>3 DEF FetchDone
    <2>3. PICK e \in 1 .. NumChunks : stop = Minimum(e * ChunkSize, Length)
      BY <2>1, NumChunksBounds DEF ResponseEnds
    <2>4. /\ RangeChunks(fetch.begin * ChunkSize, stop) = fetch.begin .. e - 1
          /\ ReceivedChunks(fetch.begin * ChunkSize, stop) = fetch.begin .. e - 1
          /\ ReceivedEndChunk(stop) \in Nat
      BY <2>1, <2>3, ResponseChunks
    <2>5. fetch.begin .. e - 1 \subseteq Chunks
      BY <2>1, NumChunksBounds DEF Chunks
    <2> QED BY <2>2, <2>4, <2>5, ReceivedIsLoad DEF StreamReceiveData
  <1>4. ASSUME NEW fetch \in fetches, FetchSkipped(fetch)
        PROVE  Loader!Load
    <2>1. fetch.begin \in Chunks
      BY DEF IInv, RequestInv, FetchRecords
    <2>2. /\ ReceivedChunks(fetch.begin * ChunkSize, fetch.begin * ChunkSize) = {}
          /\ ReceivedEndChunk(fetch.begin * ChunkSize) \in Nat
      BY <2>1, EmptyResponse DEF Chunks
    <2>3. /\ loadedChunks' = loadedChunks
          /\ Received(fetch.begin * ChunkSize, fetch.begin * ChunkSize, fetches \ {fetch})
      BY <1>4 DEF FetchSkipped, streamVars
    <2> QED BY <2>2, <2>3, ReceivedIsLoad
  <1>5. ASSUME NEW fetch \in fetches, FetchFailed(fetch)
        PROVE  Loader!Fail \/ UNCHANGED Loader!loaderVars
    <2>1. PICK outcome \in {"rejected", "ignored"} : Reject({fetch.req}, outcome)
      BY <1>5 DEF FetchFailed
    <2> QED BY <1>5, <2>1, RejectIsFail DEF FetchFailed, streamVars
  <1>6. ASSUME NEW fetch \in fetches, FetchIgnored(fetch)
        PROVE  UNCHANGED Loader!loaderVars
    BY <1>6 DEF FetchIgnored, streamVars, Loader!loaderVars
  <1>7. ASSUME NEW end \in 1 .. Length, Arrive(end)
        PROVE  UNCHANGED Loader!loaderVars
    BY <1>7 DEF Arrive, streamVars, Loader!loaderVars
  <1>8. ASSUME NEW end \in 1 .. Length, ProgressiveData(end)
        PROVE  Loader!Load
    <2>1. /\ progressiveDataLength \in 0 .. Length /\ progressiveDataLength < end
          /\ loadedChunks' = loadedChunks \cup ProgressiveChunks(progressiveDataLength, end)
          /\ Received(progressiveDataLength, end, fetches)
      BY <1>8 DEF ProgressiveData, StreamReceiveProgressiveData, IInv, StreamInv
    <2>2. /\ ReceivedChunks(progressiveDataLength, end)
                 = ProgressiveChunks(progressiveDataLength, end)
          /\ ReceivedChunks(progressiveDataLength, end) \subseteq Chunks
          /\ ReceivedEndChunk(end) \in Nat
      BY <2>1, ProgressiveIsReceived
    <2> QED BY <2>1, <2>2, ReceivedIsLoad
  <1>9. CASE Abort
    BY <1>9, AbortIsGiveUp
  <1>10. CASE UNCHANGED vars
    BY <1>10 DEF vars, streamVars, managerVars, Loader!loaderVars
  <1> QED BY <1>2, <1>3, <1>4, <1>5, <1>6, <1>7, <1>8, <1>9, <1>10 DEF Next, FetchEnds

\* The ChunkedStreamManager, with its tables, its shared fetches and its own
\* auto-fetch, is a chunk loader: it answers each request in the step that loads
\* its last chunk, once, and answers none before.
THEOREM ManagerImplementsLoader == Spec => ImplementsLoader
  <1>1. Init => Loader!LoaderInit
    BY DEF Init, StreamInit, Loader!LoaderInit
  <1>2. IInv /\ [Next]_vars => [Loader!LoaderNext]_Loader!loaderVars
    BY NextImplementsLoader
  <1> QED BY <1>1, <1>2, Invariance, PTL DEF Spec, ImplementsLoader, Loader!LoaderSpec

------------------------------------------------------------------------------
(* The work never stands still.                                             *)

\* Every chunk somebody waits for is in a fetch, or among the first pos bytes.
Covered(inFlight, byChunk, pos) ==
    \A chunk \in Chunks : byChunk[chunk] # {} =>
        \/ \E f \in inFlight : chunk \in ChunksOf(f)
        \/ \A p \in BytesOf(chunk) : p < pos

\* A fetch is for chunks that its request asked for.
FetchesAsked(ids, ask, inFlight) ==
    \A f \in inFlight : f.req \in ids /\ ChunksOf(f) \subseteq ask[f.req]

SomethingRequested(byChunk) == \E chunk \in Chunks : byChunk[chunk] # {}

\* A fetch that fails fails a request that still waits, since the chunks of one that is
\* resolved are loaded, and no promise is "ignored" before the abort.
WorkSound ==
    /\ FetchesAsked(Ids, asked, fetches)
    /\ ~aborted => \A id \in Ids : promise[id] # "ignored"
    /\ WorkGoesOn

WorkInv == IInv /\ WorkSound

\* A set of naturals has a least element.
LEMMA LeastNatural ==
    ASSUME NEW S \in SUBSET Nat, S # {}
    PROVE  \E m \in S : \A n \in S : m <= n
  <1> DEFINE R == OpToRel(<, Nat)
  <1>1. IsWellFoundedOn(R, Nat)
    BY NatLessThanWellFounded
  <1>2. \A n, m \in Nat : n < m => <<n, m>> \in R
    BY DEF OpToRel
  <1> HIDE DEF R
  <1>3. PICK m \in S : \A n \in S : ~(<<n, m>> \in R)
    BY <1>1, WFMin
  <1>4. ASSUME NEW n \in S PROVE m <= n
    <2>1. n \in Nat /\ m \in Nat
      OBVIOUS
    <2>2. ~(<<n, m>> \in R)
      BY <1>3
    <2>3. ~(n < m)
      BY <1>2, <2>1, <2>2, Zenon
    <2> QED BY <2>1, <2>3
  <1> QED BY <1>4

\* groupChunks leaves none of its chunks out.
LEMMA GroupsCover ==
    ASSUME NEW S \in SUBSET Chunks, NEW c \in S
    PROVE  \E g \in GroupChunks(S) : c \in ChunksOf(g)
  <1> DEFINE before == {b \in Nat : b <= c /\ b .. c \subseteq S}
             after  == {e \in Nat : c < e /\ e \notin S}
  <1>0. c \in Nat /\ c < NumChunks /\ NumChunks \in Nat /\ S \subseteq Nat /\ NumChunks \notin S
    BY NumChunksBounds DEF Chunks
  <1>1. c .. c \subseteq S
    BY <1>0
  <1>2. before \in SUBSET Nat /\ c \in before
    BY <1>0, <1>1
  <1>3. after \in SUBSET Nat /\ NumChunks \in after
    BY <1>0
  <1>4. PICK b \in before : \A n \in before : b <= n
    <2> HIDE DEF before
    <2> QED BY <1>2, LeastNatural
  <1>5. PICK e \in after : \A n \in after : e <= n
    <2> HIDE DEF after
    <2> QED BY <1>3, LeastNatural
  <1>6. b \in Nat /\ b <= c /\ b .. c \subseteq S /\ b \in S
    BY <1>0
  <1>7. e \in Nat /\ c < e /\ e \notin S
    OBVIOUS
  <1>8. ASSUME NEW x \in c + 1 .. e - 1 PROVE x \in S
    <2>1. x \in Nat /\ c < x /\ x < e
      BY <1>0, <1>7
    <2>2. x \notin after
      BY <1>5, <1>7, <2>1
    <2> QED BY <2>1, <2>2
  <1>9. b .. e - 1 \subseteq S
    BY <1>0, <1>6, <1>7, <1>8
  <1>10. b - 1 \notin S
    <2> SUFFICES ASSUME b - 1 \in S PROVE FALSE
      OBVIOUS
    <2>1. b - 1 \in Nat
      BY <1>0
    <2>2. b - 1 .. c \subseteq S
      BY <1>0, <1>6, <2>1
    <2>3. b - 1 \in before
      BY <1>6, <2>1, <2>2
    <2> QED BY <1>4, <1>6, <2>3
  <1>11. e \in {x + 1 : x \in S}
    <2>1. e - 1 \in S
      BY <1>0, <1>6, <1>7, <1>9
    <2> QED BY <1>7, <2>1
  <1> HIDE DEF before, after
  <1> DEFINE g == [begin |-> b, end |-> e]
  <1>12. g \in GroupChunks(S)
    BY <1>0, <1>6, <1>7, <1>9, <1>10, <1>11 DEF GroupChunks
  <1>13. c \in ChunksOf(g)
    BY <1>0, <1>6, <1>7 DEF ChunksOf
  <1> QED BY <1>12, <1>13

\* nextEmptyChunk finds a chunk as long as one is missing.
LEMMA NextEmptyIsMissing ==
    ASSUME NEW loaded \in SUBSET Chunks, loaded # Chunks, NEW beginChunk \in Nat
    PROVE  \E c \in NextEmptyChunk(loaded, beginChunk) : c \notin loaded
  <1> DEFINE at(i) == (beginChunk + i) % NumChunks
             free  == {i \in 0 .. NumChunks - 1 : at(i) \notin loaded}
  <1>1. PICK c \in Chunks : c \notin loaded
    OBVIOUS
  <1> DEFINE i == (c - beginChunk) % NumChunks
             q == (c - beginChunk) \div NumChunks
  <1>2. NumChunks \in Nat \ {0} /\ c \in 0 .. NumChunks - 1
    BY NumChunksBounds DEF Chunks
  <1>3. /\ i \in 0 .. NumChunks - 1 /\ q \in Int
        /\ c - beginChunk = NumChunks * q + i
    BY <1>2
  <1> HIDE DEF i, q
  <1>4. (beginChunk + i) \div NumChunks = -q
    <2>1. NumChunks * (-q) = -(NumChunks * q) /\ NumChunks * q \in Int
      BY <1>2, <1>3
    <2>2. NumChunks * (-q) <= beginChunk + i /\ beginChunk + i < NumChunks * (-q) + NumChunks
      BY <1>2, <1>3, <2>1
    <2>3. -q \in Int /\ beginChunk + i \in Int
      BY <1>3
    <2> QED BY <1>2, <2>2, <2>3, DivisionUnique
  <1>5. at(i) = c
    <2>1. at(i) = (beginChunk + i) - NumChunks * ((beginChunk + i) \div NumChunks)
      BY <1>2, <1>3
    <2>2. NumChunks * (-q) = -(NumChunks * q) /\ NumChunks * q \in Int
      BY <1>2, <1>3
    <2> QED BY <1>2, <1>3, <1>4, <2>1, <2>2
  <1>6. i \in free
    BY <1>1, <1>3, <1>5
  <1>7. free \in SUBSET Nat
    BY <1>2
  <1>8. PICK j \in free : \A k \in free : j <= k
    <2> HIDE DEF free
    <2> QED BY <1>6, <1>7, LeastNatural
  <1>9. at(j) \in NextEmptyChunk(loaded, beginChunk) /\ at(j) \notin loaded
    BY <1>8 DEF NextEmptyChunk
  <1> QED BY <1>9

\* What is fetched without being asked for is missing, and there is something, but for
\* the hole that WorkGoesOn names.
LEMMA AutoFetchFinds ==
    ASSUME NEW loaded \in SUBSET Chunks, loaded \notin {{}, {NumChunks - 1}}, loaded # Chunks,
           NEW endChunk \in Nat
    PROVE  \E c \in AutoFetchChunk(loaded, endChunk) : c \notin loaded
  <1>1. CASE Cardinality(loaded) = 1
    <2>1. IsFiniteSet(loaded)
      <3>1. IsFiniteSet(Chunks)
        BY FS_Interval, NumChunksBounds DEF Chunks
      <3> QED BY <3>1, FS_Subset
    <2>2. PICK x : loaded = {x}
      BY <1>1, <2>1, FS_Singleton
    <2>3. NumChunks - 1 \notin loaded
      BY <2>2
    <2> QED BY <1>1, <2>3 DEF AutoFetchChunk
  <1>2. CASE Cardinality(loaded) # 1
    BY <1>2, NextEmptyIsMissing DEF AutoFetchChunk
  <1> QED BY <1>1, <1>2

\* _requestChunks has each chunk fetched that is not on its way.
LEMMA RequestChunksWork ==
    ASSUME currRequestId \in Nat, NEW S \in SUBSET Chunks,
           NEW needed, NEW byChunk, NEW promises, NEW settled,
           NEW inFlight, NEW pos,
           RequestChunks(S, needed, byChunk, promises, settled, inFlight)
    PROVE  /\ Covered(inFlight, byChunk, pos) => Covered(fetches', requestsByChunk', pos)
           /\ FetchesAsked(Ids, asked, inFlight) => FetchesAsked(Ids', asked', fetches')
           /\ \A i \in Ids' : promise'[i] \in {"rejected", "ignored"} =>
                  i \in Ids /\ promise'[i] = settled[i]
           /\ \A i \in Ids : promise'[i] = settled[i]
           /\ SomethingRequested(byChunk) \/ S \ loadedChunks' # {} =>
                  SomethingRequested(requestsByChunk')
  <1> DEFINE need   == S \ loadedChunks'
             new    == NotYetRequested(need, byChunk)
             Fetch(g) == [req |-> currRequestId, begin |-> g.begin, end |-> g.end]
  <1>1. /\ currRequestId' = currRequestId + 1
        /\ asked' = [i \in 0 .. currRequestId |-> IF i = currRequestId THEN S ELSE asked[i]]
        /\ requestsByChunk' = [c \in Chunks |->
              IF c \in need THEN byChunk[c] \cup {currRequestId} ELSE byChunk[c]]
        /\ promise' = [i \in 0 .. currRequestId |-> IF i < currRequestId THEN settled[i]
              ELSE IF need = {} THEN "resolved" ELSE "pending"]
        /\ fetches' = inFlight \cup {Fetch(g) : g \in GroupChunks(new)}
    BY DEF RequestChunks
  <1>2. /\ Ids' = 0 .. currRequestId /\ Ids = 0 .. currRequestId - 1
        /\ \A i \in Ids : i \in Ids' /\ i < currRequestId /\ i # currRequestId
        /\ \A i \in Ids' : i \in Ids \/ i = currRequestId
    <2>1. Ids' = 0 .. currRequestId
      BY <1>1 DEF Ids
    <2>2. Ids = 0 .. currRequestId - 1
      BY DEF Ids
    <2> QED BY <2>1, <2>2
  <1>3. new \in SUBSET Chunks /\ new \subseteq S
    BY DEF NotYetRequested
  <1>4. ASSUME NEW g \in GroupChunks(new)
        PROVE  ChunksOf(Fetch(g)) = ChunksOf(g) /\ ChunksOf(g) \subseteq S
    BY <1>3, GroupsDisjoint DEF ChunksOf
  <1>5. ASSUME Covered(inFlight, byChunk, pos)
        PROVE  Covered(fetches', requestsByChunk', pos)
    <2> SUFFICES ASSUME NEW c \in Chunks, requestsByChunk'[c] # {}
                 PROVE  \/ \E f \in fetches' : c \in ChunksOf(f)
                        \/ \A p \in BytesOf(c) : p < pos
      BY DEF Covered
    <2>1. CASE byChunk[c] # {}
      BY <1>1, <1>5, <2>1 DEF Covered
    <2>2. CASE byChunk[c] = {}
      <3>1. c \in new
        BY <1>1, <2>2 DEF NotYetRequested
      <3>2. PICK g \in GroupChunks(new) : c \in ChunksOf(g)
        <4> HIDE DEF new
        <4> QED BY <1>3, <3>1, GroupsCover
      <3>3. Fetch(g) \in fetches' /\ c \in ChunksOf(Fetch(g))
        BY <1>1, <1>4, <3>2
      <3> QED BY <3>3
    <2> QED BY <2>1, <2>2
  <1>6. ASSUME FetchesAsked(Ids, asked, inFlight)
        PROVE  FetchesAsked(Ids', asked', fetches')
    <2> SUFFICES ASSUME NEW f \in fetches'
                 PROVE  f.req \in Ids' /\ ChunksOf(f) \subseteq asked'[f.req]
      BY DEF FetchesAsked
    <2>1. CASE f \in inFlight
      <3>1. f.req \in Ids /\ ChunksOf(f) \subseteq asked[f.req]
        BY <1>6, <2>1 DEF FetchesAsked
      <3>2. asked'[f.req] = asked[f.req]
        BY <1>1, <1>2, <3>1
      <3> QED BY <1>2, <3>1, <3>2
    <2>2. CASE \E g \in GroupChunks(new) : f = Fetch(g)
      <3>1. PICK g \in GroupChunks(new) : f = Fetch(g)
        BY <2>2
      <3>2. f.req = currRequestId /\ ChunksOf(f) \subseteq S
        BY <1>4, <3>1
      <3>3. currRequestId \in Ids' /\ asked'[currRequestId] = S
        BY <1>1, <1>2
      <3> QED BY <3>2, <3>3
    <2> QED BY <1>1, <2>1, <2>2
  <1>7. \A i \in Ids : promise'[i] = settled[i]
    BY <1>1, <1>2
  <1>8. \A i \in Ids' : promise'[i] \in {"rejected", "ignored"} => i \in Ids
    <2>1. promise'[currRequestId] \in {"resolved", "pending"}
      BY <1>1
    <2> QED BY <1>2, <2>1
  <1>9. ASSUME SomethingRequested(byChunk) \/ need # {}
        PROVE  SomethingRequested(requestsByChunk')
    <2>1. PICK c \in Chunks : byChunk[c] # {} \/ c \in need
      BY <1>9 DEF SomethingRequested
    <2>2. requestsByChunk'[c] # {}
      BY <1>1, <2>1
    <2> QED BY <2>2 DEF SomethingRequested
  <1> QED BY <1>5, <1>6, <1>7, <1>8, <1>9

\* onReceiveData: what the fetch that ends had is there, or is handed over otherwise.
LEMMA ReceivedWork ==
    ASSUME WorkInv, ~aborted, UNCHANGED <<aborted, arrived>>,
           NEW begin, NEW end, NEW inFlight \in SUBSET fetches,
           ReceivedChunks(begin, end) \subseteq Chunks,
           ReceivedEndChunk(end) \in Nat,
           loadedChunks' = loadedChunks \cup ReceivedChunks(begin, end),
           Received(begin, end, inFlight),
           \A f \in fetches \ inFlight : \A c \in ChunksOf(f) :
               c \in ReceivedChunks(begin, end) \/ \A p \in BytesOf(c) : p < arrived
    PROVE  /\ FetchesAsked(Ids', asked', fetches')
           /\ \A id \in Ids' : promise'[id] # "ignored"
           /\ WorkGoesOn'
  <1> DEFINE C       == ReceivedChunks(begin, end)
             byChunk == ByChunkWithout(C)
             left    == promisesByRequest \ CompletedBy(C)
             auto    == AutoFetch(byChunk, loadedChunks', ReceivedEndChunk(end))
  <1>1. /\ FetchesAsked(Ids, asked, fetches) /\ \A id \in Ids : promise[id] # "ignored"
        /\ currRequestId \in Nat /\ loadedChunks \subseteq Chunks
    BY DEF WorkInv, WorkSound, IInv, RequestInv, StreamInv
  <1>2. FetchesAsked(Ids, asked, inFlight)
    BY <1>1 DEF FetchesAsked
  <1>3. \A id \in Ids : /\ SettledBy(C)[id] # "ignored"
                        /\ promise[id] = "rejected" => SettledBy(C)[id] = "rejected"
    BY <1>1 DEF SettledBy
  <1>4. ASSUME ~Failed
        PROVE  Covered(inFlight, byChunk, arrived)
    <2> SUFFICES ASSUME NEW c \in Chunks, byChunk[c] # {}
                 PROVE  \/ \E f \in inFlight : c \in ChunksOf(f)
                        \/ \A p \in BytesOf(c) : p < arrived
      BY DEF Covered
    <2>1. c \notin C /\ requestsByChunk[c] # {}
      BY DEF ByChunkWithout
    <2>2. \/ \E f \in fetches : c \in ChunksOf(f)
          \/ \A p \in BytesOf(c) : p < arrived
      BY <1>4, <2>1 DEF WorkInv, WorkSound, WorkGoesOn
    <2> QED BY <2>1, <2>2
  <1>5. /\ FetchesAsked(Ids', asked', fetches')
        /\ \A id \in Ids' : promise'[id] # "ignored"
        /\ ~Failed' => ~Failed
        /\ ~Failed' => Covered(fetches', requestsByChunk', arrived)
        /\ SomethingRequested(byChunk) \/ auto \ loadedChunks' # {} =>
               SomethingRequested(requestsByChunk')
    <2>1. CASE auto # {}
      <3>1. RequestChunks(auto, NeededWithout(C), byChunk, left, SettledBy(C), inFlight)
        BY <2>1 DEF Received
      <3>2. auto \in SUBSET Chunks
        BY AutoFetchInFile
      <3> HIDE DEF auto, byChunk, left, C
      <3>3. /\ Covered(inFlight, byChunk, arrived) =>
                   Covered(fetches', requestsByChunk', arrived)
            /\ FetchesAsked(Ids, asked, inFlight) => FetchesAsked(Ids', asked', fetches')
            /\ \A i \in Ids' : promise'[i] \in {"rejected", "ignored"} =>
                   i \in Ids /\ promise'[i] = SettledBy(C)[i]
            /\ \A i \in Ids : promise'[i] = SettledBy(C)[i]
            /\ SomethingRequested(byChunk) \/ auto \ loadedChunks' # {} =>
                   SomethingRequested(requestsByChunk')
        BY <1>1, <3>1, <3>2, RequestChunksWork
      <3>4. \A i \in Ids : i \in Ids'
        <4>1. currRequestId' = currRequestId + 1
          BY <3>1 DEF RequestChunks
        <4>2. Ids' = 0 .. currRequestId' - 1
          BY DEF Ids
        <4> QED BY <1>1, <4>1, <4>2 DEF Ids
      <3>5. ~Failed' => ~Failed
        BY <1>3, <3>3, <3>4 DEF Failed
      <3> QED BY <1>2, <1>3, <1>4, <3>3, <3>5
    <2>2. CASE auto = {}
      <3>1. /\ requestsByChunk' = byChunk /\ promise' = SettledBy(C) /\ fetches' = inFlight
            /\ currRequestId' = currRequestId /\ asked' = asked
        BY <2>2 DEF Received
      <3>2. Ids' = Ids
        BY <3>1 DEF Ids
      <3> HIDE DEF byChunk, C
      <3>3. ~Failed' => ~Failed
        BY <1>3, <3>1, <3>2 DEF Failed
      <3> QED BY <1>2, <1>3, <1>4, <2>2, <3>1, <3>2, <3>3
    <2> QED BY <2>1, <2>2
  <1>6. ASSUME ~DisableAutoFetch, loadedChunks' \notin {{}, {NumChunks - 1}},
               loadedChunks' # Chunks
        PROVE  SomethingRequested(requestsByChunk')
    <2>1. CASE SomethingRequested(byChunk)
      BY <1>5, <2>1
    <2>2. CASE ~SomethingRequested(byChunk)
      <3>1. auto = AutoFetchChunk(loadedChunks', ReceivedEndChunk(end))
        BY <1>6, <2>2 DEF AutoFetch, SomethingRequested
      <3>2. loadedChunks' \in SUBSET Chunks
        BY <1>1
      <3>3. \E c \in AutoFetchChunk(loadedChunks', ReceivedEndChunk(end)) : c \notin loadedChunks'
        BY <1>6, <3>2, AutoFetchFinds
      <3>4. auto \ loadedChunks' # {}
        <4> HIDE DEF auto
        <4> QED BY <3>1, <3>3
      <3> QED BY <1>5, <3>4
    <2> QED BY <2>1, <2>2
  <1>7. arrived' = arrived /\ ~aborted'
    OBVIOUS
  <1> QED BY <1>5, <1>6, <1>7 DEF WorkGoesOn, Covered, SomethingRequested

LEMMA InitWork == Init => WorkInv
  <1> SUFFICES ASSUME Init PROVE WorkInv
    OBVIOUS
  <1>1. Ids = {}
    BY DEF Init, Ids
  <1>2. WorkGoesOn
    BY DEF Init, StreamInit, WorkGoesOn
  <1>3. FetchesAsked(Ids, asked, fetches)
    BY DEF Init, FetchesAsked
  <1> QED BY <1>1, <1>2, <1>3, InitIInv DEF WorkInv, WorkSound

\* What the operations and the network do keeps the work going.
LEMMA NextWork ==
    ASSUME WorkInv, [Next]_vars
    PROVE  WorkInv'
  <1>1. IInv /\ IInv'
    BY NextIInv DEF WorkInv
  <1>2. /\ FetchesAsked(Ids, asked, fetches)
        /\ ~aborted => \A id \in Ids : promise[id] # "ignored"
        /\ WorkGoesOn /\ currRequestId \in Nat /\ loadedChunks \subseteq Chunks
    BY DEF WorkInv, WorkSound, IInv, RequestInv, StreamInv
  <1> SUFFICES WorkSound'
    BY <1>1 DEF WorkInv
  <1>3. ASSUME NEW S \in SUBSET Chunks, CallRequestChunks(S)
        PROVE  WorkSound'
    <2>1. /\ UNCHANGED <<streamVars, aborted, loadedStream, arrived>>
          /\ RequestChunks(S, chunksNeeded, requestsByChunk, promisesByRequest, promise, fetches)
      BY <1>3 DEF CallRequestChunks
    <2>2. /\ Covered(fetches, requestsByChunk, arrived) =>
                 Covered(fetches', requestsByChunk', arrived)
          /\ FetchesAsked(Ids, asked, fetches) => FetchesAsked(Ids', asked', fetches')
          /\ \A i \in Ids' : promise'[i] \in {"rejected", "ignored"} =>
                 i \in Ids /\ promise'[i] = promise[i]
          /\ \A i \in Ids : promise'[i] = promise[i]
          /\ SomethingRequested(requestsByChunk) => SomethingRequested(requestsByChunk')
      BY <1>2, <2>1, RequestChunksWork
    <2>3. loadedChunks' = loadedChunks /\ aborted' = aborted /\ arrived' = arrived
      BY <2>1 DEF streamVars
    <2>4. \A i \in Ids : i \in Ids'
      <3>1. currRequestId' = currRequestId + 1
        BY <2>1 DEF RequestChunks
      <3>2. Ids' = 0 .. currRequestId' - 1
        BY DEF Ids
      <3> QED BY <1>2, <3>1, <3>2 DEF Ids
    <2>5. ~Failed' => ~Failed
      BY <2>2, <2>4 DEF Failed
    <2>6. WorkGoesOn'
      BY <1>2, <2>2, <2>3, <2>5 DEF WorkGoesOn, Covered, SomethingRequested
    <2> QED BY <1>2, <2>2, <2>3, <2>6 DEF WorkSound
  <1>4. ASSUME NEW fetch \in fetches, FetchDone(fetch)
        PROVE  WorkSound'
    <2> DEFINE start == fetch.begin * ChunkSize
    <2>1. fetch \in FetchRecords /\ fetch.begin \in Chunks /\ fetch.end \in 1 .. NumChunks
      BY <1>1 DEF IInv, RequestInv, FetchRecords
    <2>2. PICK stop \in ResponseEnds(fetch) :
              /\ StreamReceiveData(start, stop)
              /\ Received(start, stop, fetches \ {fetch})
      BY <1>4 DEF FetchDone
    <2>3. PICK e \in fetch.end .. NumChunks : stop = Minimum(e * ChunkSize, Length)
      BY <2>1, NumChunksBounds DEF ResponseEnds
    <2>4. e \in 1 .. NumChunks
      BY <2>1, <2>3, NumChunksBounds
    <2>5. /\ RangeChunks(start, stop) = fetch.begin .. e - 1
          /\ ReceivedChunks(start, stop) = fetch.begin .. e - 1
          /\ ReceivedEndChunk(stop) \in Nat
      BY <2>1, <2>3, <2>4, ResponseChunks
    <2>6. ReceivedChunks(start, stop) \subseteq Chunks
      BY <2>1, <2>4, <2>5, NumChunksBounds DEF Chunks
    <2>7. loadedChunks' = loadedChunks \cup ReceivedChunks(start, stop)
      BY <2>2, <2>5 DEF StreamReceiveData
    <2>8. \A c \in ChunksOf(fetch) : c \in ReceivedChunks(start, stop)
      BY <2>1, <2>3, <2>5, NumChunksBounds DEF ChunksOf, Chunks
    <2>9. ~aborted /\ UNCHANGED <<aborted, arrived>>
      BY <1>4 DEF FetchDone
    <2>10. fetches \ {fetch} \in SUBSET fetches
           /\ \A f \in fetches \ (fetches \ {fetch}) : f = fetch
      OBVIOUS
    <2> HIDE DEF start
    <2> QED BY <2>2, <2>5, <2>6, <2>7, <2>8, <2>9, <2>10, ReceivedWork DEF WorkSound
  <1>5. ASSUME NEW fetch \in fetches, FetchSkipped(fetch)
        PROVE  WorkSound'
    <2> DEFINE start == fetch.begin * ChunkSize
    <2>1. fetch \in FetchRecords /\ fetch.begin \in Chunks /\ fetch.end \in 1 .. NumChunks
      BY <1>1 DEF IInv, RequestInv, FetchRecords
    <2>2. /\ Received(start, start, fetches \ {fetch}) /\ loadedChunks' = loadedChunks
          /\ ~aborted /\ UNCHANGED <<aborted, arrived>>
          /\ Minimum(fetch.end * ChunkSize, Length) <= arrived
      BY <1>5 DEF FetchSkipped, streamVars
    <2>3. ReceivedChunks(start, start) = {} /\ ReceivedEndChunk(start) \in Nat
      BY <2>1, EmptyResponse DEF Chunks
    <2>4. ASSUME NEW c \in ChunksOf(fetch), NEW p \in BytesOf(c)
          PROVE  p < arrived
      <3>1. c \in Nat /\ c + 1 <= fetch.end /\ fetch.end \in Nat
        BY <2>1, NumChunksBounds DEF ChunksOf, Chunks
      <3>2. p \in Nat /\ p < Length /\ p < (c + 1) * ChunkSize
        BY <3>1, SizeAssumption DEF BytesOf, Positions
      <3>3. ChunkSize * (c + 1) <= ChunkSize * fetch.end
        BY <3>1, SizeAssumption, TimesMonotone
      <3>4. (c + 1) * ChunkSize = ChunkSize * (c + 1) /\ fetch.end * ChunkSize = ChunkSize * fetch.end
        BY <3>1, SizeAssumption
      <3>5. ChunkSize * (c + 1) \in Int /\ ChunkSize * fetch.end \in Int /\ arrived \in Int
        BY <1>1, <3>1, SizeAssumption DEF IInv, StreamInv
      <3> QED BY <2>2, <3>2, <3>3, <3>4, <3>5, SizeAssumption DEF Minimum
    <2>5. fetches \ {fetch} \in SUBSET fetches
           /\ \A f \in fetches \ (fetches \ {fetch}) : f = fetch
      OBVIOUS
    <2>6. /\ ReceivedChunks(start, start) \subseteq Chunks
          /\ loadedChunks' = loadedChunks \cup ReceivedChunks(start, start)
      BY <2>2, <2>3
    <2> HIDE DEF start
    <2> QED BY <2>2, <2>3, <2>4, <2>5, <2>6, ReceivedWork DEF WorkSound
  <1>6. ASSUME NEW fetch \in fetches, FetchIgnored(fetch)
        PROVE  WorkSound'
    <2>1. /\ aborted /\ aborted' = aborted /\ Ids' = Ids /\ asked' = asked
          /\ fetches' \subseteq fetches
      BY <1>6 DEF FetchIgnored, Ids
    <2> QED BY <1>2, <2>1 DEF WorkSound, FetchesAsked, WorkGoesOn
  <1>7. ASSUME NEW fetch \in fetches, FetchFailed(fetch)
        PROVE  WorkSound'
    <2>1. /\ fetches' = fetches \ {fetch} /\ Ids' = Ids /\ asked' = asked
          /\ requestsByChunk' = requestsByChunk /\ loadedChunks' = loadedChunks
          /\ aborted' = aborted /\ arrived' = arrived
          /\ Reject({fetch.req}, IF aborted THEN "ignored" ELSE "rejected")
      BY <1>7 DEF FetchFailed, streamVars, Ids
    <2>2. FetchesAsked(Ids', asked', fetches')
      BY <1>2, <2>1 DEF FetchesAsked
    <2>3. CASE aborted
      BY <2>1, <2>2, <2>3 DEF WorkSound, WorkGoesOn
    <2>4. CASE ~aborted
      <3>1. promise' = [i \in Ids |-> IF i \in {fetch.req} /\ promise[i] = "pending"
                                      THEN "rejected" ELSE promise[i]]
        BY <2>1, <2>4 DEF Reject
      <3>2. \A id \in Ids : promise'[id] # "ignored" /\ (promise[id] = "rejected" => promise'[id] = "rejected")
        BY <1>2, <2>4, <3>1
      <3>3. ASSUME ~Failed'
            PROVE  Covered(fetches', requestsByChunk', arrived')
        <4>1. fetch.req \in Ids /\ ChunksOf(fetch) \subseteq asked[fetch.req]
          BY <1>2 DEF FetchesAsked
        <4>2. promise'[fetch.req] # "rejected" /\ ~Failed
          BY <2>1, <3>2, <3>3, <4>1 DEF Failed
        <4>3. promise[fetch.req] \notin {"pending", "rejected", "ignored"}
          BY <1>2, <2>4, <3>1, <3>2, <4>1, <4>2
        <4>4. promise[fetch.req] \in PromiseStates
          BY <1>1, <4>1 DEF IInv, RequestInv, TablesConsistent, TablesTyped
        <4>5. promise[fetch.req] = "resolved"
          BY <4>3, <4>4 DEF PromiseStates
        <4>6. asked[fetch.req] \subseteq loadedChunks
          BY <1>1, <4>1, <4>5 DEF IInv, RequestInv, TablesConsistent, RequestConsistent
        <4>7. \A c \in Chunks : c \in loadedChunks => requestsByChunk[c] = {}
          <5> SUFFICES ASSUME NEW c \in Chunks, c \in loadedChunks, NEW i \in requestsByChunk[c]
                       PROVE  FALSE
            OBVIOUS
          <5>1. i \in Ids
            BY <1>1 DEF IInv, RequestInv, TablesConsistent, TablesTyped
          <5>2. /\ chunksNeeded[i] = asked[i] \ loadedChunks
                /\ i \in requestsByChunk[c] <=> c \in chunksNeeded[i]
            BY <1>1, <5>1 DEF IInv, RequestInv, TablesConsistent, RequestConsistent
          <5> QED BY <5>2
        <4>8. Covered(fetches, requestsByChunk, arrived)
          BY <1>2, <2>4, <4>2 DEF WorkGoesOn, Covered
        <4> SUFFICES ASSUME NEW c \in Chunks, requestsByChunk[c] # {}
                     PROVE  \/ \E f \in fetches' : c \in ChunksOf(f)
                            \/ \A p \in BytesOf(c) : p < arrived'
          BY <2>1 DEF Covered
        <4>9. c \notin ChunksOf(fetch)
          BY <4>1, <4>6, <4>7
        <4> QED BY <2>1, <4>8, <4>9 DEF Covered
      <3>4. WorkGoesOn'
        BY <1>2, <2>1, <2>4, <3>3 DEF WorkGoesOn, Covered
      <3> QED BY <2>1, <2>2, <3>2, <3>4 DEF WorkSound
    <2> QED BY <2>3, <2>4
  <1>8. ASSUME NEW end \in 1 .. Length, Arrive(end)
        PROVE  WorkSound'
    <2>1. /\ Ids' = Ids /\ asked' = asked /\ fetches' = fetches /\ promise' = promise
          /\ requestsByChunk' = requestsByChunk /\ loadedChunks' = loadedChunks
          /\ aborted' = aborted /\ arrived < arrived' /\ arrived' \in Int
      BY <1>8, SizeAssumption DEF Arrive, streamVars, Ids
    <2>2. arrived \in Int
      BY <1>1 DEF IInv, StreamInv
    <2>3. \A c \in Chunks : \A p \in BytesOf(c) : p < arrived => p < arrived'
      BY <2>1, <2>2 DEF BytesOf, Positions
    <2>4. Failed' = Failed
      BY <2>1 DEF Failed
    <2>5. WorkGoesOn'
      BY <1>2, <2>1, <2>3, <2>4 DEF WorkGoesOn
    <2> QED BY <1>2, <2>1, <2>5 DEF WorkSound
  <1>9. ASSUME NEW end \in 1 .. Length, ProgressiveData(end)
        PROVE  WorkSound'
    <2>1. /\ progressiveDataLength \in 0 .. Length /\ progressiveDataLength < end
          /\ loadedChunks' = loadedChunks \cup ProgressiveChunks(progressiveDataLength, end)
          /\ Received(progressiveDataLength, end, fetches)
          /\ ~aborted /\ UNCHANGED <<aborted, arrived>>
      BY <1>1, <1>9 DEF ProgressiveData, StreamReceiveProgressiveData, IInv, StreamInv
    <2>2. /\ ReceivedChunks(progressiveDataLength, end)
                 = ProgressiveChunks(progressiveDataLength, end)
          /\ ReceivedChunks(progressiveDataLength, end) \subseteq Chunks
          /\ ReceivedEndChunk(end) \in Nat
      BY <2>1, ProgressiveIsReceived
    <2>3. fetches \in SUBSET fetches /\ fetches \ fetches = {}
      OBVIOUS
    <2> QED BY <2>1, <2>2, <2>3, ReceivedWork DEF WorkSound
  <1>10. CASE Abort
    <2>1. aborted' /\ Ids' = Ids /\ asked' = asked /\ fetches' = fetches
      BY <1>10 DEF Abort, Ids
    <2> QED BY <1>2, <2>1 DEF WorkSound, WorkGoesOn
  <1>11. CASE UNCHANGED vars
    <2>1. /\ Ids' = Ids /\ asked' = asked /\ fetches' = fetches /\ promise' = promise
          /\ requestsByChunk' = requestsByChunk /\ loadedChunks' = loadedChunks
          /\ aborted' = aborted /\ arrived' = arrived
      BY <1>11 DEF vars, streamVars, managerVars, Ids
    <2> QED BY <1>2, <2>1 DEF WorkSound, WorkGoesOn, Failed
  <1>12. CASE Call
    <2>1. CASE RequestAllChunks
      BY <1>3, <2>1 DEF RequestAllChunks, MissingChunks
    <2>2. CASE \E begin, end \in 0 .. Length : begin < end /\ RequestRange(begin, end)
      <3>1. PICK begin \in 0 .. Length, end \in 0 .. Length :
                begin < end /\ RequestRange(begin, end)
        BY <2>2
      <3>2. RangeRequested(begin, end) \subseteq Chunks
        BY <3>1, RequestedInFile, SizeAssumption
      <3> QED BY <1>3, <3>1, <3>2 DEF RequestRange
    <2> QED BY <1>12, <2>1, <2>2 DEF Call
  <1> QED
    BY <1>4, <1>5, <1>6, <1>7, <1>8, <1>9, <1>10, <1>11, <1>12 DEF Next, FetchEnds

\* While nothing has failed, every chunk somebody waits for is on its way, and with
\* auto-fetch data is followed by a request for more until the file is there, for files and
\* chunks of every size (onReceiveData, sendRequest).
THEOREM WorkNeverStops == Spec => []WorkGoesOn
  <1>1. WorkInv => WorkGoesOn
    BY DEF WorkInv, WorkSound
  <1> QED BY <1>1, InitWork, NextWork, PTL DEF Spec

==============================================================================
