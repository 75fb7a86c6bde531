-------------------------- MODULE NetworkPDFManager_proofs --------------------------
(***************************************************************************)
(* What parsers that run through ensure may rely on, for files and chunks  *)
(* of every size, any number of jobs and any programs.                     *)
(*                                                                         *)
(* The module goes from the checks of one read, through a view that may be *)
(* old, to all reads of a run (the cache of the view is as good as the     *)
(* checks that filled it), to the inductive invariant, to the theorems.    *)
(***************************************************************************)
EXTENDS NetworkPDFManager, ChunkedStreamManager_proofs

(* Numbers.                                                                 *)

\* A set of naturals below a bound has a greatest element.
LEMMA GreatestNatural ==
    ASSUME NEW bound \in Nat, NEW S \in SUBSET (0 .. bound), S # {}
    PROVE  \E m \in S : \A n \in S : n <= m
  <1> DEFINE T == {bound - n : n \in S}
  <1>1. T \in SUBSET Nat /\ T # {}
    <2>1. \A n \in S : n \in Nat /\ n <= bound
      OBVIOUS
    <2>2. \A n \in S : bound - n \in Nat
      BY <2>1
    <2> QED BY <2>2
  <1>2. PICK t \in T : \A u \in T : t <= u
    BY <1>1, LeastNatural
  <1>3. PICK m \in S : t = bound - m
    BY <1>2
  <1>4. ASSUME NEW n \in S PROVE n <= m
    <2>1. t <= bound - n
      BY <1>2
    <2>2. n \in Nat /\ m \in Nat
      OBVIOUS
    <2> QED BY <2>1, <2>2, <1>3
  <1> QED BY <1>4

\* Chunk numbers are ordered as positions are.
LEMMA ChunkOrder ==
    ASSUME NEW a \in Nat, NEW b \in Nat, a <= b
    PROVE  a \div ChunkSize \in Nat /\ b \div ChunkSize \in Nat /\ a \div ChunkSize <= b \div ChunkSize
  <1> USE SizeAssumption
  <1>1. /\ a \div ChunkSize \in Int
        /\ ChunkSize * (a \div ChunkSize) <= a /\ a < ChunkSize * (a \div ChunkSize) + ChunkSize
    BY Division
  <1>2. /\ b \div ChunkSize \in Int
        /\ ChunkSize * (b \div ChunkSize) <= b /\ b < ChunkSize * (b \div ChunkSize) + ChunkSize
    BY Division
  <1>3. a \div ChunkSize >= 0
    <2>1. CASE a \div ChunkSize <= -1
      <3>1. ChunkSize * (a \div ChunkSize) <= ChunkSize * (-1)
        BY <1>1, <2>1, TimesMonotone
      <3> QED BY <3>1, <1>1
    <2> QED BY <2>1, <1>1
  <1>4. a \div ChunkSize <= b \div ChunkSize
    <2>1. CASE b \div ChunkSize + 1 <= a \div ChunkSize
      <3>1. ChunkSize * (b \div ChunkSize + 1) <= ChunkSize * (a \div ChunkSize)
        BY <1>1, <1>2, <2>1, TimesMonotone
      <3> QED BY <3>1, <1>1, <1>2
    <2> QED BY <2>1, <1>1, <1>2
  <1> QED BY <1>1, <1>2, <1>3, <1>4

\* A position is in its chunk, which is one of the file.
LEMMA PositionInChunk ==
    ASSUME NEW p \in Positions
    PROVE  p \div ChunkSize \in Chunks /\ p \in BytesOf(p \div ChunkSize)
  <1> USE SizeAssumption, NumChunksBounds
  <1>1. /\ p \div ChunkSize \in Int
        /\ ChunkSize * (p \div ChunkSize) <= p /\ p < ChunkSize * (p \div ChunkSize) + ChunkSize
    BY Division DEF Positions
  <1>2. p \div ChunkSize \in Nat
    BY ChunkOrder DEF Positions
  <1>3. p \div ChunkSize < NumChunks
    <2>1. CASE NumChunks <= p \div ChunkSize
      <3>1. ChunkSize * NumChunks <= ChunkSize * (p \div ChunkSize)
        BY <1>1, <2>1, TimesMonotone
      <3> QED BY <3>1, <1>1 DEF Positions
    <2> QED BY <2>1, <1>1
  <1> QED BY <1>1, <1>2, <1>3 DEF Chunks, BytesOf

------------------------------------------------------------------------------
(* One read.                                                                *)

\* A view is a copy of what once was true, and data is never taken back.
ViewSound(view) ==
    /\ view \in Views
    /\ view.progressive <= progressiveDataLength
    /\ view.last \in {-1} \cup loadedChunks

\* A read that is not stopped finds its bytes, however old its view is.
LEMMA PassedRead ==
    ASSUME IInv, NEW view, ViewSound(view), NEW read \in Reads, read.begin < read.end,
           read.byte => read.end = read.begin + 1, ~Throws(view, read)
    PROVE  ReadBytes(read) \subseteq bytes
  <1> SUFFICES ASSUME NEW p \in Positions, read.begin <= p, p < read.end PROVE p \in bytes
    BY DEF ReadBytes, Reads
  <1> USE SizeAssumption, NumChunksBounds
  <1>1. p \in Nat /\ read.begin \in Nat /\ read.end \in Nat /\ view.progressive \in Nat
    BY DEF Positions, Reads, ViewSound, Views
  <1>2. p \div ChunkSize \in Chunks /\ p \in BytesOf(p \div ChunkSize)
    BY PositionInChunk
  <1>3. CASE p < view.progressive
    <2>1. p \in 0 .. progressiveDataLength - 1
      BY <1>1, <1>3 DEF ViewSound, IInv, StreamInv
    <2> QED BY <2>1 DEF IInv, StreamInv, PrefixWritten
  <1>4. CASE p \div ChunkSize \in loadedChunks
    BY <1>2, <1>4 DEF IInv, StreamInv, LoadedIsWritten
  <1>5. CASE read.byte /\ ~(p < view.progressive)
    <2>1. p = read.begin
      BY <1>1, <1>5
    <2>2. ~EnsureByteThrows(view, p)
      BY <1>5, <2>1 DEF Throws
    <2>3. p \div ChunkSize <= NumChunks /\ p \div ChunkSize # -1
      BY <1>2 DEF Chunks
    <2>4. p \div ChunkSize \in loadedChunks
      BY <2>2, <2>3, <1>1, <1>5 DEF EnsureByteThrows, ViewSound
    <2> QED BY <2>4, <1>4
  <1>6. CASE ~read.byte /\ ~(p < view.progressive) /\ p \div ChunkSize \notin loadedChunks
    <2>1. ~EnsureRangeThrows(view, read.begin, read.end)
      BY <1>6 DEF Throws
    <2>2. read.begin \div ChunkSize <= p \div ChunkSize
      BY <1>1, ChunkOrder
    <2>3. p \div ChunkSize <= (read.end - 1) \div ChunkSize
      BY <1>1, ChunkOrder
    <2>4. read.begin \div ChunkSize <= NumChunks
      BY <1>1, <1>2, <2>2, ChunkOrder DEF Chunks
    <2>5. read.end > view.progressive
      BY <1>1, <1>6
    <2>6. p \div ChunkSize \in MissingChunks
      BY <1>2, <1>6 DEF MissingChunks
    <2> QED BY <2>1, <2>2, <2>3, <2>4, <2>5, <2>6 DEF EnsureRangeThrows
  <1> QED BY <1>3, <1>4, <1>5, <1>6

------------------------------------------------------------------------------
(* All reads of a run.                                                      *)

\* What the assumption says of one read.
LEMMA ReadOfProgram ==
    ASSUME NEW job \in Job, NEW k \in 1 .. Len(Program[job])
    PROVE  /\ Program[job][k] \in Reads
           /\ Program[job][k].begin < Program[job][k].end
           /\ Program[job][k].byte => Program[job][k].end = Program[job][k].begin + 1
  BY ProgramAssumption

\* The read before number i that decides what the cache of the view is.
LEMMA CachingRead ==
    ASSUME NEW job \in Job, NEW i \in 1 .. Len(Program[job]) + 1, Caching(job, i) # {}
    PROVE  \E k \in Caching(job, i) :
              ViewBefore(job, i) =
                  [task[job].view EXCEPT !.last = Program[job][k].begin \div ChunkSize]
  <1>1. Len(Program[job]) \in Nat
    BY ProgramAssumption
  <1>2. Caching(job, i) \subseteq 0 .. i - 1 /\ i - 1 \in Nat
    BY <1>1 DEF Caching
  <1>3. \E m \in Caching(job, i) : \A n \in Caching(job, i) : n <= m
    BY <1>2, GreatestNatural
  <1> DEFINE k == CHOOSE k \in Caching(job, i) : \A j \in Caching(job, i) : j <= k
  <1>4. k \in Caching(job, i)
    BY <1>3
  <1>5. ViewBefore(job, i) =
            [task[job].view EXCEPT !.last = LastAfterEnsureByte(task[job].view, Program[job][k].begin)]
    BY DEF ViewBefore
  <1> HIDE DEF k
  <1>6. LastAfterEnsureByte(task[job].view, Program[job][k].begin) = Program[job][k].begin \div ChunkSize
    BY <1>4 DEF Caching, LastAfterEnsureByte
  <1> QED BY <1>4, <1>5, <1>6

\* The cache names only loaded chunks: a read that sets it has found its chunk loaded, or
\* named by the cache, which an earlier read has set; take the first that has not.
LEMMA CachedIsLoaded ==
    ASSUME IInv, NEW job \in Job, ViewSound(task[job].view),
           NEW i \in 1 .. Len(Program[job]) + 1, \A k \in 1 .. i - 1 : ~ThrowsAt(job, k)
    PROVE  \A k \in Caching(job, i) : Program[job][k].begin \div ChunkSize \in loadedChunks
  <1> DEFINE chunk(k) == Program[job][k].begin \div ChunkSize
             bad == {k \in Caching(job, i) : chunk(k) \notin loadedChunks}
  <1> SUFFICES ASSUME bad # {} PROVE FALSE
    OBVIOUS
  <1>0. Len(Program[job]) \in Nat
    BY ProgramAssumption
  <1>1. bad \in SUBSET Nat
    BY <1>0 DEF Caching
  <1>2. PICK j \in bad : \A k \in bad : j <= k
    <2> HIDE DEF bad
    <2> QED BY <1>1, LeastNatural
  <1>3. /\ j \in 1 .. i - 1 /\ Program[job][j].byte
        /\ ~ReturnsEarly(task[job].view, Program[job][j].begin)
    BY <1>2 DEF Caching
  <1>4. j \in 1 .. Len(Program[job]) /\ j \in 1 .. Len(Program[job]) + 1
    BY <1>0, <1>3
  <1>5. Program[job][j].begin \in Nat
    BY <1>4, ReadOfProgram DEF Reads
  <1>6. chunk(j) \in Nat
    <2>1. Program[job][j].begin <= Program[job][j].begin
      BY <1>5
    <2>2. Program[job][j].begin \div ChunkSize \in Nat
      BY <1>5, <2>1, ChunkOrder
    <2> QED BY <2>2
  <1>7. ~EnsureByteThrows(ViewBefore(job, j), Program[job][j].begin)
    BY <1>3 DEF ThrowsAt, Throws
  <1>8. chunk(j) = ViewBefore(job, j).last
    <2>1. ViewBefore(job, j).progressive = task[job].view.progressive
      <3>1. CASE Caching(job, j) = {}
        BY <3>1 DEF ViewBefore
      <3>2. CASE Caching(job, j) # {}
        BY <3>2, <1>4, CachingRead DEF ViewSound, Views
      <3> QED BY <3>1, <3>2
    <2>2. chunk(j) \notin loadedChunks
      BY <1>2
    <2>3. Program[job][j].begin >= task[job].view.progressive /\ chunk(j) <= NumChunks
      BY <1>3, <1>5, <1>6, NumChunksBounds DEF ReturnsEarly, ViewSound, Views
    <2> QED BY <1>7, <2>1, <2>2, <2>3 DEF EnsureByteThrows
  <1>9. CASE Caching(job, j) = {}
    <2>1. chunk(j) \in {-1} \cup loadedChunks
      BY <1>8, <1>9 DEF ViewBefore, ViewSound
    <2> QED BY <2>1, <1>2, <1>6
  <1>10. CASE Caching(job, j) # {}
    <2>1. PICK k \in Caching(job, j) :
              ViewBefore(job, j) = [task[job].view EXCEPT !.last = chunk(k)]
      BY <1>4, <1>10, CachingRead
    <2>2. chunk(j) = chunk(k)
      BY <1>8, <2>1 DEF ViewSound, Views
    <2>3. k \in Caching(job, i) /\ k < j /\ k \in Nat
      BY <2>1, <1>3 DEF Caching
    <2>4. k \in bad
      BY <1>2, <2>2, <2>3
    <2> QED BY <1>1, <1>2, <2>3, <2>4
  <1> QED BY <1>9, <1>10

\* So the view is as good before each read of a run as it was before the first.
LEMMA ViewBeforeSound ==
    ASSUME IInv, NEW job \in Job, ViewSound(task[job].view),
           NEW i \in 1 .. Len(Program[job]) + 1, \A k \in 1 .. i - 1 : ~ThrowsAt(job, k)
    PROVE  ViewSound(ViewBefore(job, i))
  <1>1. CASE Caching(job, i) = {}
    BY <1>1 DEF ViewBefore
  <1>2. CASE Caching(job, i) # {}
    <2>1. PICK k \in Caching(job, i) :
              ViewBefore(job, i) =
                  [task[job].view EXCEPT !.last = Program[job][k].begin \div ChunkSize]
      BY <1>2, CachingRead
    <2>2. Program[job][k].begin \div ChunkSize \in loadedChunks
      BY CachedIsLoaded
    <2>3. Program[job][k].begin \div ChunkSize \in -1 .. NumChunks
      <3>1. Chunks \subseteq -1 .. NumChunks
        BY NumChunksBounds DEF Chunks
      <3> QED BY <2>2, <3>1 DEF IInv, StreamInv
    <2> QED BY <2>1, <2>2, <2>3 DEF ViewSound, Views
  <1> QED BY <1>1, <1>2

\* Whatever a run has read before it ends was there.
LEMMA RunReadsWritten ==
    ASSUME IInv, NEW job \in Job, ViewSound(task[job].view),
           NEW i \in 1 .. Len(Program[job]) + 1, \A k \in 1 .. i - 1 : ~ThrowsAt(job, k)
    PROVE  UNION {ReadBytes(Program[job][k]) : k \in 1 .. i - 1} \subseteq bytes
  <1> SUFFICES ASSUME NEW k \in 1 .. i - 1 PROVE ReadBytes(Program[job][k]) \subseteq bytes
    OBVIOUS
  <1>1. Len(Program[job]) \in Nat
    BY ProgramAssumption
  <1>2. k \in 1 .. Len(Program[job]) /\ k \in 1 .. Len(Program[job]) + 1
    BY <1>1
  <1>3. \A j \in 1 .. k - 1 : ~ThrowsAt(job, j)
    BY <1>1
  <1>4. ViewSound(ViewBefore(job, k))
    BY <1>2, <1>3, ViewBeforeSound
  <1>5. ~Throws(ViewBefore(job, k), Program[job][k])
    BY DEF ThrowsAt
  <1> QED BY <1>2, <1>4, <1>5, ReadOfProgram, PassedRead

------------------------------------------------------------------------------
(* What no step takes back.                                                 *)

DataStays ==
    /\ bytes \subseteq bytes'
    /\ loadedChunks \subseteq loadedChunks'
    /\ progressiveDataLength <= progressiveDataLength'

RequestsStay ==
    /\ Ids \subseteq Ids'
    /\ \A id \in Ids : asked'[id] = asked[id]

\* A request gets an id of its own.
LEMMA RequestIsAdded ==
    ASSUME IInv, NEW S, NEW needed, NEW byChunk, NEW promises, NEW settled, NEW inFlight,
           RequestChunks(S, needed, byChunk, promises, settled, inFlight)
    PROVE  RequestsStay /\ currRequestId \in Ids' /\ asked'[currRequestId] = S
  <1>1. currRequestId \in Nat
    BY DEF IInv, RequestInv
  <1>2. /\ currRequestId' = currRequestId + 1
        /\ asked' = [i \in 0 .. currRequestId |-> IF i = currRequestId THEN S ELSE asked[i]]
    BY DEF RequestChunks
  <1> QED BY <1>1, <1>2 DEF RequestsStay, Ids

\* A call of the manager adds a request and nothing else.
LEMMA CallStays ==
    ASSUME IInv, NEW S, CallRequestChunks(S)
    PROVE  DataStays /\ RequestsStay /\ currRequestId \in Ids' /\ asked'[currRequestId] = S
  <1>1. UNCHANGED streamVars
    BY DEF CallRequestChunks
  <1>2. DataStays
    BY <1>1 DEF DataStays, streamVars, IInv, StreamInv
  <1>3. RequestChunks(S, chunksNeeded, requestsByChunk, promisesByRequest, promise, fetches)
    BY DEF CallRequestChunks
  <1> QED BY <1>2, <1>3, RequestIsAdded

\* Data that arrives adds at most a request of the manager's own.
LEMMA ReceivedStays ==
    ASSUME IInv, NEW begin, NEW end, NEW inFlight, Received(begin, end, inFlight)
    PROVE  RequestsStay
  <1> DEFINE C    == ReceivedChunks(begin, end)
             left == promisesByRequest \ CompletedBy(C)
             auto == AutoFetch(ByChunkWithout(C), loadedChunks', ReceivedEndChunk(end))
  <1>1. CASE RequestChunks(auto, NeededWithout(C), ByChunkWithout(C), left, SettledBy(C), inFlight)
    <2> HIDE DEF C, left, auto
    <2> QED BY <1>1, RequestIsAdded
  <1>2. CASE UNCHANGED <<currRequestId, asked>>
    BY <1>2 DEF RequestsStay, Ids
  <1> QED BY <1>1, <1>2 DEF Received

\* What is there stays there, and what was asked for stays what it was.
LEMMA NextStays ==
    ASSUME IInv, [Next]_vars
    PROVE  DataStays /\ RequestsStay
  <1>1. progressiveDataLength \in Nat
    BY DEF IInv, StreamInv
  <1>2. CASE Call
    <2>1. PICK S : CallRequestChunks(S)
      BY <1>2 DEF Call, RequestAllChunks, RequestRange
    <2> QED BY <2>1, CallStays
  <1>3. ASSUME NEW fetch \in fetches, FetchDone(fetch)
        PROVE  DataStays /\ RequestsStay
    <2>1. PICK end \in ResponseEnds(fetch) :
              /\ StreamReceiveData(fetch.begin * ChunkSize, end)
              /\ Received(fetch.begin * ChunkSize, end, fetches \ {fetch})
      BY <1>3 DEF FetchDone
    <2> QED BY <1>1, <2>1, ReceivedStays DEF StreamReceiveData, DataStays
  <1>4. ASSUME NEW fetch \in fetches, FetchSkipped(fetch)
        PROVE  DataStays /\ RequestsStay
    BY <1>1, <1>4, ReceivedStays DEF FetchSkipped, streamVars, DataStays
  <1>5. ASSUME NEW fetch \in fetches, FetchIgnored(fetch) \/ FetchFailed(fetch)
        PROVE  DataStays /\ RequestsStay
    BY <1>1, <1>5 DEF FetchIgnored, FetchFailed, streamVars, DataStays, RequestsStay, Ids
  <1>6. ASSUME NEW end \in 1 .. Length, Arrive(end)
        PROVE  DataStays /\ RequestsStay
    BY <1>1, <1>6 DEF Arrive, streamVars, DataStays, RequestsStay, Ids
  <1>7. ASSUME NEW end \in 1 .. Length, ProgressiveData(end)
        PROVE  DataStays /\ RequestsStay
    <2>1. RequestsStay
      BY <1>7, ReceivedStays DEF ProgressiveData
    <2> QED BY <1>1, <1>7, <2>1 DEF ProgressiveData, StreamReceiveProgressiveData, DataStays
  <1>8. CASE Abort
    BY <1>1, <1>8 DEF Abort, streamVars, DataStays, RequestsStay, Ids
  <1>9. CASE UNCHANGED vars
    BY <1>1, <1>9 DEF vars, managerVars, streamVars, DataStays, RequestsStay, Ids
  <1> QED BY <1>2, <1>3, <1>4, <1>5, <1>6, <1>7, <1>8, <1>9 DEF Next, FetchEnds

------------------------------------------------------------------------------
(* The inductive invariant.                                                 *)

Tasks == [state : States, view : Views, at : Nat, id : Nat, read : SUBSET Positions]

\* The chunks that the manager is asked for after a read that threw.
Missed(read) == RangeRequested(read.begin, IF read.byte THEN read.begin + 1 ELSE read.end)

\* A task reads through a sound view, has read what was there, and waits for the request
\* made for the read that threw.
TaskSound(job) ==
    /\ ViewSound(task[job].view)
    /\ task[job].read \subseteq bytes
    /\ task[job].state = "waiting" =>
          /\ task[job].at \in 1 .. Len(Program[job])
          /\ task[job].id \in Ids
          /\ asked[task[job].id] = Missed(Program[job][task[job].at])

EnsureInv ==
    /\ IInv
    /\ task \in [Job -> Tasks]
    /\ \A job \in Job : TaskSound(job)

\* A task that does nothing stays sound.
LEMMA IdleTaskSound ==
    ASSUME IInv, DataStays, RequestsStay, progressiveDataLength' \in Nat,
           NEW job \in Job, TaskSound(job), task'[job] = task[job]
    PROVE  TaskSound(job)'
  <1>1. ViewSound(task[job].view)'
    <2>1. progressiveDataLength \in Nat
      BY DEF IInv, StreamInv
    <2>2. task[job].view.progressive \in Nat
      BY DEF TaskSound, ViewSound, Views
    <2> QED BY <2>1, <2>2 DEF TaskSound, ViewSound, DataStays
  <1> QED BY <1>1 DEF TaskSound, DataStays, RequestsStay

\* The invariant holds before any job has begun ...
LEMMA EnsureInitInv == EnsureInit => EnsureInv
  <1> SUFFICES ASSUME EnsureInit PROVE EnsureInv
    OBVIOUS
  <1>1. IInv
    BY InitIInv DEF EnsureInit
  <1>2. CurrentView(-1) \in Views /\ ViewSound(CurrentView(-1))
    <2>1. progressiveDataLength = 0
      BY DEF EnsureInit, Init, StreamInit
    <2> QED BY <2>1, SizeAssumption, NumChunksBounds DEF CurrentView, Views, ViewSound
  <1>3. \A job \in Job : task[job] = [state |-> "none", view |-> CurrentView(-1),
                                     at |-> 0, id |-> 0, read |-> {}]
    BY DEF EnsureInit
  <1>4. task \in [Job -> Tasks]
    BY <1>2, <1>3 DEF EnsureInit, Tasks, States
  <1> QED BY <1>1, <1>2, <1>3, <1>4 DEF EnsureInv, TaskSound

\* ... when a view is copied ...
LEMMA MakeSubStreamInv ==
    ASSUME EnsureInv, NEW job \in Job, MakeSubStream(job)
    PROVE  EnsureInv'
  <1>1. IInv' /\ DataStays /\ RequestsStay
    <2>1. UNCHANGED vars
      BY DEF MakeSubStream
    <2> QED BY <2>1, NextIInv, NextStays DEF EnsureInv
  <1>2. PICK last \in {-1} \cup loadedChunks :
            task' = [task EXCEPT ![job].state = "ready", ![job].view = CurrentView(last)]
    BY DEF MakeSubStream
  <1>3. UNCHANGED <<loadedChunks, progressiveDataLength>>
    BY DEF MakeSubStream, vars, streamVars
  <1>4. CurrentView(last) \in Views /\ ViewSound(CurrentView(last))'
    <2>1. progressiveDataLength \in 0 .. Length /\ progressiveDataLength' = progressiveDataLength
      BY <1>3 DEF EnsureInv, IInv, StreamInv
    <2>2. last \in -1 .. NumChunks
      <3>1. Chunks \subseteq -1 .. NumChunks
        BY NumChunksBounds DEF Chunks
      <3> QED BY <3>1, NumChunksBounds DEF EnsureInv, IInv, StreamInv
    <2> QED BY <1>3, <2>1, <2>2 DEF CurrentView, Views, ViewSound
  <1>5. task' \in [Job -> Tasks]
    BY <1>2, <1>4 DEF EnsureInv, Tasks, States
  <1>6. TaskSound(job)'
    <2>1. /\ task'[job].state = "ready" /\ task'[job].view = CurrentView(last)
          /\ task'[job].read = task[job].read
      BY <1>2 DEF EnsureInv, Tasks
    <2>2. CurrentView(last)' = CurrentView(last)
      BY <1>3 DEF CurrentView
    <2>3. ViewSound(task[job].view)'
      BY <1>4, <2>1, <2>2 DEF ViewSound
    <2> QED BY <1>1, <2>1, <2>3 DEF EnsureInv, TaskSound, DataStays
  <1>7. ASSUME NEW other \in Job \ {job} PROVE TaskSound(other)'
    BY <1>1, <1>2, IdleTaskSound DEF EnsureInv, IInv, StreamInv
  <1> QED BY <1>1, <1>5, <1>6, <1>7 DEF EnsureInv

\* ... after each run of a function ...
LEMMA RunInv ==
    ASSUME EnsureInv, NEW job \in Job, Run(job)
    PROVE  EnsureInv'
  <1>1. PICK i \in 1 .. Len(Program[job]) + 1 :
            /\ FirstThrow(job, i)
            /\ \/ /\ i > Len(Program[job])
                  /\ RunEnds(job, i, "done")
                  /\ UNCHANGED vars
               \/ /\ i <= Len(Program[job]) /\ currRequestId < MaxRequests
                  /\ RunEnds(job, i, "waiting")
                  /\ CallRequestChunks(Missed(Program[job][i]))
    BY DEF Run, RequestRange, Missed
  <1>2. \A k \in 1 .. i - 1 : ~ThrowsAt(job, k)
    BY <1>1 DEF FirstThrow
  <1>3. Len(Program[job]) \in Nat
    BY ProgramAssumption
  <1>4. PICK view, read :
            /\ view = ViewBefore(job, i)
            /\ read = UNION {ReadBytes(Program[job][k]) : k \in 1 .. i - 1}
    OBVIOUS
  <1>5. ViewSound(view) /\ read \subseteq bytes
    BY <1>2, <1>4, ViewBeforeSound, RunReadsWritten DEF EnsureInv, TaskSound
  <1>6. PICK state \in {"done", "waiting"} :
            /\ task' = [task EXCEPT ![job] = [state |-> state, view |-> view, at |-> i,
                                            id |-> currRequestId, read |-> read]]
            /\ state = "waiting" => /\ i <= Len(Program[job])
                                    /\ CallRequestChunks(Missed(Program[job][i]))
            /\ state = "done" => UNCHANGED vars
    BY <1>1, <1>4 DEF RunEnds
  <1>7. /\ IInv' /\ DataStays /\ RequestsStay
        /\ state = "waiting" => /\ currRequestId \in Ids'
                                /\ asked'[currRequestId] = Missed(Program[job][i])
    <2>1. CASE state = "done"
      BY <1>6, <2>1, NextIInv, NextStays DEF EnsureInv
    <2>2. CASE state = "waiting"
      <3>1. i \in 1 .. Len(Program[job])
        BY <1>3, <1>6, <2>2
      <3>2. Program[job][i].begin \in Nat /\ Program[job][i].end \in Nat \ {0}
            /\ Program[job][i].begin + 1 \in Nat \ {0}
        BY <3>1, ReadOfProgram DEF Reads
      <3>3. Missed(Program[job][i]) \subseteq Chunks
        BY <3>2, RequestedInFile DEF Missed
      <3> QED BY <1>6, <2>2, <3>3, CallPreserves, CallStays DEF EnsureInv
    <2> QED BY <2>1, <2>2
  <1>8. progressiveDataLength' \in Nat /\ progressiveDataLength \in Nat
    BY <1>7 DEF EnsureInv, IInv, StreamInv
  <1>9. /\ task'[job].state = state /\ task'[job].view = view /\ task'[job].at = i
        /\ task'[job].id = currRequestId /\ task'[job].read = read
    BY <1>6 DEF EnsureInv
  <1>10. TaskSound(job)'
    <2>1. ViewSound(task[job].view)'
      BY <1>5, <1>7, <1>8, <1>9 DEF ViewSound, Views, DataStays
    <2>2. (task[job].read \subseteq bytes)'
      BY <1>5, <1>7, <1>9 DEF DataStays
    <2>3. state = "waiting" => i \in 1 .. Len(Program[job])
      BY <1>3, <1>6
    <2> QED BY <1>7, <1>9, <2>1, <2>2, <2>3 DEF TaskSound
  <1>11. task' \in [Job -> Tasks]
    <2>1. [state |-> state, view |-> view, at |-> i, id |-> currRequestId, read |-> read] \in Tasks
      <3>1. read \subseteq Positions /\ currRequestId \in Nat
        BY <1>5 DEF EnsureInv, IInv, StreamInv, RequestInv
      <3>2. i \in Nat
        BY <1>3
      <3> QED BY <1>5, <3>1, <3>2 DEF Tasks, States, ViewSound
    <2> QED BY <1>6, <2>1 DEF EnsureInv
  <1>12. ASSUME NEW other \in Job \ {job} PROVE TaskSound(other)'
    <2>1. task'[other] = task[other]
      BY <1>6 DEF EnsureInv
    <2> QED BY <1>7, <1>8, <2>1, IdleTaskSound DEF EnsureInv
  <1> QED BY <1>7, <1>10, <1>11, <1>12 DEF EnsureInv

\* ... and whatever the manager and the network do meanwhile.
LEMMA OtherStepsInv ==
    ASSUME EnsureInv, [Next]_vars,
           task' = task \/ \E job \in Job : task' = [task EXCEPT ![job].state = "failed"]
    PROVE  EnsureInv'
  <1>1. IInv' /\ DataStays /\ RequestsStay
    BY NextIInv, NextStays DEF EnsureInv
  <1>2. task' \in [Job -> Tasks]
    BY DEF EnsureInv, Tasks, States
  <1>3. ASSUME NEW job \in Job PROVE TaskSound(job)'
    <2>1. CASE task'[job] = task[job]
      BY <1>1, <2>1, IdleTaskSound DEF EnsureInv, IInv, StreamInv
    <2>2. CASE task'[job] = [task[job] EXCEPT !.state = "failed"]
      <3>1. /\ task'[job].state = "failed" /\ task'[job].view = task[job].view
            /\ task'[job].read = task[job].read
        BY <2>2 DEF EnsureInv, Tasks
      <3>2. progressiveDataLength' \in Nat /\ progressiveDataLength \in Nat
        BY <1>1 DEF EnsureInv, IInv, StreamInv
      <3>3. ViewSound(task[job].view)'
        BY <1>1, <3>1, <3>2 DEF EnsureInv, TaskSound, ViewSound, Views, DataStays
      <3> QED BY <1>1, <3>1, <3>3 DEF EnsureInv, TaskSound, DataStays
    <2> QED BY <2>1, <2>2 DEF EnsureInv
  <1> QED BY <1>1, <1>2, <1>3 DEF EnsureInv

LEMMA EnsureNextInv == EnsureInv /\ [EnsureNext]_ensureVars => EnsureInv'
  <1> SUFFICES ASSUME EnsureInv, [EnsureNext]_ensureVars PROVE EnsureInv'
    OBVIOUS
  <1>1. CASE Environment
    <2>1. [Next]_vars
      <3>1. CASE currRequestId < MaxCalls /\ RequestAllChunks
        <4>1. currRequestId < MaxRequests
          BY <3>1, CallAssumption, OptionAssumption DEF EnsureInv, IInv, RequestInv
        <4> QED BY <3>1, <4>1 DEF Next, Call
      <3> QED BY <1>1, <3>1 DEF Environment, Next
    <2> QED BY <1>1, <2>1, OtherStepsInv DEF Environment
  <1>2. ASSUME NEW job \in Job, MakeSubStream(job) PROVE EnsureInv'
    BY <1>2, MakeSubStreamInv
  <1>3. ASSUME NEW job \in Job, Run(job) PROVE EnsureInv'
    BY <1>3, RunInv
  <1>4. ASSUME NEW job \in Job, Rejected(job) PROVE EnsureInv'
    BY <1>4, OtherStepsInv DEF Rejected
  <1>5. CASE UNCHANGED ensureVars
    BY <1>5, OtherStepsInv DEF ensureVars
  <1> QED BY <1>1, <1>2, <1>3, <1>4, <1>5 DEF EnsureNext

LEMMA EnsureInvariance == EnsureSpec => []EnsureInv
  BY EnsureInitInv, EnsureNextInv, PTL DEF EnsureSpec

------------------------------------------------------------------------------
(* What follows from it.                                                    *)

\* A parser reads only bytes that have arrived, whatever file, chunks, programs and order of
\* arrivals: the copies that its view is made of are never refreshed and are never wrong.
THEOREM ParsersReadWrittenBytes == EnsureSpec => []OnlyWrittenBytesRead
  <1>1. EnsureInv => OnlyWrittenBytesRead
    BY DEF EnsureInv, TaskSound, Tasks, OnlyWrittenBytesRead, EnsureTypeOK
  <1> QED BY <1>1, EnsureInvariance, PTL

\* The single bytes that programs read are bytes of the file.  (Behind its end, the chunk
\* number NumChunks passes the check of ensureByte and is never loaded.)
BytesInFile ==
    \A job \in Job : \A i \in DOMAIN Program[job] :
        Program[job][i].byte => Program[job][i].begin < Length

\* The chunks of a request, from its positions.
LEMMA ChunksRequested ==
    ASSUME NEW begin \in Nat, NEW end, NEW stop \in Nat, Minimum(end, Length) = stop,
           NEW chunk \in Nat, begin \div ChunkSize <= chunk, chunk <= (stop - 1) \div ChunkSize
    PROVE  chunk \in RangeRequested(begin, end)
  <1>1. begin \div ChunkSize \in Int /\ (stop - 1) \div ChunkSize \in Int
    BY Division, SizeAssumption
  <1>2. GetBeginChunk(begin) = begin \div ChunkSize
    BY DEF GetBeginChunk
  <1>3. GetEndChunk(Minimum(end, Length)) = (stop - 1) \div ChunkSize + 1
    BY DEF GetEndChunk
  <1> QED BY <1>1, <1>2, <1>3 DEF RangeRequested

\* What a request for a missed read asks for is what that read needs.
LEMMA MissedIsNeeded ==
    ASSUME NEW read \in Reads, read.begin < read.end, read.byte => read.begin < Length,
           Missed(read) \subseteq loadedChunks, NEW view, view \in Views
    PROVE  ~Throws(view, read)
  <1> USE SizeAssumption, NumChunksBounds
  <1>1. read.begin \in Nat /\ read.end \in Nat /\ read.end - 1 \in Nat
    BY DEF Reads
  <1>2. CASE read.byte
    <2>1. Minimum(read.begin + 1, Length) = read.begin + 1
      BY <1>1, <1>2 DEF Minimum
    <2>2. read.begin \div ChunkSize \in Nat
      <3>1. read.begin <= read.begin
        BY <1>1
      <3> QED BY <1>1, <3>1, ChunkOrder
    <2>3. Missed(read) = RangeRequested(read.begin, read.begin + 1)
      BY <1>2 DEF Missed
    <2>4. (read.begin + 1) - 1 = read.begin /\ read.begin + 1 \in Nat
      BY <1>1
    <2>5. read.begin \div ChunkSize \in Missed(read)
      BY <1>1, <2>1, <2>2, <2>3, <2>4, ChunksRequested
    <2> QED BY <1>2, <2>5 DEF Throws, EnsureByteThrows
  <1>3. CASE ~read.byte
    <2> DEFINE stop == Minimum(read.end, Length)
    <2> SUFFICES ASSUME NEW chunk \in MissingChunks, read.begin \div ChunkSize <= chunk,
                        chunk <= (read.end - 1) \div ChunkSize
                 PROVE  FALSE
      BY <1>3 DEF Throws, EnsureRangeThrows
    <2>1. stop \in Nat /\ stop - 1 \in Nat /\ (stop = read.end \/ stop = Length)
      BY <1>1 DEF Minimum
    <2>2. chunk \in Chunks /\ chunk \notin loadedChunks /\ chunk \in Nat /\ chunk <= NumChunks - 1
      BY DEF MissingChunks, Chunks
    <2>3. chunk <= (stop - 1) \div ChunkSize
      <3>1. CASE stop = Length
        <4>1. NumChunks - 1 <= (Length - 1) \div ChunkSize
          <5>1. /\ (Length - 1) \div ChunkSize \in Int
                /\ Length - 1 < ChunkSize * ((Length - 1) \div ChunkSize) + ChunkSize
            BY Division
          <5>2. CASE (Length - 1) \div ChunkSize + 1 <= NumChunks - 1
            <6>1. ChunkSize * ((Length - 1) \div ChunkSize + 1) <= ChunkSize * (NumChunks - 1)
              BY <5>1, <5>2, TimesMonotone
            <6> QED BY <5>1, <6>1
          <5> QED BY <5>1, <5>2
        <4>2. (Length - 1) \div ChunkSize \in Int
          BY Division
        <4> QED BY <2>2, <3>1, <4>1, <4>2
      <3> QED BY <2>1, <3>1
    <2>4. Missed(read) = RangeRequested(read.begin, read.end)
      BY <1>3 DEF Missed
    <2>5. chunk \in Missed(read)
      BY <1>1, <2>1, <2>2, <2>3, <2>4, ChunksRequested
    <2> QED BY <2>2, <2>5
  <1> QED BY <1>2, <1>3

\* When the request for a missing range is answered, the read that missed it succeeds, for
\* programs that look for bytes in the file only: requestRange rounds to the chunks that the
\* checks look at, up to the end of the file.
THEOREM RetriesAreNotInVain ==
    ASSUME BytesInFile
    PROVE  EnsureSpec => []NoRetryInVain
  <1>1. EnsureInv => NoRetryInVain
    <2> SUFFICES ASSUME EnsureInv, NEW job \in Job, task[job].state = "waiting",
                        promise[task[job].id] = "resolved"
                 PROVE  ~Throws(task[job].view, Program[job][task[job].at])
      BY DEF NoRetryInVain
    <2>1. /\ task[job].at \in 1 .. Len(Program[job])
          /\ task[job].id \in Ids
          /\ asked[task[job].id] = Missed(Program[job][task[job].at])
      BY DEF EnsureInv, TaskSound
    <2>2. Missed(Program[job][task[job].at]) \subseteq loadedChunks
      BY <2>1 DEF EnsureInv, IInv, RequestInv, TablesConsistent, RequestConsistent
    <2>3. task[job].view \in Views
      BY DEF EnsureInv, TaskSound, ViewSound
    <2>4. Program[job][task[job].at].byte => Program[job][task[job].at].begin < Length
      BY <2>1, ProgramAssumption DEF BytesInFile
    <2> QED BY <2>1, <2>2, <2>3, <2>4, ReadOfProgram, MissedIsNeeded
  <1> QED BY <1>1, EnsureInvariance, PTL
==============================================================================
