---------------------------- MODULE TransportStream ----------------------------
(***************************************************************************)
(* PDFDataTransportStream of seren-viewer/src/display/transport_stream.ts, *)
(* the stream for applications that fetch the file themselves: the data of *)
(* a PDFDataRangeTransport is handed to one reader of the whole file and   *)
(* to readers of ranges of it. All of it runs on the main thread, one call *)
(* at a time; what is asynchronous is when the host delivers and when the  *)
(* readers read, cancel or are made.                                       *)
(*                                                                         *)
(* The progressive data comes in chunks of one byte, 1, 2, 3 ...; the data *)
(* of a range is its reader's number.                                      *)
(***************************************************************************)
EXTENDS Integers, Sequences, FiniteSets, SequencesExt

CONSTANTS
    MaxChunks,      \* bytes in the file
    MaxReads,       \* bound: calls of read() on one reader
    MaxRanges,      \* bound: range readers
    Cancels         \* TRUE: readers may be cancelled

ASSUME TransportAssumption ==
    /\ MaxChunks \in Nat \ {0} /\ MaxReads \in Nat /\ MaxRanges \in Nat
    /\ Cancels \in BOOLEAN

VARIABLES
    queuedChunks,       \* _queuedChunks of the stream, until there is a full reader
    progressiveDone,    \* _progressiveDone
    full,               \* _fullRequestReader: none (<<>>) or one (<<reader>>)
    results,            \* what each read() of the full reader has returned
    rangeReaders,       \* _rangeReaders, by number
    range,              \* every range reader there has been
    skipped,            \* the ranges getRangeReader returned null for
    sent,               \* chunks of progressive data the host has delivered
    owed,               \* the range readers the host has to answer
    closing,            \* something has been cancelled
    assertFailed        \* the assertion of _onReceiveData has failed

vars == <<queuedChunks, progressiveDone, full, results, rangeReaders, range, skipped,
          sent, owed, closing, assertFailed>>

\* Answers of read() other than a chunk, which is a positive number: none yet, and
\* the end.
Pending == 0
Done    == -1

HasFull == full # << >>
Reader  == full[1]

\* The data goes to the read that waits longest, or into the queue.
EnqueueFull(reader, chunk) ==
    IF reader.requests # << >>
    THEN [reader EXCEPT !.requests = Tail(@), !.loaded = @ + 1]
    ELSE [reader EXCEPT !.queue = Append(@, chunk), !.loaded = @ + 1]

\* What a read returns at once.
ReadNow(reader) ==
    IF reader.queue # << >> THEN Head(reader.queue)
    ELSE IF reader.done THEN Done ELSE Pending

NewFullReader(chunks, isDone) ==
    [queue |-> chunks, done |-> isDone, loaded |-> Len(chunks), requests |-> << >>]

\* The host may have initial data, and that may be all there is.
Init ==
    /\ queuedChunks \in {<< >>, <<1>>}
    /\ sent = Len(queuedChunks)
    /\ progressiveDone \in BOOLEAN
    /\ full = << >>
    /\ results = << >>
    /\ rangeReaders = << >>
    /\ range = << >>
    /\ skipped = {}
    /\ owed = {}
    /\ closing = FALSE
    /\ assertFailed = FALSE

------------------------------------------------------------------------------
(* The full reader.                                                         *)

GetFullReader ==
    /\ ~HasFull
    /\ full' = <<NewFullReader(queuedChunks, progressiveDone)>>
    /\ queuedChunks' = << >>
    /\ UNCHANGED <<progressiveDone, results, rangeReaders, range, skipped, sent, owed,
                   closing, assertFailed>>

ReadFull ==
    /\ HasFull /\ Len(results) < MaxReads
    /\ LET now == ReadNow(Reader)
       IN  /\ results' = Append(results, now)
           /\ full' = <<[Reader EXCEPT
                 !.queue    = IF now \in {Pending, Done} THEN @ ELSE Tail(@),
                 !.requests = IF now = Pending THEN Append(@, Len(results) + 1) ELSE @]>>
    /\ UNCHANGED <<queuedChunks, progressiveDone, rangeReaders, range, skipped, sent, owed,
                   closing, assertFailed>>

\* Every read that waits is told the end; what is queued stays readable.
CancelledFull(reader) == [reader EXCEPT !.done = TRUE, !.requests = << >>]

ResultsCancelled ==
    [i \in DOMAIN results |-> IF results[i] = Pending THEN Done ELSE results[i]]

CancelFull ==
    /\ Cancels /\ HasFull
    /\ full' = <<CancelledFull(Reader)>>
    /\ results' = ResultsCancelled
    /\ closing' = TRUE
    /\ UNCHANGED <<queuedChunks, progressiveDone, rangeReaders, range, skipped, sent, owed,
                   assertFailed>>

\* The host: the next chunk of progressive data.
ReceiveProgressive ==
    /\ ~progressiveDone /\ sent < MaxChunks
    /\ sent' = sent + 1
    /\ \/ /\ ~HasFull
          /\ queuedChunks' = Append(queuedChunks, sent')
          /\ UNCHANGED <<full, results>>
       \/ /\ HasFull /\ Reader.done
          /\ UNCHANGED <<queuedChunks, full, results>>
       \/ /\ HasFull /\ ~Reader.done
          /\ full' = <<EnqueueFull(Reader, sent')>>
          /\ results' = [i \in DOMAIN results |->
                IF Reader.requests # << >> /\ i = Head(Reader.requests)
                THEN sent' ELSE results[i]]
          /\ UNCHANGED queuedChunks
    /\ UNCHANGED <<progressiveDone, rangeReaders, range, skipped, owed, closing, assertFailed>>

\* The host: there is no more progressive data. No read is told so.
ReceiveProgressiveDone ==
    /\ ~progressiveDone
    /\ progressiveDone' = TRUE
    /\ full' = [i \in DOMAIN full |-> [full[i] EXCEPT !.done = TRUE]]
    /\ UNCHANGED <<queuedChunks, results, rangeReaders, range, skipped, sent, owed, closing,
                   assertFailed>>

------------------------------------------------------------------------------
(* Range readers.                                                           *)

ProgressiveDataLength == IF HasFull THEN Reader.loaded ELSE 0

Disjoint(begin, end) ==
    \A r \in DOMAIN range : end <= range[r].begin \/ range[r].end <= begin

\* Mutant of ServedByFull: it is enough that the range has begun to arrive.
ServedWhenBegun(begin, end) == begin < ProgressiveDataLength

ServedByFull(begin, end) == end <= ProgressiveDataLength

\* The worker makes the full reader first (worker.ts:214); it asks for no chunk
\* twice and, once it has been terminated, for none.
GetRangeReader(begin, end) ==
    /\ HasFull /\ ~closing /\ begin < end /\ Disjoint(begin, end)
    /\ \/ /\ ServedByFull(begin, end)
          /\ skipped' = skipped \cup {<<begin, end>>}
          /\ UNCHANGED <<rangeReaders, range, owed>>
       \/ /\ ~ServedByFull(begin, end) /\ Len(range) < MaxRanges
          /\ range' = Append(range, [begin |-> begin, end |-> end, queued |-> FALSE,
                                     done |-> FALSE, results |-> << >>])
          /\ rangeReaders' = Append(rangeReaders, Len(range'))
          /\ owed' = owed \cup {Len(range')}
          /\ UNCHANGED skipped
    /\ UNCHANGED <<queuedChunks, progressiveDone, full, results, sent, closing, assertFailed>>

Waits(reader) == \E i \in DOMAIN reader.results : reader.results[i] = Pending

\* Mutant of EnqueueRange: only the first read that waits is answered.
EnqueueRangeFirst(reader, data) ==
    [reader EXCEPT
        !.done    = TRUE,
        !.queued  = ~Waits(reader),
        !.results = [i \in DOMAIN @ |->
            IF @[i] = Pending /\ \A j \in 1 .. i - 1 : @[j] # Pending THEN data ELSE @[i]]]

\* The first read that waits gets the data, all others the end; without one the
\* data is kept for the next.
EnqueueRange(reader, data) ==
    [reader EXCEPT
        !.done    = TRUE,
        !.queued  = ~Waits(reader),
        !.results = [i \in DOMAIN @ |->
            IF @[i] # Pending THEN @[i]
            ELSE IF \A j \in 1 .. i - 1 : @[j] # Pending THEN data ELSE Done]]

\* What is queued, the end, or nothing yet.
WhenRead(reader, r) ==
    [reader EXCEPT
        !.queued  = FALSE,
        !.results = Append(@, IF reader.queued THEN r ELSE IF reader.done THEN Done ELSE Pending)]

ReadRange(r) ==
    /\ Len(range[r].results) < MaxReads
    /\ range' = [range EXCEPT ![r] = WhenRead(@, r)]
    /\ UNCHANGED <<queuedChunks, progressiveDone, full, results, rangeReaders, skipped, sent,
                   owed, closing, assertFailed>>

CancelledRange(reader) ==
    [reader EXCEPT
        !.done    = TRUE,
        !.results = [i \in DOMAIN @ |-> IF @[i] = Pending THEN Done ELSE @[i]]]

\* Mutant of Without: the last reader leaves the list.
WithoutLast(r) == SubSeq(rangeReaders, 1, Len(rangeReaders) - 1)

\* The list without a reader, if it is in it.
Without(r) ==
    IF \E i \in DOMAIN rangeReaders : rangeReaders[i] = r
    THEN RemoveAt(rangeReaders, CHOOSE i \in DOMAIN rangeReaders : rangeReaders[i] = r)
    ELSE rangeReaders

CancelRange(r) ==
    /\ Cancels
    /\ range' = [range EXCEPT ![r] = CancelledRange(@)]
    /\ rangeReaders' = Without(r)
    /\ closing' = TRUE
    /\ UNCHANGED <<queuedChunks, progressiveDone, full, results, skipped, sent, owed,
                   assertFailed>>

\* cancelAllRequests; the host takes abort() as the order to answer no more.
CancelAll ==
    /\ Cancels
    /\ full' = [i \in DOMAIN full |-> CancelledFull(full[i])]
    /\ results' = ResultsCancelled
    /\ range' = [r \in DOMAIN range |->
          IF \E i \in DOMAIN rangeReaders : rangeReaders[i] = r
          THEN CancelledRange(range[r]) ELSE range[r]]
    /\ rangeReaders' = << >>
    /\ owed' = {}
    /\ closing' = TRUE
    /\ UNCHANGED <<queuedChunks, progressiveDone, skipped, sent, assertFailed>>

\* The readers in the list that begin at an offset: the first of them gets the data.
ReadersAt(begin) == {i \in DOMAIN rangeReaders : range[rangeReaders[i]].begin = begin}

\* The host answers the request of range reader r. The data carries only the
\* offset where it begins.
ReceiveRange(r) ==
    /\ r \in owed
    /\ owed' = owed \ {r}
    /\ LET found == ReadersAt(range[r].begin)
       IN  \/ /\ found = {}
              /\ assertFailed' = TRUE
              /\ UNCHANGED <<range, rangeReaders>>
           \/ \E i \in found :
                 /\ \A j \in found : i <= j
                 /\ range' = [range EXCEPT ![rangeReaders[i]] = EnqueueRange(@, r)]
                 /\ rangeReaders' = Without(rangeReaders[i])
                 /\ UNCHANGED assertFailed
    /\ UNCHANGED <<queuedChunks, progressiveDone, full, results, skipped, sent, closing>>

------------------------------------------------------------------------------

Host ==
    \/ ReceiveProgressive
    \/ ReceiveProgressiveDone
    \/ \E r \in DOMAIN range : ReceiveRange(r)

Next ==
    \/ Host
    \/ GetFullReader
    \/ ReadFull
    \/ CancelFull
    \/ CancelAll
    \/ \E begin, end \in 0 .. MaxChunks : GetRangeReader(begin, end)
    \/ \E r \in DOMAIN range : ReadRange(r) \/ CancelRange(r)

Spec == Init /\ [][Next]_vars

\* The host delivers the file and answers what it is asked, unless it is told to
\* stop; nothing is assumed of the readers.
FairSpec ==
    /\ Spec
    /\ WF_vars(ReceiveProgressive)
    /\ WF_vars(sent = MaxChunks /\ ReceiveProgressiveDone)
    /\ \A r \in 1 .. MaxRanges : WF_vars(r \in DOMAIN range /\ ReceiveRange(r))

------------------------------------------------------------------------------
(* What the stream promises.                                                *)

\* Every piece of the state is what the classes declare it to be.
TypeOK ==
    /\ queuedChunks \in Seq(1 .. MaxChunks)
    /\ progressiveDone \in BOOLEAN
    /\ Len(full) <= 1
    /\ \A i \in DOMAIN full :
          /\ full[i].queue \in Seq(1 .. MaxChunks)
          /\ full[i].done \in BOOLEAN
          /\ full[i].loaded \in 0 .. MaxChunks
          /\ full[i].requests \in Seq(1 .. MaxReads)
    /\ \A i \in DOMAIN results : results[i] \in {Pending, Done} \cup 1 .. MaxChunks
    /\ \A i \in DOMAIN rangeReaders : rangeReaders[i] \in DOMAIN range
    /\ owed \subseteq DOMAIN range
    /\ closing \in BOOLEAN /\ assertFailed \in BOOLEAN

\* What the full reader gives is the file: the n-th read returns the n-th chunk,
\* however reads, arrivals and the making of the reader interleave; it says done
\* only when the host has and every chunk that came before has been read; and a
\* range is refused only when all of it can be, or has been, read from it.
FullReaderIsTheFile ==
    /\ TypeOK
    /\ \A i \in DOMAIN results : results[i] \in {i, Pending, Done}
    /\ ~closing => \A i \in DOMAIN results : results[i] = Done => progressiveDone /\ i > sent
    /\ \A s \in skipped :
          s[2] <= Len(Reader.queue) + Cardinality({i \in DOMAIN results : results[i] > 0})

\* A range reader returns its own range, once, and then the end. And the assertion in
\* _onReceiveData, that there is a reader for the data of a range, holds until
\* something is cancelled. (It can fail after that: the host may answer for a range
\* reader that has been cancelled in the meantime.)
RangeReadsItsRange ==
    /\ assertFailed => closing
    /\ \A r \in DOMAIN range : \A i \in DOMAIN range[r].results :
        /\ range[r].results[i] \in {r, Done, Pending}
        /\ range[r].results[i] = r => \A j \in DOMAIN range[r].results : j # i =>
              j > i /\ range[r].results[j] = Done

\* Every read of a range reader is settled one day.
RangeWaits(r) == r \in DOMAIN range /\ Waits(range[r])

RangeReadsSettle == \A r \in 1 .. MaxRanges : RangeWaits(r) ~> ~RangeWaits(r)

\* ... and every read of the full reader.
ReadWaits(i) == i \in DOMAIN results /\ results[i] = Pending

FullReadsSettle == \A i \in 1 .. MaxReads : ReadWaits(i) ~> ~ReadWaits(i)

==============================================================================
