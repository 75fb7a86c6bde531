---------------------------- MODULE DocumentSource ----------------------------
(***************************************************************************)
(* How the worker gets its PDFManager: getPdfManager of                    *)
(* seren-worker/src/worker.ts over PDFWorkerStream, whose full reader is   *)
(* fed by the main thread (onGetReader and onReaderHeadersReady of         *)
(* seren-viewer/src/api.ts) from PDFFetchStream (fetch_stream.ts).  The    *)
(* headers decide between a NetworkPDFManager, which is given the chunks   *)
(* as they come, and a LocalPDFManager for the whole file.  Terminate may  *)
(* come at any time.                                                       *)
(*                                                                         *)
(* The reply with the headers is posted when they are there, before any    *)
(* answer to a read: the worker has asked for it before its first PULL,    *)
(* and both wait for the same promise.  The stream between the threads is  *)
(* that of MessageStream, taken as a queue; plan.closes says whether its   *)
(* CLOSE reaches the worker.                                               *)
(***************************************************************************)
EXTENDS Integers, Sequences

CONSTANTS
    Chunks,     \* number of chunks the network cuts the file into
    Plans       \* what server and options say: records of range, streaming, closes

ASSUME SourceAssumption ==
    /\ Chunks \in Nat
    /\ Plans \subseteq [range : BOOLEAN, streaming : BOOLEAN, closes : BOOLEAN]

VARIABLES
    plan,       \* isRangeSupported, _isStreamingSupported; closes
    response,   \* "none", "ok", "failed": the promise of fetch
    body,       \* the response's body: chunks that have come, and how it ended
    fullReader, \* PDFFetchStreamReader: [next chunk, cancelled]
    reading,    \* a PULL waits for the full reader
    toWorker,   \* the port to the worker
    toMain,     \* the port to the main thread
    loop,       \* readChunk: "wait", or "over"
    manager,    \* newPdfManager: "none", "net", "local"
    cached,     \* cachedChunks
    given,      \* what newPdfManager has been given
    capability, \* pdfManagerCapability: "pending", "rejected", "net", "local"
    cancelXHRs, \* is there a function?
    terminated, \* of createDocumentHandler
    handed      \* pdfManager: "none", "net", "local", "ended"

netVars    == <<plan, response, body>>
mainVars   == <<fullReader, reading>>
workerVars == <<loop, manager, cached, given, capability, cancelXHRs, terminated, handed>>
sourceVars == <<netVars, mainVars, toWorker, toMain, workerVars>>

SourceInit ==
    /\ plan \in Plans
    /\ response = "none" /\ body = [come |-> 0, end |-> "open"]
    /\ fullReader = [next |-> 0, cancelled |-> FALSE] /\ reading = FALSE
    /\ toWorker = << >> /\ toMain = <<"PULL">>
    /\ loop = "wait" /\ manager = "none" /\ cached = << >> /\ given = << >>
    /\ capability = "pending" /\ cancelXHRs = TRUE
    /\ terminated = FALSE /\ handed = "none"

PostChunk(kind, chunk) == toWorker' = Append(toWorker, [kind |-> kind, chunk |-> chunk])
Post(kind)             == PostChunk(kind, 0)

------------------------------------------------------------------------------
(* The network and the main thread.                                         *)

\* The headers are there.  Without streaming the full reader is cancelled.
ResponseOk ==
    /\ response = "none" /\ ~fullReader.cancelled
    /\ response' = "ok"
    /\ fullReader' = [fullReader EXCEPT !.cancelled = plan.range /\ ~plan.streaming]
    /\ Post("HEADERS")
    /\ UNCHANGED <<plan, body, reading, toMain, workerVars>>

\* A status that is no success, a network error, or a fetch that was aborted.
ResponseFails ==
    /\ response = "none"
    /\ response' = "failed"
    /\ Post("HEADERS_FAILED")
    /\ UNCHANGED <<plan, body, mainVars, toMain, workerVars>>

BodyComes ==
    /\ response = "ok" /\ body.end = "open"
    /\ \/ body.come < Chunks /\ body' = [body EXCEPT !.come = @ + 1]
       \/ body.come = Chunks /\ body' = [body EXCEPT !.end = "end"]
    /\ UNCHANGED <<plan, response, mainVars, toWorker, toMain, workerVars>>

BodyBreaks ==
    /\ response = "ok" /\ body.end = "open" /\ ~fullReader.cancelled
    /\ body' = [body EXCEPT !.end = "error"]
    /\ UNCHANGED <<plan, response, mainVars, toWorker, toMain, workerVars>>

\* sink.onPull and sink.onCancel
OnPull ==
    /\ toMain # << >> /\ Head(toMain) = "PULL"
    /\ toMain' = Tail(toMain)
    /\ reading' = TRUE
    /\ UNCHANGED <<netVars, fullReader, toWorker, workerVars>>

OnCancel ==
    /\ toMain # << >> /\ Head(toMain) = "CANCEL"
    /\ toMain' = Tail(toMain)
    /\ fullReader' = [fullReader EXCEPT !.cancelled = TRUE]
    /\ UNCHANGED <<netVars, reading, toWorker, workerVars>>

ReadFails == response = "failed" \/ (response = "ok" /\ body.end = "error")
ReadEnds  == response = "ok" /\ (fullReader.cancelled
                                 \/ (body.end = "end" /\ fullReader.next = body.come))

\* The read of a PULL is answered: by a chunk, the end or an error.
ReadAnswered ==
    /\ reading /\ reading' = FALSE
    /\ \/ ReadFails /\ Post("ERROR") /\ UNCHANGED fullReader
       \/ ReadEnds /\ ~ReadFails /\ UNCHANGED fullReader
          /\ IF plan.closes THEN Post("CLOSE") ELSE UNCHANGED toWorker
       \/ /\ response = "ok" /\ ~ReadFails /\ ~ReadEnds /\ fullReader.next < body.come
          /\ fullReader' = [fullReader EXCEPT !.next = @ + 1]
          /\ PostChunk("CHUNK", fullReader.next)
    /\ UNCHANGED <<netVars, toMain, workerVars>>

MainSteps == ResponseOk \/ BodyComes \/ OnPull \/ OnCancel \/ ReadAnswered

------------------------------------------------------------------------------
(* The worker.                                                              *)

Resolves(how) == capability' = IF capability = "pending" THEN how ELSE capability

\* The promises wait for the first of a message.
Receives(kinds) ==
    /\ toWorker # << >> /\ Head(toWorker).kind \in kinds
    /\ toWorker' = Tail(toWorker)

\* headersReady is resolved; terminated is not looked at.
OnHeaders ==
    /\ Receives({"HEADERS"})
    /\ IF plan.range
       THEN /\ manager' = "net"
            /\ given' = cached /\ cached' = << >>
            /\ Resolves("net") /\ cancelXHRs' = FALSE
       ELSE UNCHANGED <<manager, given, cached, capability, cancelXHRs>>
    /\ UNCHANGED <<netVars, mainVars, toMain, loop, terminated, handed>>

OnHeadersFailed ==
    /\ Receives({"HEADERS_FAILED"})
    /\ Resolves("rejected") /\ cancelXHRs' = FALSE
    /\ UNCHANGED <<netVars, mainVars, toMain, loop, manager, cached, given, terminated, handed>>

\* The loop is left by an exception.
LoopFails ==
    /\ loop' = "over"
    /\ Resolves("rejected") /\ cancelXHRs' = FALSE
    /\ UNCHANGED <<manager, cached, given>>

\* Mutant of GoesOn: ensureNotTerminated() is not called.
GoesOnAlways(isTerminated) == TRUE

GoesOn(isTerminated) == ~isTerminated

TakeChunk(chunk) ==
    IF manager # "none" THEN given' = Append(given, chunk) /\ UNCHANGED cached
    ELSE cached' = Append(cached, chunk) /\ UNCHANGED given

OnChunk ==
    /\ loop = "wait" /\ Receives({"CHUNK"})
    /\ IF GoesOn(terminated)
       THEN /\ TakeChunk(Head(toWorker).chunk)
            /\ toMain' = Append(toMain, "PULL")
            /\ UNCHANGED <<loop, manager, capability, cancelXHRs>>
       ELSE LoopFails /\ UNCHANGED toMain
    /\ UNCHANGED <<netVars, mainVars, terminated, handed>>

\* The file has ended: without a manager yet, it is the whole file.
LoopEnds ==
    /\ loop' = "over" /\ cancelXHRs' = FALSE
    /\ IF manager = "none"
       THEN manager' = "local" /\ given' = cached /\ cached' = << >> /\ Resolves("local")
       ELSE UNCHANGED <<manager, given, cached, capability>>

ReadDone(isTerminated) == IF GoesOn(isTerminated) THEN LoopEnds ELSE LoopFails

OnClose ==
    /\ loop = "wait" /\ Receives({"CLOSE"})
    /\ ReadDone(terminated)
    /\ UNCHANGED <<netVars, mainVars, toMain, terminated, handed>>

OnError ==
    /\ loop = "wait" /\ Receives({"ERROR"})
    /\ LoopFails
    /\ UNCHANGED <<netVars, mainVars, toMain, terminated, handed>>

\* Messages of a stream that has been cancelled are dropped.
Dropped ==
    /\ loop = "over" /\ Receives({"CLOSE", "ERROR", "CHUNK"})
    /\ UNCHANGED <<netVars, mainVars, toMain, workerVars>>

GoesOnReading == UNCHANGED <<toMain, loop, manager, cached, given, capability, cancelXHRs>>

\* cancelAllRequests: a read that waits is answered with done, and the loop with it.
ReaderCancelled ==
    /\ toMain' = Append(toMain, "CANCEL")
    /\ IF loop = "wait" THEN ReadDone(TRUE)
       ELSE UNCHANGED <<loop, manager, cached, given, capability, cancelXHRs>>

\* getPdfManager has been answered: setupDoc takes the manager, or ends it.
HandOver ==
    /\ capability \in {"net", "local"} /\ handed = "none"
    /\ handed' = IF terminated THEN "ended" ELSE capability
    /\ IF terminated /\ capability = "net" THEN ReaderCancelled ELSE GoesOnReading
    /\ UNCHANGED <<netVars, mainVars, toWorker, terminated>>

\* Terminate.  The manager is ended, or else the reader is cancelled.
Terminate ==
    /\ ~terminated /\ terminated' = TRUE
    /\ handed' = IF handed = "none" THEN "none" ELSE "ended"
    /\ IF cancelXHRs \/ handed = "net" THEN ReaderCancelled ELSE GoesOnReading
    /\ UNCHANGED <<netVars, mainVars, toWorker>>

WorkerSteps ==
    \/ OnHeaders \/ OnHeadersFailed \/ OnChunk \/ OnClose \/ OnError \/ Dropped \/ HandOver

SourceNext == MainSteps \/ WorkerSteps \/ ResponseFails \/ BodyBreaks \/ Terminate

\* Both threads run and the server answers.
SourceSpec ==
    /\ SourceInit /\ [][SourceNext]_sourceVars
    /\ WF_sourceVars(MainSteps) /\ WF_sourceVars(WorkerSteps)

------------------------------------------------------------------------------

Prefix(n) == [i \in 1 .. n |-> i - 1]

InOrder(chunks) == chunks = Prefix(Len(chunks))

\* The manager has the file: a local one all of it, and not because the reading was cut
\* off by an error, by the loss of streaming or by Terminate; a network one every chunk
\* that was taken from the stream, in order, whichever of headers and chunks came first.
\* What is terminated has no manager at work.
SourceIsTheFile ==
    /\ capability = "local" => given = Prefix(Chunks)
    /\ manager = "net" => InOrder(given) /\ cached = << >>
    /\ manager = "none" => InOrder(cached) /\ given = << >>
    /\ terminated => handed \in {"none", "ended"}

\* getPdfManager answers, and after Terminate no manager is left behind; except that
\* a server without ranges is waited for in vain if CLOSE does not arrive.
SourceSettles ==
    /\ plan.range \/ plan.closes ~> capability # "pending"
    /\ terminated ~> capability = "rejected" \/ handed = "ended"
==============================================================================
