# seren-pdf: specifications, model checks and proofs

seren-pdf reads, renders and shows PDF files. It is a TypeScript rewrite of pdf.js
and is split over two threads: a *worker*, which fetches, parses and interprets the
file (`packages/seren-core`, `packages/seren-worker`), and the *main thread*, which
offers the API, draws pages and hosts the viewer (`packages/seren-viewer`,
`packages/seren-web`); both share `packages/seren-common`, which holds the message
handler that joins them. This directory holds TLA+ modules that model the parts of
it that have state which several actors, callbacks or retries share, TLC
configurations that check them, and proofs that TLAPS checks. Names in the modules
are those of the source where TLA+ allows it, and `PROJECT.json` maps each definition
to the lines it stands for.

Running: `tlc -config X.cfg MCM.tla` for a run, `tlapm M_proofs.tla` for the proofs.

## 1. Inventory

### The parts and how they interact

```
 application ── getDocument / PDFDocumentProxy / PDFPageProxy      (api.ts)
     │                    │
     │            WorkerTransport ═══ MessageHandler ═══ createDocumentHandler (worker.ts)
     │                    │           (calls, streams)          │
 PDFDataRangeTransport    │                                 PDFManager.ensure
     │                    │                                     │
 PDFDataTransportStream / PDFFetchStream / PDFNetworkStream   ChunkedStreamManager
     └──────── full reader, range readers ════ streams ═══════ PDFWorkerStream
```

The main thread owns the network. The worker asks it for the whole file
(`GetReader`) and for ranges (`GetRangeReader`) as *streams* of the message handler;
what arrives is written by the `ChunkedStreamManager` into one buffer; parsers read
the buffer and throw a `MissingDataException` where bytes are missing; `ensure`
requests them and runs the parser again. What is parsed that way is, in this order,
the chain of cross-reference sections (`XRefImpl`), the page tree (`Catalog`,
`PDFDocument`), and what a page needs (`ObjectLoader`); single streams are decoded by
chains of `DecodeStream`s and read by `Parser` and `EvaluatorPreprocessor`. Pages are
rendered from operator lists and text the worker sends back over further streams.
The viewer shows them in page views, an application may annotate them, and
`SaveDocument` writes the annotations as an incremental update. `destroy()` ends all
of that through one message, `Terminate`.

| Part | State | Operations | What is hard | What makes it correct | Model |
|---|---|---|---|---|---|
| `ChunkedStream`, `ChunkedStreamManager` (chunked_stream.ts) | buffer, loaded chunks, length of the progressive data; three request tables; promises | requestRange, requestAllChunks, onReceiveData, sendRequest, abort | ranges and progressive data overlap and arrive in any order; callers share chunks; failures; a short last chunk | a loaded chunk is written; nothing is fetched twice; every caller is told, once, in time | `ChunkedStream`, `ChunkedStreamManager`, `ChunkLoader` |
| `NetworkPDFManager`, `LocalPDFManager` (pdf_manager.ts) | the document, the stream manager | ensure, requestRange, requestLoadedStream, sendProgressiveData, terminate | retry after an exception; sub-streams hold stale copies | a parser reads written bytes only; a retry is never in vain; ensure ends | `NetworkPDFManager` |
| message handler, streams (message_handler_base.ts, stream_types.ts) | streamControllers, streamSinks, desiredSize, ready and sinkCapability | sendWithStream, enqueue, close, error, cancel, PULL/…_COMPLETE | two threads, close/error/cancel crossing on the wire, backpressure counted at two ends | order, no loss, backpressure, the end is told, records are released | `MessageStream` |
| message handler, calls | callbackCapabilities, actionHandler | send, sendWithPromise, on | failing handlers, postMessage that throws | one answer for each call | the messages of `DocumentLifecycle` |
| document source (worker.ts, worker_stream.ts, fetch_stream.ts) | cachedChunks, newPdfManager, cancelXHRs, the full reader | getPdfManager: headersReady, readChunk; Terminate | chunks before the manager exists; errors and Terminate at any moment | no byte lost or doubled; a manager or an error; no manager after Terminate | `DocumentSource` |
| `PDFDataTransportStream` (transport_stream.ts) | queued chunks, full reader, range readers | _onReceiveData, _onProgressiveDone, getFullReader, getRangeReader, read, cancel | data before the reader, ranges served by the full reader, cancel against a late answer | order, no early end, a refused range is readable, reads settle | `TransportStream` |
| document lifecycle (api.ts, worker.ts) | loading task, PDFWorker, transport, password capability; handler, pdfManager, WorkerTasks, terminated | getDocument, destroy, password exchange, setupDoc, Terminate, page tasks | destroy at any moment, passwords, recovery, tasks that wait while Terminate waits for them | one outcome; nothing posted after Terminate is done; nothing left running; destroy ends | `DocumentLifecycle` |
| page proxy and render tasks (api.ts) | intent states, delayed clean-up, shared objects, canvas in use | render, _pumpOperatorList, cleanup, cancel, _destroy | cancellation with a delay against a new render; objects that arrive after clean-up | a render that goes on is fed; done means drawn; nothing of a destroyed page runs; every render settles | `PageRender` |
| operator list (operator_list.ts) | queue, weight, dependencies, sink; the search of the optimizer: state, match, lastProcessed | addOp, addDependencies, flush, _optimize | chunks cut anywhere, dependencies named once per chunk; runs of groups replaced while operators are added | every operator once, in order, after what it depends on; what replaces a run stands for it | `OperatorList` (in `PageRender`), `QueueOptimizer` (in `PageDrawing`) |
| canvas graphics (canvas.ts) | several canvases with states and stacks, current, stateStack, groupStack, baseTransform, marked content | beginDrawing, the operators, endDrawing | state kept in three places, saved and restored on different canvases; cancellation between any two operators | a page shows what its operators mean; the application gets its context back | `CanvasGraphics` (in `PageDrawing`) |
| cross-reference table (xref.ts) | entries, startXRefQueue, tableState, streamState | readXRef, readXRefTable, processXRefStream | cut off by missing data at any entry; sections that form circles | the newest entry of each object wins; resuming is transparent; ends | `XRefReader` |
| catalog, document (catalog.ts, document.ts) | pageKidsCountCache, pageIndexCache, _pagePromises | getPageDict, getAllPageDicts, getPageIndex, checkFirstPage, checkLastPage, cleanup | searches share caches and interleave; wrong counts, circles | the pages found are those of the tree; ends | `PageTree` |
| object loader (object_loader.ts) | refSet, nodesToVisit | load, _walk | a graph walk that restarts on missing data | ends, and loads all that is reachable | `ObjectLoader` |
| decoding streams (stream/*.ts) | buffer, bufferLength, eof, position; state of the filter | getByte, getBytes, readBlock, reset | runs, groups and codes across blocks; the buffer's limit | what is decoded is what was encoded, read in any pieces | `Decoders` |
| lexer, parser, `EvaluatorPreprocessor` (parser.ts, evaluator.ts) | two tokens, place of the stream, image cache; arguments, counts of errors | getObj, makeStream, makeInlineImage, read | tokens read ahead while data is skipped; wrong lengths; data that look like an end | what is parsed is what was written | `ContentParser` |
| PostScript functions (function.ts, ps_parser.ts) | the code, the stack; the compiler's expressions, bounds and counts of uses | parse, compile, evaluate | jumps; operands rolled and shared; comparisons spared by bounds | given the right code, compiler and interpreter compute what it means; the parser's jumps are right | `PostScriptFunction` |
| saving (worker.ts, annotation.ts, struct_tree.ts, writer.ts) | temporary references, Annots, shared images | SaveDocument, saveNewAnnotations, incrementalUpdate | pages written at the same time that share numbers and images | the file can be read back and has what was asked, and the rest as before | `Saving` |
| annotation editor (display/editor, annotation_storage.ts) | undo stack, pending translation, editors, storage | add, undo, redo, commit, delete, drag, translate | overwriting, the stack's limit, a timer that adds late | undo returns to the page before; the storage has what is shown | `EditorHistory` |
| web viewer (seren-web) | views, rendering state, zoom timer, pages loading | open, setDocument, update, draw, reset, cancel | late answers of old documents and old renderings | one rendering per view; a finished view shows its page; views of one document, at one scale | `PageViews` |
| network streams (network.ts), other catalog entries, codecs, fonts, colours, ciphers, layers, links, options, find, build, tests | | | | | not modelled, see section 8 |

`PROJECT.json` lists each part with its files and status, and under "hazards" each
place where this code can go wrong in a way a test would hardly meet, with the
properties that would show it.

## 2. Plan

Order of work, most important behaviour first. Done:

1. `ChunkedStream` → `ChunkedStreamManager`, implementing `ChunkLoader`; proofs.
2. `NetworkPDFManager` (extends 1): parsers that run through `ensure`; proofs.
3. `MessageStream`: the stream protocol; proofs.
4. `TransportStream` and `DocumentSource`, the two ways bytes come; proofs.
5. `DocumentLifecycle`: from `getDocument` to `destroy`; proofs.
6. `OperatorList` and `PageRender`: what the worker sends of a page and how it is drawn; proofs.
7. `XRefReader`, `PageTree`, `ObjectLoader`: following the links of a file while it arrives; `DocumentReading` composes 4, 5 and 7; proofs for `ObjectLoader`.
8. `Decoders`, `ContentParser`: pure algorithms that keep state between calls, against the definition of what they read.
9. `PostScriptFunction`: the parser, the compiler and the interpreter of one language, against each other.
10. `PageViews`, `EditorHistory`, `Saving`: the viewer, the editors and what is written; proofs for the first two.
11. `QueueOptimizer` and `CanvasGraphics`, composed by `PageDrawing`: the operators of a page from the evaluator to the pixels; `DocumentUse` composes 8 to 11.

Left:

* The binary search of name and number trees; recovery by scanning (`indexObjects`);
  the table of callbacks (message_handler_base.ts).
* Abstract specifications: for streams, a bounded queue with an end, that
  `MessageStream` with CLOSE addressed to the peer should implement; for documents, a
  one-shot outcome followed by a shutdown.
* Theorems: `TableIsNewest` of `XRefReader` and `PagesAreFound` of `PageTree`, whose
  definitions of what is right recurse along chains and trees and must first get
  equations that can be proved. The modules are written for that: parameters are constants
  with named assumptions, and only `MC` modules that build inputs declare RECURSIVE operators.

## 3. Modules

A handler of an event loop runs to completion, so an action is one call with
everything it does, up to the place where the code awaits; where that is not so the
module says it. Data are model values or small numbers.

### Loading

**`ChunkedStream`** – class `ChunkedStream` over a file of `Length` bytes in chunks of
`ChunkSize`. `bytes` is the set of positions that have been written (the buffer's
content does not matter, only whether it is there), `loadedChunks` is `_loadedChunks`,
`progressiveDataLength` itself. `StreamReceiveData` and
`StreamReceiveProgressiveData` are the two ways data arrives; `EnsureByteThrows` and
`EnsureRangeThrows` are the checks that throw `MissingDataException`, over a *view*:
what a (sub)stream knows, its copy of `progressiveDataLength` and its cache of the
last chunk.

**`ChunkedStreamManager`** – `RequestRange` and `RequestAllChunks` (`_requestChunks` with
the three tables, grouping and the fetches it starts), `FetchDone` (the response,
`onReceiveData`, the promises it settles, the auto-fetch it may start), `FetchSkipped`
(the main thread has no reader for a range its full reader has already: data of
length zero), `FetchFailed`, `FetchIgnored` (after an abort), `ProgressiveData`,
`Abort`. `promise` is what a caller sees; `"ignored"` is a promise fulfilled because
its failure came after the abort. `arrived` is the network: how far the full response
has got on the main thread.

**`ChunkLoader`** – what the manager promises, without tables: a request for a set of
chunks is answered in the step in which its last chunk is there, once; an unanswered
one may be given up. `ImplementsLoader` is the refinement.

**`NetworkPDFManager`** – extends the manager by *jobs*: an `ensure` call whose function
is the sequence of reads it makes. `Run` is one run of the function up to the first
read that throws, with the request made for it; every retry begins at the first read.
`MakeSubStream` takes a view, which is never refreshed afterwards.

**`MessageStream`** – one stream between the thread that called `sendWithStream` and the
one that fills a `GeneralStreamSink`, over two FIFO ports. The browser's
`ReadableStream` (when it pulls, what close, error and cancel do) is external and
modelled by the rules of the Streams standard. Each case of `_processStreamMessage` is
an action; `Deleted` is the end of the asynchronous `deleteStreamController`.
`closeAddress`, chosen initially, is what `close()` writes into `targetName`: the id of
the stream, as in the code (`"1"`), or the peer's name, which asks what the protocol
would do if CLOSE were delivered. `handler` says how the producer paces itself: by
`sink.ready`, or one chunk per pull.

**`TransportStream`** – `PDFDataTransportStream` with its full reader and range readers.
Deliveries and answers of the host, reads, the making of readers and cancellations are
actions. Progressive chunks are the numbers 1, 2, 3, …; a range's data is the number of
its reader. The host answers in a later turn, never inside `requestDataRange`.

**`DocumentSource`** – `getPdfManager` of worker.ts over `PDFWorkerStream`, whose full
reader the main thread feeds from `PDFFetchStream`: the response and its body, the
PULLs and their answers, `headersReady`, each round of `readChunk`, `HandOver` (what
`setupDoc` does with the manager) and `Terminate`. The stream between the threads is
that of `MessageStream`, taken as a queue; `plan.closes` says whether its CLOSE arrives.

**`DocumentLifecycle`** – `PDFWorker`, `getDocument`, the loading task and
`WorkerTransport.destroy` on the main thread, `createDocumentHandler` in the worker,
and the two queues between them. `ownWorker` (chosen initially) tells a worker that
the task made itself, and ends with it, from one it shares. What loading finds in the
file (a password is needed, the table is broken, it fails) is a free choice; tasks
wait for pages, data and room in their streams. Loading is cut at each wait for data
although local data does not wait: a finer grain than the code's, so nothing is lost.
`waits` counts those waits up to `MaxWaits`, since a file ends. `DataStops` is the moment
from which data may not come any more: after a failed chunk the promise of the loaded
stream is never settled (nobody calls `onError`, chunked_stream.ts 585), nor is a later
request for that chunk, and the end of a stream without ranges is not told (finding 1).
`Tasks` are those that `startWorkerTask` registers; `SaveDocument` makes its own without it
(worker.ts 537, 563), so that `Terminate` does not wait for them, and they are not in this model.

### Reading

**`XRefReader`** – `XRefImpl.parse` and `readXRef`: what survives a
`MissingDataException` is in `fields` (the queue of sections, the entries, the state of
a half-read table or stream), what does not in `locals`. `MissingData` is the exception
at any read, followed by the call that `ensure` makes again. Files are functions from
positions to sections, with hybrid sections, subsections, junk and circles.

**`PageTree`** – `Catalog.getPageDict`, `getAllPageDicts`, `getPageIndex` and the checks
of `PDFDocument` that run before a document is used. A step of a search is one node of
`nodesToVisit`, since each is fetched asynchronously. `CacheGet` has the behaviour of
`RefSetCache.get`, which gives null for a stored 0.

**`ObjectLoader`** – `load` and `_walk` over a graph of references; an object has pieces
any of which may be missing, a stream has data besides. Data arrives while the walk
waits.

**`DocumentReading`** – these three, the two sources of bytes and the life of a document as
one system, by `subject`.

### Using a document

**`OperatorList`**, **`PageRender`** – the chunks the worker makes of a page's operators
(`AddOp`, `AddDependency`, `Flush`), and `PDFPageProxy` with `InternalRenderTask`: an
intent state lives as long as its operator list, both have a number in `Evals`.
`Render`, `Cancel` (task and, delayed or at once, the list), `CancelTimeout`,
`DelayedCleanup`, `CallCleanup` and `Destroy` are the calls and timers; `ReceiveChunk`,
`ReceiveError` and `ReceiveObj` what the worker sends; `ExecuteNext` is one turn of
`executeOperatorList`, which stops at an image that is not there or after
`ExecutionSteps` operators.

**`QueueOptimizer`** – the search of `_optimize` as a record that goes with the list: `i`
is `lastProcessed`, `path` stands for `state` (the beginning of a group that has been
seen), `match` and `iCurr` are its own. `Turn` is one turn of its loop, `GoesOnWithRun`
the `iterateFn` of each kind of group, `EndRun` the `processFn`. What is painted and
where is kept, how images are packed is not.

**`CanvasGraphics`** – the operators of `CanvasGraphics` on a record of canvases. A canvas
has the browser's state and stack (external) and the marks drawn on it; a mark knows the
transforms, clips, alphas and colour it was drawn under, so that two drawings can be
compared without pixels. `Execute` takes one operator.

**`PageDrawing`** – both as a system: the worker adds operators one by one, chunks arrive,
the task executes them and may be cancelled between any two. `meant` is what the content
means, computed from the content alone: brackets, and what is in force between them.

**`Decoders`** – `DecodeStream` with its buffer and position, and `readBlock` of each
filter. A byte has as many values as the file says, and thresholds scale with that
(a run of 128 is one of 4 where a byte has 8 values). The cipher of `DecryptStream`
is external: adding one.

**`ContentParser`** – `Lexer`, `Parser` and `EvaluatorPreprocessor.read`. The text is a
sequence of marks, of which numbers, names and delimiters are one each and commands are
letters, so that the cutting of words, the search for `endstream` and `EI` and the
skipping of data are those of the code. `lex` has the two tokens and the lexer's place;
`stack` replaces the recursion of `getObj`.

**`PageViews`** – `WebPDFViewer.open`, the manager's loading of pages, and the views:
drawing, zooming (with the timer and the layer kept meanwhile), resetting, clean-up.
`maxCanvasPixels` is the constant `FullScale`: at greater scales a canvas is drawn coarser,
and a zoom that finds it so only transforms it (`CssOnly`), as every zoom does for
`FullScale = 0`. Then `update` calls a callback that is null, which throws out of the loop
in `refresh`: `Reached` are the views before and at that place, and `manager.thrown` (a history
variable) remembers it.
Render tasks are those of `PageRender`, taken as pending until they settle.

**`EditorHistory`** – `CommandManager`, and the commands free text editors give it. The
history variables `worlds` and `plain` remember what was to be seen after each number of
commands, and whether one of the known exceptions (listed at `UndoGoesBack`) happened.

**`Saving`** – `onSaveDocument`: one task per page with new annotations, cut at each
await (for the font of free texts, for an image and its soft mask, for appearances); the
temporary references; the images pages share; the structure tree, as a
whole; `incrementalUpdate` as a table and as a stream; and `ReadBack`, what
`XRefImpl` finds in that file.

**`PostScriptFunction`** – `PostScriptParser` (a program as a tree of blocks becomes a
code with jumps), `PostScriptEvaluator` (the interpreter, one operator a step, on a
stack of bounded depth) and `PostScriptCompiler` (expressions with bounds, registers for
what is used twice, and the value the compiled text computes). Numbers are small
integers; the meaning of a program is computed from its nested text in
`MCPostScriptFunction`, from the definitions of the operators. Because of finding 5 the
program never gives compiler and interpreter the code of the text. `TakeCode` gives them
either what the parser made, as the program does, or the right code; what is said of the
meaning (`RightCodeMeans`) is said of the right code only.

**`DocumentUse`** – all these but `PageRender` as one system, by `part`: they share values and no state.

`MC*.tla` give the constants values that a .cfg cannot write; `MCDocumentReading` and
`MCDocumentUse` do so for all the parts they compose. `MCDocumentUse`,
`MCContentParser` and `MCPostScriptFunction` hold the encoders, writers and meanings that
decoders, parser and functions are compared with.

## 4. Runs

All runs switch the deadlock check off: each system may stop for good (a document
destroyed, a stream ended, all bounded calls made).

| Run | Instance | Shows |
|---|---|---|
| `csm` | 5 bytes, chunks of 2, 3 requests, failures, longer responses, abort, streaming, auto-fetch | tables, promises and buffer agree in every order of arrivals; no double fetch; the loaded stream is told on time; what is requested is fetched and auto-fetch goes on; the manager implements `ChunkLoader`; every request settles, unless one before it failed |
| `ensure` | two jobs over the same file, failures, abort, streaming | parsers read only bytes that are there although their views are stale; a retry is never in vain; ensure ends |
| `stream` | mark 2, sizes 1 and 2, 5 chunks, 2 reads, both kinds of producer, failing promises; CLOSE lost as in the code, or addressed to the peer | no handler throws with CLOSE, ERROR and CANCEL crossing; order, and done means all; backpressure; the record is released; the end is told if CLOSE is addressed |
| `stream_close` | the code's CLOSE | **violated** `ReaderTold`: finding 1 |
| `reading` | host: 3 chunks, 2 reads per reader, 2 ranges, cancellation. Server: 3 chunks, every plan. Worker: every way to link three sections, cut off up to twice; graphs of 3 objects with circles, streams and broken ones; trees of up to 8 nodes with and without counts, with circles, one cleanup. Document: own and shared worker, 2 tasks, 2 prompts, 2 waits, script and request failures, one stream nobody reads | order, no early end, a refused range is readable, a range reader gets its own range once; the manager is given the file; the newest entries; everything reachable; the pages of the tree; one outcome of loading, the handler not used once null, no registered task left running after Terminate; all of it ends: the loading promise settles unless the data stops, and `destroy()` waits for nothing but what section 7 lists |
| `xref_resume` | one subsection numbered from 1, cut off once | **violated** `ResumeIsTransparent`: finding 2 |
| `render` | 2 renders, 2 intents of which one prints, 2 operator lists, pages with large and repeated images | live tasks are fed; done means drawn; a destroyed page is quiet; renders settle |
| `use` | encoded files of each filter; objects, streams and contents; 2 documents of 1 and 2 pages, 3 scales of which the first is drawn in full, 2 draws; 2 editors, 7 acts, a stack of 2; 2 pages, 2 saves one after the other, with and without a soft mask; programs of up to three operators with one `if` or `ifelse`, arguments of both signs; pages of up to 6 groups of images, masks and inline images, and of paths, images and text in nested states, forms, groups, marked content and two annotations, with and without blending | streams decode; contents parse; compiler and interpreter agree on any code, and given the right one on the meaning of a program; views render once, finish and agree; pages are drawn as written and the canvas is given back, cancelled or not; undo goes back; the storage has what is shown; a file that can be read is as asked |
| `long_words` | `false`, `null`, `BMC`… and the table of commands | **violated** `LongWordsAreRead`: finding 3 |
| `ps_parser` | programs with two numbers in a row | **violated** `ParsedIsCode`: finding 5 |
| `image_runs` | an incomplete group behind a run of 2, of each kind of image | **violated** `OnlyWholeGroupsAreReplaced`: finding 6 |
| `save_update` | untagged annotations in a tagged document, and in one with a reference table and no structure tree | **violated** `SavedIsTheDocument`: finding 4 |

### Bounds, and why they are enough

* `csm`, `ensure`: three chunks with a short last one are the smallest file with a
  first, a middle and a last chunk, in which ranges cross a chunk boundary, two groups
  are apart, and auto-fetch wraps around. Three calls from outside, besides those that
  auto-fetch makes, let two requests share a chunk while a third joins later. The jobs
  of `ensure` read a first byte and then the end (as the reader of the
  cross-reference table does), and bytes and ranges across boundaries.
* `stream`: a mark of 2 with sizes 1 and 2 overshoots and exactly fills; five chunks
  exceed twice the mark, so that the backpressure could fail.
* `reading`, sources: three chunks and two reads let the queue and the waiting reads be
  non-empty in turn; two ranges are the fewest that can be answered in the wrong order.
  From the server headers always come first; three chunks let some come before the manager
  exists and some after, and Terminate before, between and after them.
* `reading`, document: two tasks, one of which is unread, two prompts (a wrong password
  and a second attempt) and two waits for data, so that Terminate can come before, during
  and after each. The data may stop at any time while the document loads.
* `reading`, files: two missing reads cut off a table and then what is resumed; the trees have
  a page behind an inner node with and without `Count`, an inner node without pages, and
  nodes that occur twice.
* `render`: two lists are enough for one to be cancelled late while the next is under
  way; two tasks share a list or a canvas. A third task would allow finding `render` in
  section 7.
* `use`: blocks of 3 bytes and files of up to three runs, groups or rows put a boundary
  at every place of a group; `MinBuffer = 1` makes the buffer grow at each step. Of three scales one is drawn in full and two
  restricted, so that a zoom of a restricted canvas throws upwards and draws anew downwards.
  The texts nest two levels, the widths of the scans (`ScanBlock`, `Following`, `MaxArgs`)
  are scaled so that a signature lies across a block. Seven acts create an editor, give
  it a text and a colour, go past the limit of a stack of 2 and undo all that is left; longer
  histories are in the proofs.
* `use`, pages: a run is 2 groups or more and 3 or 4 are replaced at a time (10 to 1000 in
  the code), so that 3 blocks make runs that are too short, cut, and next to each other; a
  chunk of 18 operators ends within the fifth group. Contents are balanced, as the
  evaluator makes them, have no incomplete group behind a run (finding 6), and no form
  that changes a state while it is hidden (section 7).

`MaxRequests`, `MaxCalls`, `MaxChunks`, `MaxReads`, `MaxRanges`, `MaxPrompts`,
`MaxMissing`, `MaxWaits`, `MaxCleanups`, `NumTasks`, `MaxEvals`, `NumDocs`, `MaxScale`, `MaxDraws`,
`MaxUpdates` and `MaxActs` are the bounds that do not stand for something of the code.

## 5. Fairness

Safety properties need none. Liveness is stated under what the scheduling justifies:

* **Manager** (`FairSpec`): a range reader ends (with data or a failure), and bytes that
  reached the main thread are passed on. `stream_types.ts` 133-139 promises the first
  of a reader; finding 1 breaks that promise for the worker's own stream, so the
  liveness results hold for the stream as it is specified. No caller has to call, the
  network has to send nothing of itself. `EnsureSpec` adds that a job that can run does.
* **Streams** (`FairSpec`): both event loops take their messages, promises of the handler
  settle. `BusySpec` adds a reader that keeps reading and a producer that produces all
  and then closes, which is what the readers of `api.ts` and `worker_stream.ts` and the
  producers of `worker.ts` do.
* **Sources**: the host delivers the file and answers what it is asked; both threads run
  and the server answers. Readers owe nothing, and neither does Terminate.
* **Document**: both threads run; loading steps end; the network delivers until it is
  told to stop or the data stops (`DataStops`, which is free to happen; after it neither
  loading steps nor what waits for data is owed); the user answers a prompt while the task is not destroyed; streams are
  read except those in `Unread`. All of that is one action, `DocProceeds`, and weakly
  fair: files, pages and prompts are finite (`MaxWaits`, `MaxPrompts`), so that steps
  cannot go on for ever while another waits.
* **Reading**: the worker goes on, and data that was requested arrives: what happens when it
  does not is part of the document's life above, where loading is one step after another. That data is
  missing is owed by nobody.
* **Render**: turns of the event loop are taken; the worker goes on with a list while its
  reader is open, and decodes every image it has named (`sendImgData` is called for a
  failure too). Cancelling, cleaning up and destroying are not owed.

The run `use` states safety only.

## 6. Proofs

`ChunkedStreamManager_proofs` proves, for **every** file length, chunk size, bound on
requests and choice of options (assumptions `SizeAssumption`: both sizes are positive
naturals; `OptionAssumption`: options are Booleans, the bound a natural):

| Theorem | Property |
|---|---|
| `TypeCorrect` | `TypeOK` |
| `LoadedChunksAreWritten` | `LoadedIsWritten`: a readable chunk has all its bytes |
| `TablesAlwaysAgree` | `TablesAgree`: the two tables and the stream agree |
| `PromisesAreKept` | `PromisesTellTheTruth`: told "loaded" iff it is |
| `FetchedOnce` | `NoDoubleFetch` |
| `LoadedStreamIsOnTime` | `LoadedStreamOnTime` |
| `ManagerImplementsLoader` | `ImplementsLoader`: every step is one of `ChunkLoader`, or a stutter |
| `WorkNeverStops` | `WorkGoesOn`: what somebody waits for is on its way, and auto-fetch goes on |

All follow from one inductive invariant, `IInv`; the last needs more (`WorkInv`). The listed properties alone are not
inductive, for three reasons:

* progressive data marks every chunk below its end as loaded, those too that an
  earlier call brought only in part: `PrefixWritten` says that all bytes below
  `progressiveDataLength` are in the buffer;
* `onReceiveData` clears the table of a chunk and the requests that name it in one
  pass: `TablesConsistent` says what each request asked for, what is missing and which
  promises exist, for all ids at once;
* that no chunk is fetched twice rests on the rule that a chunk is fetched only when no
  request names it: `FetchesSound` says that the fetches are disjoint, and that each
  chunk of a fetch is either loaded or named by a request.

`WorkGoesOn` needs to know whose failure a failure is: a fetch is for chunks its request
asked for (`FetchesAsked`), and no promise is "ignored" before the abort. So a fetch that
fails without rejecting anybody was for chunks that have come otherwise. The rest is
about operators: `GroupsCover` (`groupChunks` leaves no chunk out), `NextEmptyIsMissing`
(the search around the end of the file finds a chunk as long as one is missing) and
`AutoFetchFinds`.

The proof has one lemma for each action over the parts it can disturb; `RequestChunks`
and `Received`, which several actions share, have lemmas of their own, and so have
rounding to chunks (arithmetic of `\div`) and `GroupChunks` (groups are disjoint and
cover exactly what was to be requested).

`NetworkPDFManager_proofs` goes on from there to the parsers, for every number of jobs and
every program (`ProgramAssumption`: reads are not empty, a single byte is one;
`CallAssumption`: the bound on other calls is within that on all):

| Theorem | Property |
|---|---|
| `ParsersReadWrittenBytes` | `OnlyWrittenBytesRead` |
| `RetriesAreNotInVain` | `NoRetryInVain`, if programs look for single bytes inside the file only (`BytesInFile`; section 7 says what happens otherwise) |

`EnsureInv` adds to `IInv` what makes a view that is never refreshed safe: its
`progressiveDataLength` was true once and never shrinks, and its cache names a loaded
chunk or none (`ViewSound`). Within one run the cache is set by reads that are checked
against the cache; `CachedIsLoaded` breaks that circle with the first read whose chunk
would not be loaded. A task that waits remembers the request made for the read that
threw (`TaskSound`), whose chunks are those that the check looks at (`MissedIsNeeded`).

`MessageStream_proofs` proves, for every high-water mark, chunk sizes of 1 and more
(`Sizes`), any number of chunks and reads, and both kinds of handlers (`StreamAssumption`):

| Theorem | Property |
|---|---|
| `NoHandlerEverThrows` | `NoHandlerThrows`: whatever fails or ends, no message meets a state its handler cannot cope with |
| `ChunksAreDelivered` | `Delivery`: in order, each once, all of them before "done" |
| `BackpressureHolds` | `Backpressure`: `ready` is pending iff there is no room; a handler that waits for it never makes the reader hold more than twice its mark |

`StreamInvariant` is the invariant they follow from. Each call is a *token* that is in
one place: posted, at the sink, or answered (`StartToken`, `PullToken`, `CancelToken`). A
record that is being deleted waits for each token that will come back (`Answered`; the
CANCEL for a sink that is gone will not). Ports keep their order, so that nothing
follows an end (`EndIsLast`, `OverIsOver`), and what is on the way is what was made and
not yet got (`ChunksUnderWay`). The bound of twice the mark is found by following the
pull token: while no pull is under way, what is not got and the room the sink believes
in are at most the mark (`RoomCounted`, last line); a pull adds at most the mark to it
and is answered only behind all chunks that were under way when it was posted, which the
third line of `RoomCounted` states for the answer that is in the port.

The total size of a queue is a recursive function. That it satisfies its equation
(`TotalEquation`) and bounds the length (`TotalBounds`) is proved by least
counterexamples, since no induction theorem can be used: `LeastNatural` is
derived from the well-foundedness of the naturals.

`DocumentReading_proofs` and `DocumentLifecycle_proofs` prove what the run `reading` checks
of five of its seven safety properties and of its action property. The parts of `DocumentReading`
share nothing but `subject`, so each has an invariant of its own, which the steps of
the others leave alone.

| Theorem | Property | For every |
|---|---|---|
| `SourceKeepsTheFile` | `ServerGivesTheFile` | number of chunks and set of plans of a server (`SourceAssumption`) |
| `HostHandsOverTheFile` | `HostGivesTheFile` | number of chunks, reads and ranges, with and without cancelling (`TransportAssumption`) |
| `HostHandsOverTheRange` | `HostGivesTheRange` | the same |
| `LoaderFindsEverything` | `LoadedIsComplete` | graph of references, set of streams and number of pieces (`LoaderAssumption`) |
| `OneOutcomeIsReported` | `DocumentHasOneOutcome` | set of tasks, number of prompts and waits, set of failures (`TasksAssumption`) |
| `TheEndIsQuiet` | `DocumentGoesQuiet` | the same; an action property |

* `SourceInv`: a PULL, the read it starts and the message that answers it are one baton
  (`OneBaton`); so there is at most one chunk on the way, and it is the next of those
  kept (`NextIsNext`), although the worker first caches and then gives them to a manager
  (`Kept`). Headers come first and decide which manager it is (`HeadersFirst`).
* `FullInv`: what reads have returned is chunks, then nothing yet, then the end
  (`ReadsInOrder`), and the queue holds the chunks that come next, only while no read
  waits. `EndInTime` ties the end to what the host has said. `RangeInv`: ranges do not overlap, so that the one reader that
  begins where data begins is the one the data is for; a reader is in the list at most once
  and only while it is open, and those the host owes an answer are in it until
  something is cancelled.
* `WalkIsSound`: a reference that was met is either on a list, or visited with its
  data there and its references met. When the walk ends with nothing to repeat, what was
  met is closed under the references. `Reachable` is the least such set, so that no induction over paths is needed.
* `LifeInv`: until the worker is up there is only its greeting (`Beginning`). The request for the document,
  DocId, Ready, the work of `setupDoc` and its outcome are one baton, during which the
  promise is pending (`Opening`); the prompt is another, held by task 0 (`Prompting`).
  `Ending` says that Terminate waits for exactly the tasks there are. That gives the
  surprising half of `HandlerNotUsedWhenNull`: loading does not stop at Terminate, but every
  callback that would use the handler either looks at the flag or holds task 0.

TLC finds the four invariants true in every state of the instances of `reading`. `LifeInv` is stated while the worker is
alive only: after `worker.terminate()` the main thread's promise may be settled while
`setup` still stands at a loading step that will never be taken.

`PageRender_proofs` proves the three safety properties of the run `render`, for every
number of tasks (and so of canvases), of evaluations and of operators in one turn, and
every set of intents and pages:

| Theorem | Property |
|---|---|
| `WaitingTasksAreFed` | `LiveTasksAreFed`: a task that has not settled is known where its messages go |
| `ResolvedIsDrawn` | `DoneMeansDrawn`: done means that the whole list has been drawn, nothing before it was there |
| `DestroyedPageIsQuiet` | `DestroyedIsQuiet`: nothing of a destroyed page lives |

* `RenderInv` is the invariant (`RenderInvHolds`). `PageInv` is stated of a page record, not of the
  variable, because `_abortOperatorList`, `#tryCleanup` and the pump follow each other
  within one step: each has a lemma that says what it keeps (`Kept`), and an action
  chains them.
* That tasks are fed does not imply itself: a task that asks for the list again is given
  the state that is registered, so any registered state must still get its list or have it
  (`On`). The first candidate lacked that and was not inductive. `Stored` says
  the same of objects: what a registered list has brought has not been cleared, so that
  the only tasks that wait are those the next `ReceiveObj` tells.
* A canvas is in use only by a task that draws (`CanvasInv`), which gives the quiet end; the
  converse is false (section 7, second half).
* `DrawnInv` follows what a task has passed: the objects of every dependency before `idx`. An
  image is named before it is painted, so what has been painted had arrived.
* `RenderAssumption` says of the pages what `PageChunks` gives for each (`ListFits`): only
  the last chunk is marked, what has been received is a prefix of the whole, and images are
  named before they are painted. `PageChunks` folds over the operators, so this
  needs induction over data; TLC evaluates it for the pages of `render`. That every
  render settles (`RendersSettle`) is liveness and stays with TLC.

`PageViews_proofs` and `EditorHistory_proofs` prove what the run `use` checks of the views and
of the editors. The parts of `DocumentUse` share nothing but `part`, so that each has an
invariant of its own that is stated while it is the part.

| Theorem | Property | For every |
|---|---|---|
| `ViewsRenderOnceAlways` | `ViewsRenderOnce`: one render task that runs for each view, the one it would cancel | number of documents, pages, scales, draws and cleanups (`PageViewsAssumption`: documents have pages, in finitely many possible numbers; the largest scale is 1 or more) |
| `ViewsFinishAlways` | `ViewsFinish`: a finished view shows its page, or there is a reason why not (a refresh that threw is one) | the same |
| `ViewsAgreeAlways` | `ViewsAgree`: the views shown are those of the document set last, at its scale unless a refresh has thrown | the same |
| `StorageIsShownAlways` | `StorageIsShown`: what is stored is what is shown | set of editors, texts, colours (there is one), limit of the history, width and number of acts (`EditorAssumption`) |
| `UndoneIsAsBeforeAlways` | `UndoneIsAsBefore`: after so many commands the page is what it was | the same |

* `ViewsInv`: render tasks are numbered as they are made, and the only one of a view that may
  be pending is the view's own (`ViewOK`). The views of a document that was not set yet were
  never drawn, and nobody waits for their pages (`NewIsUntouched`): they are as new when
  `setDocument` shows them, whatever earlier documents still wait for. `draw` and `update` call
  `reset`, and that calls `cancelRendering`, so the lemmas are about one view's
  record (`KeepsView`) and the actions chain them. That a draw within the bound on all draws
  has a number among its view's (`DrawnLemma`) is a matter of counting, by cardinality of finite sets.
* `StorageInv`: an editor outside edit mode is stored iff it is shown, with the text that
  was typed (`EditorOK`). Undoing a deletion shows an editor again, and would show one
  without a text if the text were gone. That cannot be, because the text command that gave an
  editor its first text stands before every command that deletes it, so it is undone after them
  (`CommandsOK`, last two parts); a new command that cuts the history off, and one that drops
  the oldest, keep that. The invariant is stated of the record of
  `CommandManager`, since most actions commit the editor in edit mode first and then add
  a command.
* `HistoryInv` gives each number of commands a *look*: text, colour and place of every
  editor, and whether it is seen. `worlds` alone is not inductive: it says nothing of the
  place of an editor that is deleted, and undoing the deletion shows it there. Neighbouring looks are joined by
  the command between them, its execution leading forth and its undoing back (`Joined`), and
  the present look stands at `position` (`Chain`). While a translation waits for its second,
  what stands there is the present look with the translation taken back (`BeforeTimer`).
  A colour command that replaces the one before joins the outer two looks because the undoing of the earlier
  is kept. A new editor changes looks of the past too (it gets its place), which
  nobody can see, since no command is about it (`ChainPut`).
* An editor in edit mode that has no text can be moved too, by the keyboard. It was seen in no look, so
  those of the past may have it in its new place (`ChainPut` again), and `BeforeTimer` takes
  the translation back from those with a text only.
* What `plain` excludes is needed: a translation stopped by the edge of the page is not
  taken back by its opposite, and a colour command put over one of another editor undoes the wrong one
  (section 7).

The other safety properties of the runs stay with TLC: `XRefIsNewest` and `PagesAreThose`
compare with definitions that recurse along the chain of sections and the tree of pages;
`StreamsDecode`, `ContentParses`, `RightCodeComputes`, `PagesDrawn`, `CanvasGivenBack` and
`FileIsAsAsked` say what an algorithm computes from data of any length (codes, tokens,
programs, operators, files), which needs induction over data.

`TypeOK` and `TablesAgree` are proved for all instances, so no run repeats them.

## 7. Findings

| | Where | What | Run |
|---|---|---|---|
| 1 | stream_types.ts 332 | CLOSE is addressed to the stream's id and dropped (message_handler_base.ts 89): readers never learn of the end, `sendRequest` never resolves over the worker stream, text extraction never ends | `stream_close` |
| 2 | xref.ts 321 | the correction of a misnumbered subsection is lost when reading resumes in its middle: later objects get shifted numbers | `xref_resume` |
| 3 | parser.ts 1335 | reserved words do not hold longer words together, so `false` is read as `f` and a rest | `long_words` |
| 4 | worker.ts 534 | when new annotations update no structure tree, that of a tagged document is replaced (`TreeIsKept`); and each new object is listed twice, so that the reference table of the saved file does not parse (`PagesAreReadable`) | `save_update` |
| 5 | ps_parser.ts 71 | the parser of PostScript functions reads its token from `prev` before `accept()` has moved it there: each number and operator gets the value of the token before it. Every function of the program is parsed to something that does not compile, and the interpreter throws at `{` | `ps_parser` |
| 6 | operator_list.ts 582 | a run of images is ended one operator too late: when the operator behind it is the fourth of an incomplete group it is lost, and the restore of that group closes another state | `image_runs` |

The modules state further disagreements for which no separate run is kept; each appears
when the run named is changed as said.

* **Chunk manager.** A failed chunk counts as requested for ever, later requests for it
  hang (chunked_stream.ts 411-431: `EveryRequestSettles` in `csm`). `chunk > numChunks`
  lets the index `numChunks` throw for data that does not exist, and `ensure` runs round
  without end (chunked_stream.ts 109: `NoRetryInVain` in `ensure` with `LateJobs`).
  Auto-fetch asks for nothing when the first chunk to arrive is the last of the file.
* **Sources.** The end of the progressive data does not reach reads that wait
  (transport_stream.ts 277: `FullReadsSettle`). The host's answer for a range reader that
  was cancelled fails the assertion at transport_stream.ts 118; `HostGivesTheRange` shows
  that it never fails before something is cancelled. A server without ranges never gets
  a manager, because its CLOSE is lost (finding 1); `EverythingEnds` excludes that.
* **Document.** Terminate aborts the data and then waits for tasks that wait for data:
  `destroy()` hangs (worker.ts 703). It also hangs on a password
  prompt that crosses Terminate (api.ts 2656) and on a text stream the application
  stopped reading (api.ts 1692). These are the disjuncts of `Blocked`; `EverythingEnds`, by
  `DestroyEnded`, shows that only data that has stopped is a fourth. There is no fake worker after an error of the script
  (api.ts 2163), and a GetDocRequest the worker refuses leaves the loading promise
  pending (api.ts 648). It is left pending, too, when the data stops: after a failed chunk the
  capability of the loaded stream, which recovery waits for (worker.ts 340), is never
  rejected (chunked_stream.ts 585), nor do later requests for the chunk settle; and the end of
  a stream without ranges is lost (finding 1). `EverythingEnds`, by `LoadingSettled`, shows
  that a loading task that is not destroyed hangs for no other reason. The tasks of
  `SaveDocument` are not registered (worker.ts 537, 563), so that Terminate does not wait for them.
* **Streams.** A CANCEL for a sink that is gone is not answered
  (message_handler_base.ts 401). No caller in the repository waits for it. The proof of
  `Backpressure` failed for handlers that go by pulls: `onPull` of api.ts 2538 and 2601
  returns before its chunk has come, so the pull is answered at once
  (message_handler_base.ts 358), and both the read and the chunk that arrives later
  pull again. Nothing but the reader's own pace limits what is buffered then (with a mark of 1, one
  read and six chunks the reader can hold more than twice its mark), so the second part
  of `Backpressure` is about handlers that wait for `ready`.
* **Reading.** `RefSetCache.get` gives null for a stored 0, so that the index of the
  first page is not known (primitives.ts 813, catalog.ts 1493: `PageIndexIsKnown`).
  `tableState` and `streamState` survive a format error (xref.ts 845);
  `startXRefParsedCache` is forgotten at each missing read (xref.ts 777), which
  `EverythingEnds` shows to be harmless. `checkFirstPage` keeps a rejected promise of
  page 0 unless the error is an `XRefEntryException`; `checkLastPage` returns early for a
  `Count` of 1 or less.
* **Parsing.** An `endstream` that is the very end of the file is not found (parser.ts
  658); an `EI` followed by a command with long arguments swallows what follows it. LZW
  data without an end marker gives up to 512 zero bytes. The global image cache is made
  anew at each call (evaluator_general_operator.ts 731).
* **Functions** (by reading). The interpreter does not clip its inputs to the domain, the
  compiled code does; `index` with the whole depth of the stack makes the compiler throw
  where it should give up (function.ts); `copy` refuses the last count the stack has room
  for. The constants leave these cases out. What the run says of meanings is of the right code, which finding 5
  keeps from the program.
* **Rendering** (`render` with `NumTasks = 3`). A render refused because of its canvas
  removes the canvas of another from `#canvasInUse`, so that two tasks draw on one
  (api.ts 3352: `OneTaskPerCanvas`). A canvas stays in use if the graphics throw
  (api.ts 3314); a failed operator list stays registered (api.ts 1849).
* **Viewer** (`use`). A page that was reset, by a zoom for instance, is not drawn again by the manager
  (page_view.ts 598: `ResetPagesAreDrawn` under `ViewsSpec`). A canvas that is only transformed (`maxCanvasPixels = 0`,
  "CSS-only zooming" at page_view_manager.ts 119, or one that is restricted and would be again) calls a callback that
  is null (page_view.ts 616, page_view_manager.ts 980), in the middle of the loop over the views: the view that
  threw has the new scale, later views and the manager keep the old one (`ViewsAtScale` under `ViewsSpec`). When
  the refresh of the zoom timer throws, views that were put off count as finished and are not redrawn
  (page_view.ts 595). `ViewsFinish` and `ViewsAgree` say what holds as long as none has thrown. With documents of equal
  length, the loop that fetches the pages of an old document fills the views of the new
  (`PagesOfOneDocument`); a first page that fails late rejects the new document
  (page_view_manager.ts 1078); views of the old one may be drawn after the reset
  (1486); the timer of a zoom survives `setDocument` (1290). `pdfLoadingTask` is never
  assigned (viewer.ts 184), nothing is pushed to the buffer of views, and the second
  document of a flip view throws.
* **Editors.** A translation that waits for its timer becomes a command after whatever
  was done in between (tools.ts 2043); a colour overwrites the command of another
  editor's colour (375); `dispatchUpdateStates` sends the wrong flags (1897);
  `CommandManager.destroy` keeps the position. These are the exceptions of
  `UndoGoesBack`. `AnnotationStorage.serializable` is always the empty one.
* **Saving.** A document with a reference table whose structure tree is not updated is in the run
  `use`, and `FileIsAsAsked` says nothing of it (finding 4). The same bitmap on two pages: each writes the image
  as long as no other has finished it, and all but one find the stream empty
  (annotation.ts 678); the property leaves the images of such bitmaps out (`SharedBitmap`). Concurrent saves
  (`Concurrent = TRUE`) share temporary references; a failed save never resets them. The
  constants leave these two out.
* **By reading only.** network.ts 163 looks for a key of a Map with `in`, so that no XHR
  read settles.
* **Drawing.** Texts are never replaced: the run compares the argument of `showText` with
  that of `setFont` (operator_list.ts 413-447), so that `ReplaceTexts` is never reached.
  A cancellation within a group or an annotation with its own canvas unwinds the states
  on that canvas, and leaves those of the page (canvas.ts 1222; `ContextGivenBack` without its exception). A cancellation
  after the end restores once more (api.ts 3347). A hidden form is not begun, but what it
  holds is executed, so that its transforms and states stay in force (canvas.ts 2666).
  A hidden even-odd fill leaves its rule to the next
  fill (canvas.ts 1979). Each annotation resets the colours of the application's own
  context (canvas.ts 2849). Painting under a soft mask throws, because the mirrored clip
  refuses a path (canvas.ts 174, 1748).

## 8. Not modelled, and why

* Fonts, glyph tables, CMaps, image codecs, colour spaces, ciphers, patterns: sequential
  functions over binary data without state that outlives a call. Their correctness is
  about data far beyond small instances. They are two thirds of the code.
* Appearances of annotations, forms, the elements of the structure tree: one call makes
  them, and nothing comes between.
* DOM layers, patterns, soft masks, Type3 glyphs, line styles: output, or not reached.
* Ink, highlight and stamp editors, selection and clipboard; the find service, scrolling,
  links, options, localisation: user interface state of one actor.
* `PDFNetworkStream`: see the last item of section 7, there is no behaviour beyond it.
* Name trees, recovery by scanning (`indexObjects`), the table of callbacks: within reach,
  see the plan.
* Left out inside modelled parts: sampled, interpolated and stitched functions and
  operators on numbers that are no integers; progress reporting, logging, the content of bytes and
  messages, hosts that answer inside `requestDataRange`, the page methods and caches of
  `WorkerTransport`, and the fake worker, which this code base does not implement.
