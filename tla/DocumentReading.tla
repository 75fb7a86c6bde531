---------------------------- MODULE DocumentReading ----------------------------
(***************************************************************************)
(* How a file comes and how its reader finds its way through it: an        *)
(* application hands it over (TransportStream), or a server gives it and   *)
(* the worker makes its manager of it (DocumentSource); then the reader of *)
(* cross-reference sections, the loader of what a page needs and the       *)
(* searches in the page tree follow links that may be missing, broken or   *)
(* circular.  Around them the document is opened, used and destroyed       *)
(* (DocumentLifecycle).  Each has state that outlives a call and shares nothing but   *)
(* the file, so that a behaviour is one of one of them: subject says of    *)
(* which.                                                                  *)
(***************************************************************************)
EXTENDS TransportStream, DocumentSource, XRefReader, ObjectLoader, PageTree, DocumentLifecycle

VARIABLE subject    \* "host", "server", "xref", "loader", "pages" or "document"

readingVars == <<subject, vars, sourceVars, xrefVars, loaderVars, pageVars, docVars>>

HostIdle ==
    /\ queuedChunks = 0 /\ progressiveDone = 0 /\ full = 0 /\ results = 0 /\ rangeReaders = 0
    /\ range = 0 /\ skipped = 0 /\ sent = 0 /\ owed = 0 /\ closing = 0 /\ assertFailed = 0

ServerIdle ==
    /\ plan = 0 /\ response = 0 /\ body = 0 /\ fullReader = 0 /\ reading = 0 /\ toWorker = 0
    /\ toMain = 0 /\ loop = 0 /\ manager = 0 /\ cached = 0 /\ given = 0 /\ capability = 0
    /\ cancelXHRs = 0 /\ terminated = 0 /\ handed = 0

XRefIdle ==
    /\ file = 0 /\ queue = 0 /\ entries = 0 /\ topDict = 0 /\ xrefStms = 0 /\ table = 0
    /\ strm = 0 /\ pc = 0 /\ parsed = 0 /\ first = 0 /\ missing = 0

LoaderIdle ==
    /\ graph = 0 /\ streams = 0 /\ bad = 0 /\ data = 0 /\ toVisit = 0 /\ toRevisit = 0
    /\ refSet = 0 /\ requests = 0 /\ phase = 0

PagesIdle ==
    /\ tree = 0 /\ kidsCount = 0 /\ pageIndex = 0 /\ search = 0 /\ walk = 0 /\ numPages = 0
    /\ stage = 0 /\ cleanups = 0

DocumentIdle ==
    /\ ownWorker = 0 /\ boot = 0 /\ alive = 0 /\ destroyed = 0 /\ destroyDone = 0 /\ promise = 0
    /\ transport = 0 /\ prompt = 0 /\ handler = 0 /\ setup = 0 /\ hasManager = 0
    /\ loadedStream = 0 /\ prompts = 0 /\ docTerminated = 0 /\ WorkerTasks = 0 /\ task = 0
    /\ waits = 0 /\ waitOn = 0 /\ workerPort = 0 /\ mainPort = 0 /\ nullUsed = 0

ReadingInit ==
    /\ subject \in {"host", "server", "xref", "loader", "pages", "document"}
    /\ IF subject = "host"   THEN Init       ELSE HostIdle
    /\ IF subject = "server" THEN SourceInit ELSE ServerIdle
    /\ IF subject = "xref"   THEN XRefInit   ELSE XRefIdle
    /\ IF subject = "loader" THEN LoaderInit ELSE LoaderIdle
    /\ IF subject = "pages"  THEN PagesInit  ELSE PagesIdle
    /\ IF subject = "document" THEN DocInit ELSE DocumentIdle

\* A step of one part leaves the others alone.
OfHost(A) ==
    subject = "host" /\ A /\ UNCHANGED <<subject, sourceVars, xrefVars, loaderVars, pageVars, docVars>>
OfServer(A) ==
    subject = "server" /\ A /\ UNCHANGED <<subject, vars, xrefVars, loaderVars, pageVars, docVars>>
OfXRef(A) ==
    subject = "xref" /\ A /\ UNCHANGED <<subject, vars, sourceVars, loaderVars, pageVars, docVars>>
OfLoader(A) ==
    subject = "loader" /\ A /\ UNCHANGED <<subject, vars, sourceVars, xrefVars, pageVars, docVars>>
OfPages(A) ==
    subject = "pages" /\ A /\ UNCHANGED <<subject, vars, sourceVars, xrefVars, loaderVars, docVars>>
OfDocument(A) ==
    subject = "document" /\ A
    /\ UNCHANGED <<subject, vars, sourceVars, xrefVars, loaderVars, pageVars>>

HostStep   == OfHost(Next)
ServerStep == OfServer(SourceNext)
XRefStep   == OfXRef(XRefNext)
LoaderStep == OfLoader(LoaderNext)
PagesStep  == OfPages(PagesNext)
DocumentStep == OfDocument(DocNext)

ReadingNext ==
    HostStep \/ ServerStep \/ XRefStep \/ LoaderStep \/ PagesStep \/ DocumentStep

\* The fairness of the six specifications.
ReadingFairness ==
    /\ WF_readingVars(OfHost(ReceiveProgressive))
    /\ WF_readingVars(OfHost(sent = MaxChunks /\ ReceiveProgressiveDone))
    /\ \A r \in 1 .. MaxRanges : WF_readingVars(OfHost(r \in DOMAIN range /\ ReceiveRange(r)))
    /\ WF_readingVars(OfServer(MainSteps))
    /\ WF_readingVars(OfServer(WorkerSteps))
    /\ WF_readingVars(OfXRef(XRefNext /\ Reads))
    /\ WF_readingVars(OfLoader(LoaderNext /\ Walks))
    /\ WF_readingVars(OfLoader(\E piece \in requests : DataComes(piece)))
    /\ WF_readingVars(OfPages(PagesNext /\ Checks))
    /\ WF_readingVars(OfDocument(DocProceeds))
    /\ WF_readingVars(OfPages(\E i \in Indices : Searches(i)))

ReadingSpec == ReadingInit /\ [][ReadingNext]_readingVars /\ ReadingFairness

------------------------------------------------------------------------------

\* What the full reader gives is the file (TransportStream).
HostGivesTheFile == subject = "host" => FullReaderIsTheFile

\* A range reader gives its range, once (TransportStream).
HostGivesTheRange == subject = "host" => RangeReadsItsRange

\* The manager has the file, and none is left behind (DocumentSource).
ServerGivesTheFile == subject = "server" => SourceIsTheFile

\* The cross-reference table holds the newest entries (XRefReader).
XRefIsNewest == subject = "xref" => TableIsNewest

\* load() is answered when everything that can be reached is there (ObjectLoader).
LoadedIsComplete == subject = "loader" => LoadedMeansReachable

\* The pages that are found are those of the tree (PageTree).
PagesAreThose == subject = "pages" => PagesAreFound

\* The document has one outcome, and no handler that is null is used (DocumentLifecycle).
DocumentHasOneOutcome == subject = "document" => OneOutcome /\ HandlerNotUsedWhenNull

\* A destroyed document is quiet (DocumentLifecycle).
DocumentGoesQuiet == [][subject = "document" => QuietStep]_readingVars

\* Every read of a range is settled; getPdfManager answers, unless a server without
\* ranges is waited for in vain (CLOSE does not arrive), and Terminate leaves no manager
\* at work; the reader, the loader and the searches end, in files whose links form
\* circles and whose data comes bit by bit, if it comes; the promise of a loading task
\* settles, through prompts, recovery and errors, unless the data stops, and that of
\* destroy() has nothing to wait for but what Blocked lists, at whatever moment it is called.
NothingIsOwed ==
    \/ subject = "host" /\ \A r \in 1 .. MaxRanges : ~RangeWaits(r)
    \/ /\ subject = "server"
       /\ (plan.range \/ plan.closes) => capability # "pending"
       /\ terminated => capability = "rejected" \/ handed = "ended"
    \/ subject = "xref" /\ ReadingDone
    \/ subject = "loader" /\ LoadingDone
    \/ subject = "pages" /\ SearchesDone
    \/ subject = "document" /\ LoadingSettled /\ DestroyEnded

EverythingEnds == []<>NothingIsOwed
==============================================================================
