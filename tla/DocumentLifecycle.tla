--------------------------- MODULE DocumentLifecycle ---------------------------
(***************************************************************************)
(* One document from getDocument() to destroy(): PDFWorker, getDocument,   *)
(* PDFDocumentLoadingTask and WorkerTransport of seren-viewer/src/api.ts   *)
(* on the main thread, WorkerMessageHandler.createDocumentHandler of       *)
(* seren-worker/src/worker.ts in the worker, and the two message queues    *)
(* between them.                                                           *)
(*                                                                         *)
(* A step is what one thread does between two returns to its event loop,   *)
(* or a part of that: the loading of a document is cut where the code      *)
(* waits for data, although it does not wait when the data is local. What  *)
(* loading finds in the file, and when data arrives, is left open.         *)
(***************************************************************************)
EXTENDS Naturals, Sequences

CONSTANTS
    Failures,       \* a subset of {"script", "request"}: what may fail in the worker
    MaxPrompts,     \* bound: how often the file asks for a password
    WaitsForData,   \* TRUE: a task may have to wait for data from the network
    MaxWaits,       \* bound: how often a task waits for data or for its reader
    Tasks,          \* GetOperatorList and GetTextContent requests, positive numbers (those of
                    \* SaveDocument are never registered, and nobody waits for them)
    Unread          \* those whose stream the application may stop reading

ASSUME TasksAssumption ==
    /\ Unread \subseteq Tasks /\ Tasks \subseteq Nat \ {0}
    /\ MaxPrompts \in Nat /\ MaxWaits \in Nat

VARIABLES
    ownWorker,      \* getDocument made the worker (task._worker), and destroy() ends it
    boot,           \* the promise of PDFWorker
    alive,          \* the worker thread runs
    destroyed,      \* PDFDocumentLoadingTask.destroyed
    destroyDone,    \* the promise of destroy() is resolved
    promise,        \* the promise of the loading task
    transport,      \* WorkerTransport: none, open, closing, closed
    prompt,         \* _passwordCapability: none, asked, settled
    handler,        \* the worker's handler for the document: none, set, null
    setup,          \* where setupDoc is
    hasManager,     \* pdfManager is set
    loadedStream,   \* requestLoadedStream(true): none, loading, loaded, or stopped: it, and
                    \* what else waits for data, may never settle
    prompts,        \* passwords asked for so far
    docTerminated,  \* the flag of createDocumentHandler
    WorkerTasks,    \* the tasks that run; 0 is the one that waits for a password
    task,           \* what each task is doing
    waits,          \* how often each task has waited
    waitOn,         \* the tasks Terminate waits for
    workerPort,     \* messages to the worker, oldest first
    mainPort,       \* messages to the main thread
    nullUsed        \* the worker has used handler after it was set to null

docMain   == <<ownWorker, boot, destroyed, destroyDone, promise, transport, prompt>>
docWorker == <<handler, setup, hasManager, loadedStream, prompts, docTerminated, WorkerTasks,
               task, waits, waitOn, nullUsed>>
docVars   == <<docMain, docWorker, alive, workerPort, mainPort>>

Msg(type)       == [type |-> type, task |-> 0]
TaskMsg(type, i) == [type |-> type, task |-> i]

DocInit ==
    /\ ownWorker \in BOOLEAN
    /\ boot = "starting"
    /\ alive = TRUE
    /\ destroyed = FALSE
    /\ destroyDone = FALSE
    /\ promise = "pending"
    /\ transport = "none"
    /\ prompt = "none"
    /\ handler = "none"
    /\ setup = "idle"
    /\ hasManager = FALSE
    /\ loadedStream = "none"
    /\ prompts = 0
    /\ docTerminated = FALSE
    /\ WorkerTasks = {}
    /\ task = [i \in Tasks |-> "none"]
    /\ waits = [i \in Tasks |-> 0]
    /\ waitOn = {}
    /\ workerPort = << >>
    /\ mainPort = << >>
    /\ nullUsed = FALSE

\* PDFWorker.destroyed
WorkerDestroyed == destroyed /\ ownWorker

Settle(outcome) == promise' = IF promise = "pending" THEN outcome ELSE promise

\* The thread is gone, and so are the listeners on its port.
KillWorker ==
    /\ alive' = FALSE
    /\ workerPort' = << >>
    /\ mainPort' = << >>

TakeAtMain(type) ==
    /\ alive
    /\ mainPort # << >> /\ Head(mainPort).type = type
    /\ mainPort' = Tail(mainPort)

TakeAtWorker(type) ==
    /\ alive
    /\ workerPort # << >> /\ Head(workerPort).type = type
    /\ workerPort' = Tail(workerPort)

------------------------------------------------------------------------------
(* The worker starts.                                                       *)

\* The script says ready, and answers the test that has been waiting for it.
WorkerStarts ==
    /\ boot = "starting" /\ alive
    /\ boot' = "greeted"
    /\ mainPort' = mainPort \o <<Msg("ready"), Msg("test")>>
    /\ UNCHANGED <<ownWorker, alive, destroyed, destroyDone, promise, transport, prompt,
                   docWorker, workerPort>>

\* The error event: terminateEarly rejects, or calls _setupFakeWorker, which throws.
WorkerFails ==
    /\ "script" \in Failures
    /\ boot = "starting" /\ alive
    /\ KillWorker
    /\ \/ /\ WorkerDestroyed
          /\ boot' = "rejected"
          /\ Settle("rejected")
       \/ /\ ~WorkerDestroyed
          /\ boot' = "stuck"
          /\ UNCHANGED promise
    /\ UNCHANGED <<ownWorker, destroyed, destroyDone, transport, prompt, docWorker>>

TerminateEarly ==
    /\ KillWorker
    /\ boot' = "rejected"
    /\ Settle("rejected")
    /\ UNCHANGED <<ownWorker, destroyed, destroyDone, transport, prompt, docWorker>>

OnWorkerReady ==
    \/ /\ WorkerDestroyed
       /\ alive /\ mainPort # << >> /\ Head(mainPort).type = "ready"
       /\ TerminateEarly
    \/ /\ ~WorkerDestroyed
       /\ TakeAtMain("ready")
       /\ UNCHANGED <<docMain, docWorker, alive, workerPort>>

\* The worker is up, and getDocument goes on: with the request for the document,
\* unless the task has been destroyed.
OnTest ==
    \/ /\ WorkerDestroyed
       /\ alive /\ mainPort # << >> /\ Head(mainPort).type = "test"
       /\ TerminateEarly
    \/ /\ ~WorkerDestroyed
       /\ TakeAtMain("test")
       /\ boot' = "up"
       /\ \/ /\ destroyed
             /\ Settle("rejected")
             /\ UNCHANGED workerPort
          \/ /\ ~destroyed
             /\ workerPort' = Append(workerPort, Msg("GetDocRequest"))
             /\ UNCHANGED promise
       /\ UNCHANGED <<ownWorker, alive, destroyed, destroyDone, transport, prompt,
                      docWorker>>

------------------------------------------------------------------------------
(* The main thread.                                                         *)

OnDocId ==
    /\ TakeAtMain("DocId")
    /\ \/ /\ destroyed
          /\ Settle("rejected")
          /\ UNCHANGED <<transport, workerPort>>
       \/ /\ ~destroyed
          /\ transport' = "open"
          /\ workerPort' = Append(workerPort, Msg("Ready"))
          /\ UNCHANGED promise
    /\ UNCHANGED <<alive, ownWorker, boot, destroyed, destroyDone, prompt, docWorker>>

\* GetDocRequest was rejected: getDocument warns, and that is all.
OnDocIdFailed ==
    /\ TakeAtMain("DocIdFailed")
    /\ UNCHANGED <<docMain, docWorker, alive, workerPort>>

OnGetDoc ==
    /\ TakeAtMain("GetDoc")
    /\ Settle("resolved")
    /\ UNCHANGED <<alive, ownWorker, boot, destroyed, destroyDone, transport, prompt,
                   docWorker, workerPort>>

OnDocException ==
    /\ TakeAtMain("DocException")
    /\ Settle("rejected")
    /\ UNCHANGED <<alive, ownWorker, boot, destroyed, destroyDone, transport, prompt,
                   docWorker, workerPort>>

\* The application is asked; without a callback, or if it throws, the answer is no.
OnPasswordRequest ==
    /\ TakeAtMain("PasswordRequest")
    /\ \/ /\ prompt' = "asked"
          /\ UNCHANGED workerPort
       \/ /\ prompt' = "settled"
          /\ workerPort' = Append(workerPort, Msg("PasswordRejected"))
    /\ UNCHANGED <<alive, ownWorker, boot, destroyed, destroyDone, promise, transport,
                   docWorker>>

AnswerPrompt(type) ==
    /\ alive /\ prompt = "asked"
    /\ prompt' = "settled"
    /\ workerPort' = Append(workerPort, Msg(type))
    /\ UNCHANGED <<alive, ownWorker, boot, destroyed, destroyDone, promise, transport,
                   docWorker, mainPort>>

\* What the main thread does with the data of a document, or the end of a stream,
\* is no concern of this module.
OnOther ==
    /\ TakeAtMain("DataLoaded") \/ TakeAtMain("End")
    /\ UNCHANGED <<docMain, docWorker, alive, workerPort>>

\* A page's methods do not ask whether the document has been destroyed.
StartTask(i) ==
    /\ alive /\ transport \in {"open", "closing"} /\ promise = "resolved" /\ task[i] = "none"
    /\ task' = [task EXCEPT ![i] = "sent"]
    /\ workerPort' = Append(workerPort, TaskMsg("Start", i))
    /\ UNCHANGED <<docMain, alive, handler, setup, hasManager, loadedStream, prompts,
                   docTerminated, WorkerTasks, waitOn, waits, nullUsed, mainPort>>

\* destroy() of the loading task. Without a transport there is nothing to wait for. The
\* rejection of the prompt is answered in a microtask, after Terminate has been posted.
Destroy ==
    /\ ~destroyed
    /\ destroyed' = TRUE
    /\ \/ /\ transport = "none"
          /\ destroyDone' = TRUE
          /\ IF ownWorker /\ boot = "up" THEN KillWorker
             ELSE UNCHANGED <<alive, workerPort, mainPort>>
          /\ UNCHANGED <<transport, prompt>>
       \/ /\ transport = "open"
          /\ transport' = "closing"
          /\ prompt' = IF prompt = "asked" THEN "settled" ELSE prompt
          /\ workerPort' = Append(workerPort, Msg("Terminate"))
                \o (IF prompt = "asked" THEN <<Msg("PasswordRejected")>> ELSE << >>)
          /\ UNCHANGED <<alive, mainPort, destroyDone>>
    /\ UNCHANGED <<ownWorker, boot, promise, docWorker>>

OnTerminated ==
    /\ alive /\ mainPort # << >> /\ Head(mainPort).type = "Terminated"
    /\ transport' = "closed"
    /\ destroyDone' = TRUE
    /\ IF ownWorker THEN KillWorker
       ELSE mainPort' = Tail(mainPort) /\ UNCHANGED <<alive, workerPort>>
    /\ UNCHANGED <<ownWorker, boot, destroyed, promise, prompt, docWorker>>

------------------------------------------------------------------------------
(* The worker: loading.                                                     *)

\* Messages to the main thread go through the handler, which may be null by now.
PostToMain(messages) ==
    /\ mainPort' = mainPort \o messages
    /\ nullUsed' = (nullUsed \/ handler # "set")

OnGetDocRequest ==
    /\ TakeAtWorker("GetDocRequest")
    /\ \/ /\ handler' = "set"
          /\ mainPort' = Append(mainPort, Msg("DocId"))
       \/ /\ "request" \in Failures
          /\ mainPort' = Append(mainPort, Msg("DocIdFailed"))
          /\ UNCHANGED handler
    /\ UNCHANGED <<docMain, alive, setup, hasManager, loadedStream, prompts, docTerminated,
                   WorkerTasks, task, waits, waitOn, nullUsed>>

OnReady ==
    /\ TakeAtWorker("Ready")
    /\ setup' = "manager"
    /\ UNCHANGED <<docMain, alive, handler, hasManager, loadedStream, prompts,
                   docTerminated, WorkerTasks, task, waits, waitOn, nullUsed, mainPort>>

\* getPdfManager resolves.
ManagerReady ==
    /\ alive /\ setup = "manager"
    /\ \/ /\ docTerminated
          /\ setup' = "dropped"
          /\ UNCHANGED <<hasManager, loadedStream>>
       \/ /\ ~docTerminated /\ loadedStream = "none"
          /\ setup' = "loading"
          /\ hasManager' = TRUE
          /\ loadedStream' = "loading"
    /\ UNCHANGED <<docMain, alive, handler, prompts, docTerminated, WorkerTasks, task,
                   waits, waitOn, nullUsed, workerPort, mainPort>>

\* The data stops: a chunk has failed, and neither the promise of the loaded stream nor a
\* later request for that chunk settles any more; or the end of a stream that has no
\* ranges is not told, so that there is no manager.
DataStops ==
    /\ alive
    /\ loadedStream = "loading" \/ (setup = "manager" /\ loadedStream = "none")
    /\ loadedStream' = "stopped"
    /\ UNCHANGED <<docMain, alive, handler, setup, hasManager, prompts, docTerminated,
                   WorkerTasks, task, waits, waitOn, nullUsed, workerPort, mainPort>>

\* The file is complete: DataLoaded, and recovery may go on. After Terminate the
\* manager lets nothing through any more.
StreamLoaded ==
    /\ alive /\ loadedStream = "loading" /\ ~docTerminated
    /\ loadedStream' = "loaded"
    /\ PostToMain(<<Msg("DataLoaded")>>)
    /\ UNCHANGED <<docMain, alive, handler, setup, hasManager, prompts, docTerminated,
                   WorkerTasks, task, waits, waitOn, workerPort>>

Recover ==
    /\ alive /\ setup = "stream" /\ loadedStream = "loaded"
    /\ setup' = IF docTerminated THEN "dropped" ELSE "recovering"
    /\ UNCHANGED <<docMain, alive, handler, hasManager, loadedStream, prompts,
                   docTerminated, WorkerTasks, task, waits, waitOn, nullUsed, workerPort,
                   mainPort>>

\* onSuccess
Succeed ==
    /\ ~docTerminated
    /\ setup' = "done"
    /\ PostToMain(<<Msg("GetDoc")>>)
    /\ UNCHANGED <<WorkerTasks, prompts>>

\* onFailure with a PasswordException, and with any other.
AskPassword ==
    /\ ~docTerminated /\ prompts < MaxPrompts
    /\ setup' = "password"
    /\ prompts' = prompts + 1
    /\ WorkerTasks' = WorkerTasks \cup {0}
    /\ PostToMain(<<Msg("PasswordRequest")>>)

Fail ==
    /\ ~docTerminated
    /\ setup' = "failed"
    /\ PostToMain(<<Msg("DocException")>>)
    /\ UNCHANGED <<WorkerTasks, prompts>>

\* A callback that finds the flag set throws, and nobody catches that.
Drop ==
    /\ docTerminated
    /\ setup' = "dropped"
    /\ UNCHANGED <<WorkerTasks, prompts, mainPort, nullUsed>>

\* The first attempt that fails on the XRef waits for the whole file.
NeedRecovery ==
    /\ setup = "loading" /\ ~docTerminated
    /\ setup' = "stream"
    /\ UNCHANGED <<WorkerTasks, prompts, mainPort, nullUsed>>

ManagerFails ==
    /\ alive /\ setup = "manager"
    /\ Fail \/ Drop
    /\ UNCHANGED <<docMain, alive, handler, hasManager, loadedStream, docTerminated, task,
                   waits, waitOn, workerPort>>

\* loadDocument settles.
Loaded ==
    /\ alive /\ setup \in {"loading", "recovering"}
    /\ Succeed \/ AskPassword \/ Fail \/ Drop \/ NeedRecovery
    /\ UNCHANGED <<docMain, alive, handler, hasManager, loadedStream, docTerminated, task,
                   waits, waitOn, workerPort>>

FinishTasks(finished) ==
    /\ WorkerTasks' = WorkerTasks \ finished
    /\ waitOn' = waitOn \ finished

\* Without a manager the call on null throws, and the catch clause reports the
\* first exception.
OnPassword ==
    /\ TakeAtWorker("Password")
    /\ FinishTasks({0})
    /\ \/ /\ hasManager
          /\ setup' = "loading"
          /\ UNCHANGED <<mainPort, nullUsed>>
       \/ /\ ~hasManager
          /\ setup' = "failed"
          /\ PostToMain(<<Msg("DocException")>>)
    /\ UNCHANGED <<docMain, alive, handler, hasManager, loadedStream, prompts,
                   docTerminated, task, waits>>

\* Mutant of OnPasswordRejected: loading goes on.
OnPasswordRejectedContinues ==
    /\ TakeAtWorker("PasswordRejected")
    /\ FinishTasks({0})
    /\ setup' = "loading"
    /\ PostToMain(<<Msg("DocException")>>)
    /\ UNCHANGED <<docMain, alive, handler, hasManager, loadedStream, prompts,
                   docTerminated, task, waits>>

OnPasswordRejected ==
    /\ TakeAtWorker("PasswordRejected")
    /\ FinishTasks({0})
    /\ setup' = "failed"
    /\ PostToMain(<<Msg("DocException")>>)
    /\ UNCHANGED <<docMain, alive, handler, hasManager, loadedStream, prompts,
                   docTerminated, task, waits>>

------------------------------------------------------------------------------
(* The worker: the tasks of the pages, and the end.                         *)

\* GetOperatorList or GetTextContent. After Terminate the call on null throws.
OnStart ==
    /\ TakeAtWorker("Start")
    /\ task' = [task EXCEPT ![Head(workerPort).task] = IF hasManager THEN "page" ELSE "ignored"]
    /\ UNCHANGED <<docMain, alive, handler, setup, hasManager, loadedStream, prompts,
                   docTerminated, WorkerTasks, waitOn, waits, nullUsed, mainPort>>

\* getPage resolves, or rejects. After Terminate neither: the data it waits for
\* does not arrive.
PageFound(i) ==
    /\ alive /\ task[i] = "page" /\ ~docTerminated
    /\ task' = [task EXCEPT ![i] = "running"]
    /\ WorkerTasks' = WorkerTasks \cup {i}
    /\ UNCHANGED <<docMain, alive, handler, setup, hasManager, loadedStream, prompts,
                   docTerminated, waitOn, waits, nullUsed, workerPort, mainPort>>

PageNotFound(i) ==
    /\ alive /\ task[i] = "page" /\ ~docTerminated
    /\ task' = [task EXCEPT ![i] = "ignored"]
    /\ UNCHANGED <<docMain, alive, handler, setup, hasManager, loadedStream, prompts,
                   docTerminated, WorkerTasks, waitOn, waits, nullUsed, workerPort,
                   mainPort>>

TaskBecomes(i, state) ==
    /\ task' = [task EXCEPT ![i] = state]
    /\ waits' = [waits EXCEPT ![i] = IF state = "running" THEN @ ELSE @ + 1]
    /\ UNCHANGED <<docMain, alive, handler, setup, hasManager, loadedStream, prompts,
                   docTerminated, WorkerTasks, waitOn, nullUsed, workerPort, mainPort>>

TaskWaits(i) ==
    /\ alive /\ task[i] = "running" /\ ~docTerminated /\ waits[i] < MaxWaits
    /\ \/ WaitsForData /\ loadedStream # "loaded" /\ TaskBecomes(i, "data")
       \/ TaskBecomes(i, "sink")

DataArrives(i) == alive /\ task[i] = "data" /\ ~docTerminated /\ TaskBecomes(i, "running")

\* The reader on the main thread pulls, or has cancelled.
SinkReady(i) == alive /\ task[i] = "sink" /\ TaskBecomes(i, "running")

\* The stream is closed or told the error, but a terminated task's errors are ignored.
TaskEnds(i) ==
    /\ alive /\ task[i] = "running"
    /\ task' = [task EXCEPT ![i] = "finished"]
    /\ FinishTasks({i})
    /\ \/ mainPort' = Append(mainPort, TaskMsg("End", i))
       \/ docTerminated /\ UNCHANGED mainPort
    /\ UNCHANGED <<docMain, alive, handler, setup, hasManager, loadedStream, prompts,
                   docTerminated, waits, nullUsed, workerPort>>

\* Mutant of OnTerminate: it does not wait.
OnTerminateAtOnce ==
    /\ TakeAtWorker("Terminate")
    /\ docTerminated' = TRUE
    /\ hasManager' = FALSE
    /\ waitOn' = {}
    /\ UNCHANGED <<docMain, alive, handler, setup, loadedStream, prompts, WorkerTasks, task,
                   waits, nullUsed, mainPort>>

OnTerminate ==
    /\ TakeAtWorker("Terminate")
    /\ docTerminated' = TRUE
    /\ hasManager' = FALSE
    /\ waitOn' = WorkerTasks
    /\ UNCHANGED <<docMain, alive, handler, setup, loadedStream, prompts, WorkerTasks, task,
                   waits, nullUsed, mainPort>>

TerminateEnds ==
    /\ alive /\ docTerminated /\ handler = "set" /\ waitOn = {}
    /\ handler' = "null"
    /\ mainPort' = Append(mainPort, Msg("Terminated"))
    /\ UNCHANGED <<docMain, alive, setup, hasManager, loadedStream, prompts, docTerminated,
                   WorkerTasks, task, waits, waitOn, nullUsed, workerPort>>

------------------------------------------------------------------------------

MainHandles ==
    \/ OnWorkerReady \/ OnTest \/ OnDocId \/ OnDocIdFailed \/ OnGetDoc \/ OnDocException
    \/ OnPasswordRequest \/ OnOther \/ OnTerminated

WorkerHandles ==
    \/ OnGetDocRequest \/ OnReady \/ OnPassword \/ OnPasswordRejected \/ OnStart \/ OnTerminate

Loading == ManagerReady \/ ManagerFails \/ StreamLoaded \/ Recover \/ Loaded

TaskRuns(i) ==
    PageFound(i) \/ PageNotFound(i) \/ TaskWaits(i) \/ DataArrives(i) \/ SinkReady(i) \/ TaskEnds(i)

DocNext ==
    \/ WorkerStarts \/ WorkerFails \/ MainHandles
    \/ \E type \in {"Password", "PasswordRejected"} : AnswerPrompt(type)
    \/ Destroy
    \/ \E i \in Tasks : StartTask(i) \/ TaskRuns(i)
    \/ WorkerHandles \/ Loading \/ DataStops \/ TerminateEnds

DocSpec == DocInit /\ [][DocNext]_docVars

\* What happens of itself: both threads run, the network delivers what is asked until
\* it is told to stop or the data stops, readers read unless the application has stopped,
\* and the user answers a prompt of a task that is not destroyed.
DocProceeds ==
    \/ WorkerStarts \/ MainHandles \/ WorkerHandles \/ TerminateEnds
    \/ loadedStream # "stopped" /\ Loading
    \/ ~destroyed /\ \E type \in {"Password", "PasswordRejected"} : AnswerPrompt(type)
    \/ \E i \in Tasks :
          \/ TaskWaits(i) \/ TaskEnds(i)
          \/ loadedStream # "stopped" /\ (PageFound(i) \/ PageNotFound(i) \/ DataArrives(i))
          \/ i \notin Unread /\ SinkReady(i)

------------------------------------------------------------------------------
(* What holds.                                                              *)

\* Every variable has one of the values the code gives it.
DocTypeOK ==
    /\ ownWorker \in BOOLEAN
    /\ boot \in {"starting", "greeted", "up", "rejected", "stuck"}
    /\ alive \in BOOLEAN /\ destroyed \in BOOLEAN /\ destroyDone \in BOOLEAN
    /\ promise \in {"pending", "resolved", "rejected"}
    /\ transport \in {"none", "open", "closing", "closed"}
    /\ prompt \in {"none", "asked", "settled"}
    /\ handler \in {"none", "set", "null"}
    /\ setup \in {"idle", "manager", "loading", "stream", "recovering", "password", "done",
                  "failed", "dropped"}
    /\ hasManager \in BOOLEAN /\ docTerminated \in BOOLEAN /\ nullUsed \in BOOLEAN
    /\ loadedStream \in {"none", "loading", "loaded", "stopped"}
    /\ prompts \in 0 .. MaxPrompts
    /\ WorkerTasks \subseteq Tasks \cup {0} /\ waitOn \subseteq WorkerTasks
    /\ waits \in [Tasks -> 0 .. MaxWaits]
    /\ \A i \in Tasks : task[i] \in {"none", "sent", "page", "running", "data", "sink",
                                     "finished", "ignored"}

\* No callback of the worker uses the handler after Terminate has set it to null
\* (handler! in setupDoc), nor finds any other piece of the state undefined.
HandlerNotUsedWhenNull == DocTypeOK /\ ~nullUsed

Outcomes == {i \in DOMAIN mainPort : mainPort[i].type \in {"GetDoc", "DocException"}}

\* The worker reports one outcome, although passwords, recovery and errors lead
\* to it along many chains of promises.
OneOutcome ==
    /\ \A i, j \in Outcomes : i = j
    /\ Outcomes # {} => promise = "pending" /\ setup \in {"done", "failed"}

\* When destroy() is done, no task that was registered runs in a worker that lives on; and
\* none starts once Terminate has looked at the set of tasks.
QuietStep ==
    /\ docTerminated => WorkerTasks' \subseteq WorkerTasks
    /\ (transport = "closed" /\ alive)' =>
          (handler = "null" /\ WorkerTasks = {} /\ mainPort = << >>)'

\* The worker has failed: its script did not load, or it has refused the request.
WorkerFailed ==
    \/ boot = "stuck"
    \/ boot = "up" /\ handler = "none" /\ workerPort = << >> /\ mainPort = << >>

\* Loading waits for data that may never come.
DataMissed == loadedStream = "stopped" /\ setup \in {"manager", "loading", "stream"}

\* The promise of the loading task is settled, unless the task is destroyed, the
\* worker has failed, or the data has stopped while loading waits for it.
LoadingSettled == promise # "pending" \/ destroyed \/ WorkerFailed \/ DataMissed

\* What Terminate may have to wait for without end: a password nobody enters, data
\* that is not let through any more or has stopped, room in a stream nobody reads.
Blocked ==
    \/ prompt = "asked"
    \/ \E i \in Tasks : task[i] = "data" /\ (docTerminated \/ loadedStream = "stopped")
    \/ \E i \in Unread : task[i] = "sink"

\* The promise destroy() returns is resolved, at whatever moment it is called;
\* only what blocks it can prevent it.
DestroyEnded == destroyed => destroyDone \/ Blocked
==============================================================================
