----------------------------- MODULE PageRender -----------------------------
(***************************************************************************)
(* PDFPageProxy and InternalRenderTask (seren-viewer/src/api.ts): render   *)
(* tasks of one page share the operator list of their intent, which the    *)
(* worker streams in chunks; objects (images) arrive on their own.         *)
(*                                                                         *)
(* An intent state lives as long as its operator list, which is requested  *)
(* once, when the state is made: both are named by a number in Evals.      *)
(* Steps between two turns of the event loop are one action.               *)
(***************************************************************************)
EXTENDS OperatorList, FiniteSets

CONSTANTS
    NumTasks,        \* bound: calls of render(), numbered in their order
    Intents,         \* the cache keys of the page's intents
    PrintIntents,    \* those of them that print
    MaxEvals,        \* bound: operator lists requested from the worker
    Pages,           \* pages to choose from: their content and annotations
    Large,           \* the images above MAX_IMAGE_SIZE_TO_CACHE
    ExecutionSteps   \* EXECUTION_STEPS of canvas.ts

VARIABLES
    list,     \* what the worker sends of this page: chunks, and the operators in the first n
    page,     \* PDFPageProxy, with its intent states and its objects
    task,     \* [Tasks -> InternalRenderTask and its place in the event loop]
    worker,   \* [Evals -> what the worker has sent of an operator list]
    inUse     \* InternalRenderTask.#canvasInUse

vars == <<list, page, task, worker, inUse>>

Tasks == 1 .. NumTasks
Canvases == Tasks   \* no more can be told apart
Evals == 1 .. MaxEvals
None == 0
DependenciesOf(ops) == {op.arg : op \in {o \in ToSet(ops) : o.fn = "dependency"}}

\* What the page has received of the list when n chunks have come, and the
\* images the worker can have decoded by then: those up to the next chunk.
ListOf(pg) ==
    LET chunks == PageChunks(pg.content, pg.annotations)
        received == [n \in 0 .. Len(chunks) |-> FlattenSeq([i \in 1 .. n |-> chunks[i].ops])]
    IN  [last |-> [i \in 1 .. Len(chunks) |-> chunks[i].last],
         received |-> received,
         decodable |-> [n \in 0 .. Len(chunks) |->
                          DependenciesOf(received[IF n = Len(chunks) THEN n ELSE n + 1])]]

NumChunks == Len(list.last)
Received(n) == list.received[n]
AllOps == Received(NumChunks)
Images == list.decodable[NumChunks]

\* What PageChunks gives for every page: only the last chunk says so, what has been received
\* is a part from the beginning, and an image is named before it is painted.
ListFits(l) ==
    LET n   == Len(l.last)
        all == l.received[n]
    IN  /\ l.last \in Seq(BOOLEAN) /\ \A i \in 1 .. n : l.last[i] => i = n
        /\ \A i \in 0 .. n : /\ l.received[i] \in Seq(ToSet(all)) /\ Len(l.received[i]) <= Len(all)
                             /\ \A j \in 1 .. Len(l.received[i]) : l.received[i][j] = all[j]
                             /\ l.decodable[i] \subseteq l.decodable[n]
        /\ l.decodable[n] = DependenciesOf(all)
        /\ \A i \in 1 .. Len(all) : all[i].fn = "paint" =>
              \E j \in 1 .. i : all[j].fn = "dependency" /\ all[j].arg = all[i].arg

ASSUME RenderAssumption ==
    /\ NumTasks \in Nat /\ MaxEvals \in Nat /\ ExecutionSteps \in Nat
    /\ \A pg \in Pages : ListFits(ListOf(pg))

\* Objects are named anew by each evaluation (Page._localIdFactory).
Objects == Evals \X Images
NotWaiting == <<None, "no">>
Forgotten == <<None, "forgotten">>   \* waits in a PDFObjects entry that clear() has dropped

-----------------------------------------------------------------------------
Init ==
    /\ list \in {ListOf(pg) : pg \in Pages}
    /\ page = [intentStates |-> [i \in Intents |-> None],
               state |-> [e \in Evals |->
                   [reader |-> "none", timer |-> FALSE, ready |-> "pending",
                    chunks |-> 0, last |-> FALSE, tasks |-> {}]],
               objs |-> {}, waits |-> [t \in Tasks |-> NotWaiting], evals |-> 0,
               pendingCleanup |-> FALSE, delayed |-> FALSE, large |-> FALSE,
               destroyed |-> FALSE]
    /\ task = [t \in Tasks |->
                 [promise |-> "none", eval |-> None, canvas |-> None, init |-> FALSE,
                  graphics |-> FALSE, running |-> FALSE, cancelled |-> FALSE,
                  scheduled |-> FALSE, idx |-> 0]]
    /\ worker = [e \in Evals |->
                   [intent |-> None, failed |-> FALSE, started |-> FALSE, sent |-> 0, objs |-> {}]]
    /\ inUse = {}

-----------------------------------------------------------------------------
(* Operations of PDFPageProxy that others call, on the page record p.      *)

Registered(p) == {p.intentStates[i] : i \in Intents} \ {None}

\* objs.clear(): the promises of the entries that were waited for are dropped.
ObjsCleared(p) ==
    [p EXCEPT !.objs = {},
              !.waits = [t \in Tasks |-> IF @[t] = NotWaiting THEN NotWaiting ELSE Forgotten]]

Busy(p) == \E e \in Registered(p) : p.state[e].tasks # {} \/ ~p.state[e].last

TryCleanup(p, later) ==
    LET now == [p EXCEPT !.delayed = FALSE]
    IN  IF ~p.pendingCleanup \/ p.destroyed THEN now
        ELSE IF later THEN [p EXCEPT !.delayed = TRUE]
        ELSE IF Busy(p) THEN now
        ELSE [ObjsCleared(now) EXCEPT !.intentStates = [i \in Intents |-> None],
                                      !.pendingCleanup = FALSE]

Cleanup(p) == TryCleanup([p EXCEPT !.pendingCleanup = TRUE], FALSE)

\* The end of _abortOperatorList: the stream is cancelled, its state forgotten.
Aborted(p, e) ==
    LET q == [p EXCEPT !.state[e].reader = "cancelled", !.state[e].timer = FALSE]
    IN  IF p.destroyed THEN q
        ELSE Cleanup([q EXCEPT !.intentStates =
                        [i \in Intents |-> IF @[i] = e THEN None ELSE @[i]]])

AbortOperatorList(p, e, isCancel) ==
    LET s == p.state[e]
    IN  IF s.reader # "open" THEN p
        ELSE IF s.tasks # {} THEN [p EXCEPT !.state[e].timer = FALSE]
        ELSE IF isCancel THEN [p EXCEPT !.state[e].timer = TRUE]
        ELSE Aborted(p, e)

\* The closure complete() of render(), for an outcome of task t: clean-up is
\* tried first, then the operator list is given up unless the task is done.
Complete(t, outcome) ==
    LET e     == task[t].eval
        print == worker[e].intent \in PrintIntents
    IN  \E p \in {TryCleanup([page EXCEPT !.state[e].tasks = @ \ {t}, !.waits[t] = NotWaiting,
                                 !.pendingCleanup = @ \/ page.large \/ print], ~print)} :
          page' = IF outcome = "done" THEN p ELSE AbortOperatorList(p, e, outcome = "cancelled")

\* The promise of a render task keeps its first outcome.
Settled(t, outcome) == IF task[t].promise = "pending" THEN outcome ELSE task[t].promise

-----------------------------------------------------------------------------
(* InternalRenderTask.                                                     *)

\* operatorListChanged() for the tasks of a state: those with graphics that
\* are not running are scheduled; onContinue and the animation frame are one wait.
Notified(ts) ==
    [t \in Tasks |->
       IF t \in ts /\ task[t].graphics /\ ~task[t].running
       THEN [task[t] EXCEPT !.running = TRUE, !.scheduled = ~task[t].cancelled]
       ELSE task[t]]

\* cancel(error), of a task in any state.
Cancelled(t) ==
    [task EXCEPT ![t].running = FALSE, ![t].cancelled = TRUE, ![t].scheduled = FALSE]

CancelTask(t, outcome) ==
    /\ task' = [Cancelled(t) EXCEPT ![t].promise = Settled(t, outcome)]
    /\ inUse' = inUse \ {task[t].canvas}
    /\ Complete(t, outcome)
    /\ UNCHANGED <<list, worker>>

-----------------------------------------------------------------------------
(* What the application does.                                              *)

\* Mutant: the timer of an aborted list is not stopped when the list is wanted again.
StateForRenderKeepsTimer(p, i) ==
    IF p.intentStates[i] # None THEN p
    ELSE [p EXCEPT !.evals = @ + 1, !.intentStates[i] = p.evals + 1,
                   !.state[p.evals + 1].reader = "open"]

\* The intent state of a render: an old one whose abortion is called off, or a
\* new one whose operator list is requested.
StateForRender(p, i) ==
    LET e == p.intentStates[i]
    IN  IF e # None THEN [p EXCEPT !.state[e].timer = FALSE]
        ELSE [p EXCEPT !.evals = @ + 1, !.intentStates[i] = p.evals + 1,
                       !.state[p.evals + 1].reader = "open"]

Render(t, i, c) ==
    /\ task[t].promise = "none" /\ ~page.destroyed
    /\ \A u \in 1 .. t - 1 : task[u].promise # "none"
    /\ LET isNew == page.intentStates[i] = None
           p == StateForRender([page EXCEPT !.pendingCleanup = FALSE, !.delayed = FALSE], i)
           e == p.intentStates[i]
       IN  /\ isNew => page.evals < MaxEvals
           /\ page' = [p EXCEPT !.state[e].tasks = @ \cup {t}]
           /\ task' = [task EXCEPT ![t].promise = "pending", ![t].eval = e,
                                   ![t].canvas = c, ![t].init = TRUE]
           /\ worker' = [worker EXCEPT ![e].intent = i]
    /\ UNCHANGED <<list, inUse>>

\* RenderTask.cancel(), also of a task that waits for its canvas.
Cancel(t) ==
    /\ task[t].promise = "pending" /\ ~page.destroyed
    /\ CancelTask(t, "cancelled")

CallCleanup ==
    /\ ~page.destroyed /\ page.evals > 0
    /\ page' = Cleanup(page)
    /\ UNCHANGED <<list, task, worker, inUse>>

\* _destroy(), called by the transport when the document is destroyed.
Destroy ==
    /\ ~page.destroyed
    /\ LET live == UNION {page.state[e].tasks : e \in Registered(page)}
           ends == [e \in Evals |->
                      IF e \in Registered(page)
                      THEN [page.state[e] EXCEPT !.tasks = {}, !.timer = FALSE,
                              !.reader = IF @ = "open" THEN "cancelled" ELSE @]
                      ELSE page.state[e]]
       IN  /\ page' = [ObjsCleared(page) EXCEPT
                         !.destroyed = TRUE, !.pendingCleanup = FALSE, !.delayed = FALSE,
                         !.state = ends, !.waits = [t \in Tasks |-> NotWaiting]]
           /\ task' = [t \in Tasks |->
                         IF t \in live THEN [Cancelled(t)[t] EXCEPT !.promise = Settled(t, "cancelled")]
                         ELSE task[t]]
           /\ inUse' = inUse \ {task[t].canvas : t \in live}
    /\ UNCHANGED <<list, worker>>

-----------------------------------------------------------------------------
(* The event loop: promises, animation frames and timers.                  *)

\* displayReadyCapability is resolved: initializeGraphics and the first schedule.
Initialize(t) ==
    /\ task[t].init /\ page.state[task[t].eval].ready = "resolved"
    /\ LET ready == [task EXCEPT ![t].init = FALSE]
       IN  IF page.destroyed
           THEN task' = [ready EXCEPT ![t].promise = Settled(t, "done")] /\ UNCHANGED <<page, inUse>>
           ELSE IF task[t].cancelled
           THEN task' = ready /\ UNCHANGED <<page, inUse>>
           ELSE IF task[t].canvas \in inUse
           THEN /\ task' = [ready EXCEPT ![t].promise = Settled(t, "failed")]
                /\ Complete(t, "failed")
                /\ UNCHANGED inUse
           ELSE /\ task' = [ready EXCEPT ![t].graphics = TRUE, ![t].running = TRUE,
                                         ![t].scheduled = TRUE]
                /\ inUse' = inUse \cup {task[t].canvas}
                /\ UNCHANGED page
    /\ UNCHANGED <<list, worker>>

\* displayReadyCapability is rejected: complete(reason).
InitializeFails(t) ==
    /\ task[t].init /\ page.state[task[t].eval].ready = "rejected"
    /\ task' = [task EXCEPT ![t].init = FALSE, ![t].promise = Settled(t, "failed")]
    /\ Complete(t, "failed")
    /\ UNCHANGED <<list, worker, inUse>>

\* Where executeOperatorList may stop: at a dependency that is not there, at
\* the end, or after a slice of time.
Blocked(e, ops, i) == ops[i].fn = "dependency" /\ <<e, ops[i].arg>> \notin page.objs

RunEnds(e, from, ops) ==
    LET blocked == {i \in from + 1 .. Len(ops) : Blocked(e, ops, i)}
        stop    == IF blocked = {} THEN Len(ops) ELSE CHOOSE i \in blocked : \A j \in blocked : i <= j
        end     == IF blocked = {} THEN Len(ops) ELSE stop - 1
        slices  == {i \in from + 1 .. end :
                      /\ Len(ops) - from > ExecutionSteps /\ i < Len(ops)
                      /\ (i - from) % (ExecutionSteps + 1) = 0}
    IN  {[idx |-> end, slice |-> FALSE]} \cup {[idx |-> i, slice |-> TRUE] : i \in slices}

\* Mutant: a list that has been drawn as far as it came is taken for complete.
IsCompleteAtEnd(e, idx) == idx = Len(Received(page.state[e].chunks))

IsComplete(e, idx) == idx = Len(Received(page.state[e].chunks)) /\ page.state[e].last

\* _next(): run to the end of what has come, and complete after the last chunk.
ExecuteNext(t) ==
    /\ task[t].scheduled
    /\ LET e   == task[t].eval
           ops == Received(page.state[e].chunks)
       IN  \E run \in RunEnds(e, task[t].idx, ops) :
             LET atEnd    == run.idx = Len(ops)
                 complete == IsComplete(e, run.idx)
                 waits    == IF run.slice \/ atEnd THEN NotWaiting ELSE <<e, ops[run.idx + 1].arg>>
             IN  /\ task' = [task EXCEPT
                       ![t].idx = run.idx, ![t].scheduled = run.slice, ![t].running = ~atEnd,
                       ![t].promise = IF complete THEN Settled(t, "done") ELSE @]
                 /\ inUse' = IF complete THEN inUse \ {task[t].canvas} ELSE inUse
                 /\ IF complete THEN Complete(t, "done")
                    ELSE page' = [page EXCEPT !.waits[t] = waits]
    /\ UNCHANGED <<list, worker>>

\* An operator throws: cancel(error).
NextThrows(t) ==
    /\ task[t].scheduled /\ task[t].idx < Len(Received(page.state[task[t].eval].chunks))
    /\ CancelTask(t, "failed")

\* The timeout that puts off the end of a cancelled operator list.
CancelTimeout(e) ==
    /\ page.state[e].timer
    /\ page' = IF page.state[e].reader = "open" THEN Aborted(page, e)
               ELSE [page EXCEPT !.state[e].timer = FALSE]
    /\ UNCHANGED <<list, task, worker, inUse>>

DelayedCleanup ==
    /\ page.delayed
    /\ page' = TryCleanup(page, FALSE)
    /\ UNCHANGED <<list, task, worker, inUse>>

-----------------------------------------------------------------------------
(* Messages of the worker, each list's in its order.  Those that are not   *)
(* part of the stream still come after the stream has been cancelled.      *)

Runs(e) == worker[e].intent # None /\ ~worker[e].failed

\* onStartRenderPage: it names the intent, not the list it belongs to.
StartRenderPage(e) ==
    /\ Runs(e) /\ ~worker[e].started
    /\ worker' = [worker EXCEPT ![e].started = TRUE]
    /\ LET now == page.intentStates[worker[e].intent]
       IN  page' = IF page.destroyed \/ now = None \/ page.state[now].ready # "pending" THEN page
                   ELSE [page EXCEPT !.state[now].ready = "resolved"]
    /\ UNCHANGED <<list, task, inUse>>

\* A chunk reaches the pump, as long as the stream is not cancelled.
ReceiveChunk(e) ==
    /\ Runs(e) /\ worker[e].started /\ worker[e].sent < NumChunks
    /\ page.state[e].reader = "open" /\ ~page.destroyed
    /\ worker' = [worker EXCEPT ![e].sent = @ + 1]
    /\ LET n == worker[e].sent + 1
           p == [page EXCEPT !.state[e].chunks = n, !.state[e].last = list.last[n]]
       IN  /\ task' = Notified(p.state[e].tasks)
           /\ page' = IF list.last[n] THEN TryCleanup(p, TRUE) ELSE p
    /\ UNCHANGED <<list, inUse>>

\* The evaluation fails: the pump marks the list complete and tells its tasks.
ReceiveError(e) ==
    /\ Runs(e) /\ worker[e].sent < NumChunks /\ page.state[e].reader = "open" /\ ~page.destroyed
    /\ worker' = [worker EXCEPT ![e].failed = TRUE]
    /\ LET p == [page EXCEPT !.state[e].reader = "none", !.state[e].last = TRUE,
                   !.state[e].ready = IF @ = "pending" THEN "rejected" ELSE @]
       IN  /\ task' = Notified(p.state[e].tasks)
           /\ page' = TryCleanup(p, TRUE)
    /\ UNCHANGED <<list, inUse>>

\* Mutants: objects are kept only while the page is busy; also when it is destroyed.
KeepsObjOfBusy(o) == ~page.destroyed /\ o \notin page.objs /\ Busy(page)
KeepsObjAfterDestroy(o) == o \notin page.objs /\ Registered(page) # {}

\* onObj: an image of the chunks up to the next one is decoded; it is kept unless it is known or the page was cleaned up.
KeepsObj(o) == ~page.destroyed /\ o \notin page.objs /\ Registered(page) # {}

ReceiveObj(e, d) ==
    /\ worker[e].started /\ d \notin worker[e].objs
    /\ d \in list.decodable[worker[e].sent]
    /\ worker' = [worker EXCEPT ![e].objs = @ \cup {d}]
    /\ LET o == <<e, d>>
           woken == {t \in Tasks : page.waits[t] = o}
       IN  IF KeepsObj(o)
           THEN /\ page' = [page EXCEPT !.objs = @ \cup {o}, !.large = @ \/ d \in Large,
                     !.waits = [t \in Tasks |-> IF t \in woken THEN NotWaiting ELSE @[t]]]
                /\ task' = [t \in Tasks |-> IF t \in woken THEN [task[t] EXCEPT !.scheduled = TRUE]
                                            ELSE task[t]]
           ELSE UNCHANGED <<page, task>>
    /\ UNCHANGED <<list, inUse>>

-----------------------------------------------------------------------------
WorkerNext(e) ==
    \/ StartRenderPage(e) \/ ReceiveChunk(e) \/ ReceiveError(e)
    \/ \E d \in Images : ReceiveObj(e, d)

Next ==
    \/ \E t \in Tasks, i \in Intents : \E c \in 1 .. t : Render(t, i, c)
    \/ \E t \in Tasks : \/ Cancel(t) \/ Initialize(t) \/ InitializeFails(t)
                        \/ ExecuteNext(t) \/ NextThrows(t)
    \/ \E e \in Evals : CancelTimeout(e) \/ WorkerNext(e)
    \/ CallCleanup \/ DelayedCleanup \/ Destroy

\* The event loop goes on, the worker goes on with a list until it is cancelled,
\* and decodes every image it has named (sendImgData is called for a failure
\* too); what the application does is not owed.
Fairness ==
    /\ \A t \in Tasks : WF_vars(Initialize(t) \/ InitializeFails(t)) /\ WF_vars(ExecuteNext(t))
    /\ \A e \in Evals :
         /\ WF_vars(page.state[e].reader = "open" /\ (StartRenderPage(e) \/ ReceiveChunk(e)))
         /\ WF_vars(\E d \in DependenciesOf(Received(worker[e].sent)) : ReceiveObj(e, d))

Spec == Init /\ [][Next]_vars /\ Fairness

-----------------------------------------------------------------------------
(* Properties.                                                             *)

\* The fields have their types, and only the last chunk of a list, or its failure, marks it complete.
TypeOK ==
    /\ page.intentStates \in [Intents -> {None} \cup 1 .. page.evals]
    /\ \A e \in Evals :
         /\ page.state[e].reader \in {"none", "open", "cancelled"}
         /\ page.state[e].ready \in {"pending", "resolved", "rejected"}
         /\ page.state[e].chunks <= worker[e].sent /\ page.state[e].tasks \subseteq Tasks
         /\ worker[e].sent \in 0 .. NumChunks
         /\ page.state[e].last => page.state[e].chunks = NumChunks \/ worker[e].failed
    /\ page.objs \subseteq Objects
    /\ page.waits \in [Tasks -> Objects \cup {NotWaiting, Forgotten}]
    /\ \A t \in Tasks :
         /\ task[t].promise \in {"none", "pending", "done", "failed", "cancelled"}
         /\ task[t].idx \in 0 .. Len(AllOps)
    /\ inUse \subseteq Canvases

Live(t) == task[t].promise = "pending"
Drawing(t) == Live(t) /\ task[t].graphics

\* A task that has not settled will get the rest of its operators: its intent
\* state is the one the worker's messages find, nobody is about to abort it,
\* and every image it still has to draw is stored or on its way.  Renders,
\* cancellations, timeouts and clean-ups that overlap must not break this
\* (_abortOperatorList, #tryCleanup, onObj).
LiveTasksAreFed ==
    /\ TypeOK
    /\ \A t \in Tasks : Live(t) =>
        LET e == task[t].eval
            s == page.state[e]
        IN  /\ t \in s.tasks /\ page.intentStates[worker[e].intent] = e
            /\ s.reader = "open" \/ s.last
            /\ ~s.timer /\ page.waits[t] # Forgotten
            /\ \A d \in DependenciesOf(SubSeq(AllOps, task[t].idx + 1, Len(AllOps))) :
                 <<e, d>> \in page.objs \/ d \notin worker[e].objs

\* render().promise is resolved only when the whole list has been drawn (a list
\* the worker gave up: as far as it came), and an image is painted only after
\* its arrival, wherever the flushes fall (addDependency, addOpList).
DoneMeansDrawn ==
    \A t \in Tasks : task[t].promise # "none" =>
        LET e == task[t].eval IN
        /\ task[t].promise = "done" =>
             task[t].idx = Len(IF worker[e].failed THEN Received(page.state[e].chunks) ELSE AllOps)
        /\ \A i \in 1 .. task[t].idx : AllOps[i].fn = "paint" => AllOps[i].arg \in worker[e].objs

\* A destroyed page has no render that waits, no canvas in use and no object.
DestroyedIsQuiet ==
    page.destroyed => inUse = {} /\ page.objs = {} /\ ~page.delayed /\ \A t \in Tasks : ~Live(t)

\* Two tasks do not draw on one canvas at a time (InternalRenderTask.#canvasInUse).
OneTaskPerCanvas ==
    \A t, u \in Tasks : Drawing(t) /\ Drawing(u) /\ task[t].canvas = task[u].canvas => t = u

\* Every render is settled, whatever is cancelled, cleaned up or fails meanwhile.
RendersSettle == \A t \in Tasks : Live(t) ~> ~Live(t)
=============================================================================
