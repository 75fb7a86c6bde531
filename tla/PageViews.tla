------------------------------ MODULE PageViews ------------------------------
(***************************************************************************)
(* WebPDFViewer, WebPageViewManager and WebPDFPageView (seren-web): the    *)
(* documents an application opens one after the other, the page views the  *)
(* manager makes for each, their drawing, zooming and clean-up.            *)
(*                                                                         *)
(* Each document is opened once, so a view is named by its document and    *)
(* page number.  No variable stands for WebPDFViewer.pdfLoadingTask, which *)
(* is never assigned: open() never closes, close() returns at once.  The   *)
(* buffer of views is left out as well: nothing is ever pushed to it.      *)
(***************************************************************************)
EXTENDS Naturals, FiniteSets

CONSTANTS
    NumDocs,     \* bound: calls of open(), numbered in their order
    PageCounts,  \* bound: the numbers of pages the documents may have, in their order
    MaxScale,    \* bound: the scales a zoom may ask for
    FullScale,   \* the greatest scale at which maxCanvasPixels lets a page be drawn in full;
                 \* 0 stands for maxCanvasPixels = 0, "CSS-only zooming"
    MaxDraws,    \* bound: render tasks of all views
    MaxUpdates   \* bound: updates of all views by the user

ASSUME PageViewsAssumption ==
    /\ NumDocs \in Nat /\ MaxScale \in Nat \ {0} /\ FullScale \in Nat /\ MaxDraws \in Nat /\ MaxUpdates \in Nat
    /\ PageCounts \subseteq [1 .. NumDocs -> Nat \ {0}] /\ IsFiniteSet(PageCounts)

VARIABLES
    opened,     \* [Docs -> how far open() has come, and the document's number of pages]
    manager,    \* WebPageViewManager
    view,       \* [Views -> WebPDFPageView]
    task,       \* [Views -> [Draws -> the render task of the page proxy]]
    waiting     \* calls of getPage that are on their way: who asked for which page

viewVars == <<opened, manager, view, task, waiting>>

Docs == 1 .. NumDocs
Draws == 1 .. MaxDraws
Scales == 1 .. MaxScale
None == 0
Views == UNION {{d} \X (1 .. counts[d]) : d \in Docs, counts \in PageCounts}
PagesOf(d) == {<<d, n>> : n \in 1 .. opened[d].count}
Shown == IF manager.pages = None THEN {} ELSE PagesOf(manager.pages)   \* _pages

NewView(scale) ==
    [pdfPage |-> None, state |-> "INITIAL", task |-> None, canvas |-> None, hidden |-> FALSE,
     zoomLayer |-> None, scale |-> scale, cssFrom |-> MaxScale + 1, error |-> FALSE, draws |-> 0]

ViewsInit ==
    /\ opened \in {[d \in Docs |-> [state |-> "none", count |-> counts[d]]] : counts \in PageCounts}
    /\ manager = [document |-> None, pages |-> None, scale |-> 1, timer |-> FALSE,
                  arranged |-> {}, loaded |-> "none", left |-> [d \in Docs |-> 0], updates |-> 0,
                  thrown |-> FALSE]
    /\ view = [v \in Views |-> NewView(1)]
    /\ task = [v \in Views |-> [k \in Draws |-> "none"]]
    /\ waiting = {}

-----------------------------------------------------------------------------
(* Operations of one view: w is the view and its tasks.                    *)

Of(v) == [view |-> view[v], task |-> task[v]]

\* A render task that has settled is not cancelled.  #finishRenderTask of one that is
\* cancelled runs in the same turn: it finds another task, or none, and clears the error.
CancelRendering(w) ==
    LET k == w.view.task
    IN  IF k = None \/ w.task[k] # "pending" THEN [w EXCEPT !.view.task = None]
        ELSE [w EXCEPT !.view.task = None, !.view.error = FALSE, !.task[k] = "cancelled"]

Reset(w, keepZoomLayer) ==
    LET c == CancelRendering(w)
    IN  [c EXCEPT !.view.state = "INITIAL",
                  !.view.canvas = IF keepZoomLayer /\ w.view.zoomLayer # None THEN @ ELSE None,
                  !.view.zoomLayer = IF keepZoomLayer THEN @ ELSE None]

SetPdfPage(w, d) == Reset([w EXCEPT !.view.pdfPage = d], FALSE)

\* onlyCssZoom: the canvas is restricted (#hasRestrictedScaling) and would be again.
CssOnly(w, scale) == w.view.canvas # None /\ scale >= w.view.cssFrom

\* Mutant: an update spares the views that count as finished.
UpdateSparesFinished(w, scale, postpone) ==
    LET scaled == [w EXCEPT !.view.scale = scale]
    IN  IF w.view.state = "FINISHED" \/ CssOnly(w, scale) THEN scaled
        ELSE IF postpone THEN [CancelRendering(scaled) EXCEPT !.view.state = "FINISHED"]
        ELSE Reset(scaled, TRUE)

\* update(): a drawing that is put off is marked finished, a canvas that stays is only
\* transformed; otherwise the old canvas, once it has been shown, becomes the zoom layer
\* and the view starts again.
Update(w, scale, postpone) ==
    LET scaled == [w EXCEPT !.view.scale = scale]
        drawn  == w.view.canvas # None
    IN  IF drawn /\ (postpone \/ CssOnly(w, scale))
        THEN IF w.view.state = "FINISHED" \/ CssOnly(w, scale) THEN scaled
             ELSE [CancelRendering(scaled) EXCEPT !.view.state = "FINISHED"]
        ELSE Reset([scaled EXCEPT !.view.zoomLayer =
                      IF drawn /\ @ = None /\ ~w.view.hidden THEN w.view.canvas ELSE @], TRUE)

\* A canvas that is too large for maxCanvasPixels is drawn coarser, and stays at greater scales.
CssFrom(scale) == IF FullScale = 0 THEN 1 ELSE IF scale > FullScale THEN scale + 1 ELSE MaxScale + 1

\* draw(): it resets a view that is not new, and gives up one without a page.
Draw(w) ==
    LET r == IF w.view.state = "INITIAL" THEN w ELSE Reset(w, FALSE)
        k == r.view.draws + 1
    IN  IF r.view.pdfPage = None THEN [r EXCEPT !.view.state = "FINISHED"]
        ELSE [view |-> [r.view EXCEPT !.state = "RUNNING", !.task = k, !.canvas = k,
                          !.hidden = TRUE, !.cssFrom = CssFrom(r.view.scale), !.draws = k],
              task |-> [r.task EXCEPT ![k] = "pending"]]

Drawn == Cardinality({vk \in Views \X Draws : task[vk[1]][vk[2]] # "none"})

Put(v, result) ==
    \E w \in {result} :
      /\ view' = [view EXCEPT ![v] = w.view]
      /\ task' = [task EXCEPT ![v] = w.task]

\* An operation on some views at once.
PutAll(vs, F(_)) ==
    \E ws \in {[v \in Views |-> IF v \in vs THEN F(Of(v)) ELSE Of(v)]} :
      /\ view' = [v \in Views |-> ws[v].view]
      /\ task' = [v \in Views |-> ws[v].task]

-----------------------------------------------------------------------------
(* Opening documents.                                                      *)

Asks(who, v) == [who |-> who, view |-> v]
PageAnswered(who, v) == waiting' = waiting \ {Asks(who, v)}

Open(d) ==
    /\ opened[d].state = "none" /\ \A e \in 1 .. d - 1 : opened[e].state # "none"
    /\ opened' = [opened EXCEPT ![d].state = "opening"]
    /\ UNCHANGED <<manager, view, task, waiting>>

\* The promise of getDocument: load() and setDocument().
Load(d) ==
    /\ opened[d].state = "opening"
    /\ opened' = [opened EXCEPT ![d].state = "open"]
    /\ manager' = [manager EXCEPT !.document = d, !.pages = None, !.loaded = "pending", !.thrown = FALSE,
                                  !.scale = IF manager.document = None THEN @ ELSE 1]
    /\ PutAll(Shown, CancelRendering)
    /\ waiting' = waiting \cup {Asks("first", <<d, 1>>)}

LoadFails(d) ==
    /\ opened[d].state = "opening"
    /\ opened' = [opened EXCEPT ![d].state = "failed"]
    /\ UNCHANGED <<manager, view, task, waiting>>

\* A capability keeps its first outcome.
PagesLoaded(m) == [m EXCEPT !.loaded = IF @ = "pending" THEN "resolved" ELSE @]
PagesFailed(m) == [m EXCEPT !.loaded = IF @ = "pending" THEN "rejected" ELSE @]

\* The first page has come: the views are made, and drawn unless the
\* arrangement holds a page of this number already.
IsCurrentAlways(d) == TRUE   \* mutant: the check of a closed document is missing
IsCurrent(d) == d = manager.document

FirstPage(d) ==
    /\ Asks("first", <<d, 1>>) \in waiting
    /\ IF ~IsCurrent(d)
       THEN UNCHANGED <<manager, view, task>> /\ PageAnswered("first", <<d, 1>>)
       ELSE LET conflict == manager.arranged # {}
                asked == {Asks("ensure", v) : v \in IF conflict THEN {} ELSE PagesOf(d)}
            IN  /\ manager' = IF conflict THEN PagesFailed([manager EXCEPT !.pages = d])
                              ELSE [manager EXCEPT !.pages = d,
                                      !.arranged = {v[2] : v \in PagesOf(d)}]
                /\ view' = [v \in Views |->
                      IF v \notin PagesOf(d) THEN view[v]
                      ELSE [NewView(manager.scale) EXCEPT !.pdfPage = IF v[2] = 1 THEN d ELSE None]]
                /\ waiting' = (waiting \ {Asks("first", <<d, 1>>)}) \cup asked
                                \cup {Asks("fetch", <<d, 1>>)}
                /\ UNCHANGED task
    /\ UNCHANGED opened

FirstPageFails(d) ==
    /\ Asks("first", <<d, 1>>) \in waiting
    /\ manager' = PagesFailed(manager)
    /\ PageAnswered("first", <<d, 1>>)
    /\ UNCHANGED <<opened, view, task>>

\* #onePageRenderedOrForceFetch: the other pages are fetched, unless
\* disableAutoFetch is set or the document is very long.
FetchPages(d, eager) ==
    /\ Asks("fetch", <<d, 1>>) \in waiting
    /\ LET others == IF IsCurrent(d) /\ eager THEN PagesOf(d) \ {<<d, 1>>} ELSE {}
       IN  /\ manager' = IF ~IsCurrent(d) THEN manager
                         ELSE IF others = {} THEN PagesLoaded(manager)
                         ELSE [manager EXCEPT !.left[d] = Cardinality(others)]
           /\ waiting' = (waiting \ {Asks("fetch", <<d, 1>>)}) \cup {Asks("eager", v) : v \in others}
    /\ UNCHANGED <<opened, view, task>>

\* One page less to fetch: the capability is the one of the document shown by now.
OneLess(d) ==
    LET m == [manager EXCEPT !.left[d] = @ - 1]
    IN  manager' = IF m.left[d] = 0 THEN PagesLoaded(m) ELSE m

\* It goes to the view that has its number by now; if there is none the callback throws.
EagerPage(v) ==
    /\ Asks("eager", v) \in waiting
    /\ LET now == <<manager.pages, v[2]>>
       IN  IF now \notin Shown THEN UNCHANGED <<manager, view, task>>
           ELSE /\ IF view[now].pdfPage # None THEN UNCHANGED <<view, task>>
                   ELSE Put(now, SetPdfPage(Of(now), v[1]))
                /\ OneLess(v[1])
    /\ PageAnswered("eager", v)
    /\ UNCHANGED opened

EagerPageFails(v) ==
    /\ Asks("eager", v) \in waiting
    /\ OneLess(v[1])
    /\ PageAnswered("eager", v)
    /\ UNCHANGED <<opened, view, task>>

\* _ensurePdfPageLoaded for renderPageViews: the view is drawn, whatever is shown by now.
EnsurePage(v) ==
    /\ Asks("ensure", v) \in waiting /\ Drawn < MaxDraws
    /\ Put(v, Draw(IF view[v].pdfPage # None THEN Of(v) ELSE SetPdfPage(Of(v), v[1])))
    /\ PageAnswered("ensure", v)
    /\ UNCHANGED <<opened, manager>>

EnsurePageFails(v) ==
    /\ Asks("ensure", v) \in waiting /\ view[v].pdfPage = None
    /\ PageAnswered("ensure", v)
    /\ UNCHANGED <<opened, manager, view, task>>

-----------------------------------------------------------------------------
(* What the user and the embedding application do.                         *)

UserUpdates ==
    /\ manager.document # None /\ manager.updates < MaxUpdates

\* refresh(): the views are updated in their order, up to one that is only transformed and
\* not put off.  There callback.afterPageRendered is called of a view that has no callback
\* (page_view_manager.ts 980), which throws out of the loop and of what called refresh().
Throws(w, scale, postpone) == ~postpone /\ CssOnly(w, scale)
OwnScale(v) == view[v].scale
Reached(ScaleOf(_), postpone) ==
    {v \in Shown : \A u \in Shown : u[2] < v[2] => ~Throws(Of(u), ScaleOf(u), postpone)}
RefreshThrows(ScaleOf(_), postpone) == \E v \in Shown : Throws(Of(v), ScaleOf(v), postpone)

\* #setScaleUpdatePages; a timer redraws what has been put off.
Zoom(scale, postpone) ==
    /\ UserUpdates /\ scale # manager.scale
    /\ PutAll(Reached(LAMBDA v : scale, postpone), LAMBDA w : Update(w, scale, postpone))
    /\ manager' = IF RefreshThrows(LAMBDA v : scale, postpone)
                  THEN [manager EXCEPT !.thrown = TRUE, !.updates = @ + 1]
                  ELSE [manager EXCEPT !.scale = scale, !.timer = postpone, !.updates = @ + 1]
    /\ UNCHANGED <<opened, waiting>>

\* refresh() for another rotation or other optional content: it stops the timer.
Rotate ==
    /\ UserUpdates
    /\ PutAll(Reached(OwnScale, FALSE), LAMBDA w : Update(w, w.view.scale, FALSE))
    /\ manager' = IF RefreshThrows(OwnScale, FALSE)
                  THEN [manager EXCEPT !.thrown = TRUE, !.updates = @ + 1]
                  ELSE [manager EXCEPT !.timer = FALSE, !.updates = @ + 1]
    /\ UNCHANGED <<opened, waiting>>

\* renderView() of PDFRenderingManager: it draws a view that is new.
RenderView(v) ==
    /\ v \in Shown /\ view[v].state = "INITIAL" /\ Drawn < MaxDraws
    /\ Put(v, Draw(Of(v)))
    /\ UNCHANGED <<opened, manager, waiting>>

\* cleanup(): views that are not finished start again.
CleanupCancels(w) == CancelRendering(w)   \* mutant: their state is not reset
CleanupResets(w) == IF w.view.state = "FINISHED" THEN w ELSE Reset(w, FALSE)

Cleanup ==
    /\ UserUpdates
    /\ PutAll(Shown, CleanupResets)
    /\ manager' = [manager EXCEPT !.updates = @ + 1]
    /\ UNCHANGED <<opened, waiting>>

-----------------------------------------------------------------------------
(* Timers and render tasks.                                                *)

ScaleTimeout ==
    /\ manager.timer
    /\ PutAll(Reached(OwnScale, FALSE), LAMBDA w : Update(w, w.view.scale, FALSE))
    /\ manager' = IF RefreshThrows(OwnScale, FALSE)
                  THEN [manager EXCEPT !.timer = FALSE, !.thrown = TRUE]
                  ELSE [manager EXCEPT !.timer = FALSE]
    /\ UNCHANGED <<opened, waiting>>

\* renderContinueCallback: the first time it is called the canvas is shown.
Continue(v) ==
    /\ view[v].task # None /\ view[v].hidden /\ task[v][view[v].task] = "pending"
    /\ view' = [view EXCEPT ![v].hidden = FALSE]
    /\ UNCHANGED <<opened, manager, task, waiting>>

\* The promise of a render task and #finishRenderTask, in one turn of the event loop.
FinishRenderTask(v, k, outcome) ==
    /\ task[v][k] = "pending"
    /\ task' = [task EXCEPT ![v][k] = outcome]
    /\ view' = [view EXCEPT ![v].task = IF @ = k THEN None ELSE @, ![v].error = (outcome = "failed"),
                            ![v].state = "FINISHED", ![v].hidden = IF view[v].canvas = k THEN FALSE ELSE @,
                            ![v].zoomLayer = None]
    /\ UNCHANGED <<opened, manager, waiting>>

Settles(v) == \E k \in Draws : \E outcome \in {"done", "failed"} : FinishRenderTask(v, k, outcome)

ViewsNext ==
    \/ \E d \in Docs : \/ Open(d) \/ Load(d) \/ LoadFails(d) \/ FirstPage(d) \/ FirstPageFails(d)
                       \/ \E eager \in BOOLEAN : FetchPages(d, eager)
    \/ \E v \in Views : \/ EagerPage(v) \/ EagerPageFails(v) \/ EnsurePage(v) \/ EnsurePageFails(v)
                        \/ RenderView(v) \/ Continue(v) \/ Settles(v)
    \/ \E scale \in Scales, postpone \in BOOLEAN : Zoom(scale, postpone)
    \/ Rotate \/ Cleanup \/ ScaleTimeout

\* Render tasks settle (PageRender!RendersSettle) and timers fire; what the user
\* does is not owed.
ViewsFairness == WF_viewVars(ScaleTimeout) /\ \A v \in Views : WF_viewVars(Settles(v))

ViewsSpec == ViewsInit /\ [][ViewsNext]_viewVars /\ ViewsFairness

-----------------------------------------------------------------------------
(* Properties.                                                             *)

ViewsTypeOK ==
    /\ \A d \in Docs : opened[d].state \in {"none", "opening", "open", "failed"}
    /\ manager.document \in {None} \cup Docs /\ manager.loaded \in {"none", "pending", "resolved", "rejected"}
    /\ \A v \in Views :
         /\ view[v].pdfPage \in {None} \cup Docs /\ view[v].scale \in Scales
         /\ view[v].cssFrom \in 1 .. MaxScale + 1
         /\ view[v].state \in {"INITIAL", "RUNNING", "FINISHED"}
         /\ {view[v].task, view[v].canvas, view[v].zoomLayer} \subseteq {None} \cup Draws
    /\ task \in [Views -> [Draws -> {"none", "pending", "done", "failed", "cancelled"}]]

Pending(v) == {k \in Draws : task[v][k] = "pending"}

\* A view has at most one render task that runs, the one it would cancel, and
\* a view of the shown document runs exactly as long as that task does: zooms,
\* clean-ups and late cancellations do not leave a task behind.
OneRenderPerView ==
    /\ ViewsTypeOK
    /\ \A v \in Views : Pending(v) \subseteq {view[v].task}
    /\ \A v \in Shown : view[v].state = "RUNNING" <=> Pending(v) # {}

\* A view that counts as finished shows its page, has reported an error (that it
\* has no page, too), or waits for the timer that will redraw it (update()), unless a
\* refresh of the views has thrown.
FinishedIsDrawn ==
    \A v \in Shown : view[v].state = "FINISHED" =>
        \/ manager.thrown
        \/ manager.timer \/ view[v].error \/ view[v].pdfPage = None
        \/ view[v].canvas # None /\ task[v][view[v].canvas] = "done" /\ ~view[v].hidden

\* The views shown are at the manager's scale.
ViewsAtScale == \A v \in Shown : view[v].scale = manager.scale

\* All views that are shown belong to the document that was set last, at its
\* scale, however late the first pages of earlier documents come and whatever is only
\* transformed, unless a refresh of the views has thrown.
ViewsOfOneDocument ==
    /\ manager.pages \in {None, manager.document}
    /\ manager.thrown \/ ViewsAtScale

\* A page that was reset, by a zoom for instance, is drawn again (the comment in update()).
ResetPagesAreDrawn ==
    \A v \in Views : (v \in Shown /\ view[v].state = "INITIAL" /\ view[v].draws > 0)
                       ~> (view[v].state # "INITIAL" \/ v \notin Shown)

\* The pages of a document are those that the viewer shows (FirstPage of an open document).
PagesOfOneDocument == \A v \in Shown : view[v].pdfPage \in {None, v[1]}
=============================================================================
