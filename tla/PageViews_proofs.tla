-------------------------- MODULE PageViews_proofs ---------------------------
(***************************************************************************)
(* Theorems about the views of DocumentUse: they are one document's, with  *)
(* one render task each, and a finished one shows its page.                *)
(***************************************************************************)
EXTENDS DocumentUse, FiniteSetTheorems, TLAPS

(***************************************************************************)
(* PageViews: the views of a viewer.                                       *)
(***************************************************************************)

TaskStates == {"none", "pending", "done", "failed", "cancelled"}

ViewRecords ==
    [pdfPage : {None} \cup Docs, state : {"INITIAL", "RUNNING", "FINISHED"},
     task : {None} \cup Draws, canvas : {None} \cup Draws, hidden : BOOLEAN,
     zoomLayer : {None} \cup Draws, scale : Scales, cssFrom : 1 .. MaxScale + 1,
     error : BOOLEAN, draws : {None} \cup Draws]

\* What holds of every view and its tasks, shown or not: the tasks are numbered as they
\* are made, the one that is pending is the one of the view, and it draws on its canvas.
ViewOK(w) ==
    /\ w = [view |-> w.view, task |-> w.task]
    /\ w.view \in ViewRecords /\ w.task \in [Draws -> TaskStates]
    /\ \A k \in Draws : w.task[k] # "none" <=> k <= w.view.draws
    /\ \A k \in Draws : w.task[k] = "pending" <=> k = w.view.task
    /\ w.view.task # None => w.view.canvas = w.view.task /\ w.view.state = "RUNNING"

\* A canvas that shows its page.
IsDrawn(w) == w.view.canvas # None /\ w.task[w.view.canvas] = "done" /\ ~w.view.hidden

\* What holds of a view that is shown, at a scale, with the timer set or not, and when a
\* refresh has thrown or none has.
ShownOK(w, scale, redraw, thrown) ==
    /\ thrown \/ w.view.scale = scale
    /\ w.view.state = "RUNNING" => w.view.task # None
    /\ w.view.state = "FINISHED" => thrown \/ redraw \/ w.view.error \/ w.view.pdfPage = None \/ IsDrawn(w)

\* The views of the document have not been made.
IsNew(d) == opened[d].state \in {"none", "opening"} \/ Asks("first", <<d, 1>>) \in waiting

OpenedOK ==
    \E counts \in PageCounts :
        opened \in {f \in [Docs -> [state : {"none", "opening", "open", "failed"}, count : Nat]] :
                       \A d \in Docs : f[d].count = counts[d]}

ManagerOK ==
    /\ manager = [document |-> manager.document, pages |-> manager.pages, scale |-> manager.scale,
                  timer |-> manager.timer, arranged |-> manager.arranged, loaded |-> manager.loaded,
                  left |-> manager.left, updates |-> manager.updates, thrown |-> manager.thrown]
    /\ manager.document \in {None} \cup Docs /\ manager.pages \in {None, manager.document}
    /\ manager.scale \in Scales /\ manager.timer \in BOOLEAN /\ manager.thrown \in BOOLEAN
    /\ manager.loaded \in {"none", "pending", "resolved", "rejected"}

AllViewsOK ==
    /\ view \in [Views -> ViewRecords] /\ task \in [Views -> [Draws -> TaskStates]]
    /\ \A v \in Views : ViewOK(Of(v))

NewIsUntouched ==
    \A d \in Docs : IsNew(d) =>
        /\ manager.pages # d
        /\ \A v \in Views : v[1] = d => Asks("ensure", v) \notin waiting /\ view[v].draws = 0

FirstOfOpen ==
    \A d \in Docs : Asks("first", <<d, 1>>) \in waiting => opened[d].state = "open"

AllShownOK == \A v \in Shown : ShownOK(Of(v), manager.scale, manager.timer, manager.thrown)

ViewsInv == OpenedOK /\ ManagerOK /\ AllViewsOK /\ NewIsUntouched /\ FirstOfOpen /\ AllShownOK

-----------------------------------------------------------------------------
(* The operations of one view.                                             *)

\* What a view keeps when its drawing is cancelled.
KeepsView(r, w) ==
    /\ r.view.pdfPage = w.view.pdfPage /\ r.view.scale = w.view.scale
    /\ r.view.draws = w.view.draws

\* cancelRendering() leaves no task that is pending.
LEMMA CancelLemma ==
    ASSUME NEW w, ViewOK(w), NEW r, r = CancelRendering(w)
    PROVE  /\ ViewOK(r) /\ KeepsView(r, w) /\ r.view.task = None
           /\ r.view.state = w.view.state /\ r.view.canvas = w.view.canvas
           /\ r.view.zoomLayer = w.view.zoomLayer /\ r.view.hidden = w.view.hidden
           /\ w.view.task = None => r = w
<1> DEFINE v == w.view
           t == w.task
           k == w.view.task
<1>0. w = [view |-> v, task |-> t] /\ v \in ViewRecords /\ t \in [Draws -> TaskStates]
  BY DEF ViewOK
<1>1. CASE k = None
  <2>1. r = [w EXCEPT !.view.task = None]
    BY <1>1 DEF CancelRendering
  <2>2. r = w
    BY <2>1, <1>0, <1>1 DEF ViewRecords
  <2> QED BY <2>2, <1>1 DEF KeepsView
<1>2. CASE k # None
  <2>1. k \in Draws /\ t[k] = "pending"
    BY <1>2, <1>0 DEF ViewOK, ViewRecords, Draws, None
  <2>2. r = [w EXCEPT !.view.task = None, !.view.error = FALSE, !.task[k] = "cancelled"]
    BY <2>1, <1>2 DEF CancelRendering
  <2>3. r = [view |-> [v EXCEPT !.task = None, !.error = FALSE], task |-> [t EXCEPT ![k] = "cancelled"]]
    BY <2>2, <1>0
  <2>4. r.view = [v EXCEPT !.task = None, !.error = FALSE] /\ r.task = [t EXCEPT ![k] = "cancelled"]
    BY <2>3
  <2>51. r.task \in [Draws -> TaskStates]
    BY <2>4, <1>0 DEF TaskStates
  <2>52. /\ r.view = [pdfPage |-> v.pdfPage, state |-> v.state, task |-> None, canvas |-> v.canvas,
                      hidden |-> v.hidden, zoomLayer |-> v.zoomLayer, scale |-> v.scale,
                      cssFrom |-> v.cssFrom, error |-> FALSE, draws |-> v.draws]
    BY <2>4, <1>0 DEF ViewRecords
  <2>53. r.view \in ViewRecords
    BY <2>52, <1>0 DEF ViewRecords
  <2>5. r.view \in ViewRecords /\ r.task \in [Draws -> TaskStates]
    BY <2>51, <2>53
  <2>8. r.view.task = None
    BY <2>52
  <2>6. \A l \in Draws : r.task[l] # "none" <=> l <= r.view.draws
    BY <2>4, <1>0, <2>1 DEF ViewOK, ViewRecords
  <2>7. \A l \in Draws : r.task[l] = "pending" <=> l = r.view.task
    <3> TAKE l \in Draws
    <3>1. l # None
      BY DEF Draws, None
    <3>2. t[l] = "pending" <=> l = k
      BY DEF ViewOK
    <3>3. r.task[l] = IF l = k THEN "cancelled" ELSE t[l]
      BY <2>4, <1>0, <2>1
    <3> QED BY <3>1, <3>2, <3>3, <2>8
  <2>9. ViewOK(r)
    BY <2>3, <2>5, <2>6, <2>7, <2>8 DEF ViewOK
  <2>10. KeepsView(r, w)
    BY <2>4, <1>0 DEF KeepsView, ViewRecords
  <2>11. r.view.state = v.state /\ r.view.canvas = v.canvas /\ r.view.zoomLayer = v.zoomLayer /\ r.view.hidden = v.hidden
    BY <2>4, <1>0 DEF ViewRecords
  <2> QED BY <2>8, <2>9, <2>10, <2>11, <1>2
<1> QED BY <1>1, <1>2

\* reset() leaves a view that is new.
LEMMA ResetLemma ==
    ASSUME NEW w, ViewOK(w), NEW keep \in BOOLEAN, NEW r, r = Reset(w, keep)
    PROVE  ViewOK(r) /\ KeepsView(r, w) /\ r.view.task = None /\ r.view.state = "INITIAL"
<1> DEFINE c == CancelRendering(w)
           canvas == IF keep /\ w.view.zoomLayer # None THEN c.view.canvas ELSE None
           layer  == IF keep THEN c.view.zoomLayer ELSE None
<1>1. ViewOK(c) /\ KeepsView(c, w) /\ c.view.task = None
  BY CancelLemma
<1>2. c = [view |-> c.view, task |-> c.task] /\ c.view \in ViewRecords /\ c.task \in [Draws -> TaskStates]
  BY <1>1 DEF ViewOK
<1>3. r = [c EXCEPT !.view.state = "INITIAL", !.view.canvas = canvas, !.view.zoomLayer = layer]
  BY DEF Reset
<1>4. canvas \in {None} \cup Draws /\ layer \in {None} \cup Draws
  BY <1>2 DEF ViewRecords
<1>. HIDE DEF c, canvas, layer
<1>5. r = [view |-> [c.view EXCEPT !.state = "INITIAL", !.canvas = canvas, !.zoomLayer = layer], task |-> c.task]
  BY <1>2, <1>3
<1>6. /\ r.view = [c.view EXCEPT !.state = "INITIAL", !.canvas = canvas, !.zoomLayer = layer]
      /\ r.task = c.task
  BY <1>5
<1>7. /\ r.view \in ViewRecords /\ r.view.draws = c.view.draws /\ r.view.task = c.view.task
      /\ r.view.state = "INITIAL" /\ r.view.pdfPage = c.view.pdfPage /\ r.view.scale = c.view.scale
  BY <1>6, <1>2, <1>4 DEF ViewRecords
<1>8. ViewOK(r)
  BY <1>1, <1>5, <1>6, <1>7 DEF ViewOK
<1> QED BY <1>1, <1>7, <1>8 DEF KeepsView

\* A view whose page or scale, or whose zoom layer, is set.
SetTo(w, p, s, z) == [w EXCEPT !.view.pdfPage = p, !.view.scale = s, !.view.zoomLayer = z]

LEMMA SetLemma ==
    ASSUME NEW w, ViewOK(w), NEW p \in {None} \cup Docs, NEW s \in Scales, NEW z \in {None} \cup Draws,
           NEW r, r = SetTo(w, p, s, z)
    PROVE  /\ ViewOK(r) /\ r.view.pdfPage = p /\ r.view.scale = s /\ r.view.zoomLayer = z
           /\ r.view.draws = w.view.draws /\ r.view.task = w.view.task /\ r.view.state = w.view.state
           /\ r.view.canvas = w.view.canvas /\ r.view.hidden = w.view.hidden /\ r.view.error = w.view.error
           /\ r.task = w.task
<1>1. w = [view |-> w.view, task |-> w.task] /\ w.view \in ViewRecords /\ w.task \in [Draws -> TaskStates]
  BY DEF ViewOK
<1>2. r = [view |-> [w.view EXCEPT !.pdfPage = p, !.scale = s, !.zoomLayer = z], task |-> w.task]
  BY <1>1 DEF SetTo
<1>3. r.view = [w.view EXCEPT !.pdfPage = p, !.scale = s, !.zoomLayer = z] /\ r.task = w.task
  BY <1>2
<1>4. /\ r.view \in ViewRecords /\ r.view.pdfPage = p /\ r.view.scale = s /\ r.view.zoomLayer = z
      /\ r.view.draws = w.view.draws /\ r.view.task = w.view.task /\ r.view.state = w.view.state
      /\ r.view.canvas = w.view.canvas /\ r.view.hidden = w.view.hidden /\ r.view.error = w.view.error
  BY <1>3, <1>1 DEF ViewRecords
<1>5. r = [view |-> r.view, task |-> r.task]
  BY <1>2, <1>3
<1>6. /\ \A k \in Draws : r.task[k] # "none" <=> k <= r.view.draws
      /\ \A k \in Draws : r.task[k] = "pending" <=> k = r.view.task
      /\ r.view.task # None => r.view.canvas = r.view.task /\ r.view.state = "RUNNING"
  BY <1>3, <1>4 DEF ViewOK
<1>7. ViewOK(r)
  BY <1>1, <1>3, <1>4, <1>5, <1>6 DEF ViewOK
<1> QED BY <1>3, <1>4, <1>7

\* setPdfPage()
LEMMA SetPdfPageLemma ==
    ASSUME NEW w, ViewOK(w), NEW d \in Docs, NEW r, r = SetPdfPage(w, d)
    PROVE  /\ ViewOK(r) /\ r.view.pdfPage = d /\ r.view.scale = w.view.scale
           /\ r.view.draws = w.view.draws /\ r.view.task = None /\ r.view.state = "INITIAL"
<1> DEFINE q == [w EXCEPT !.view.pdfPage = d]
<1>1. w = [view |-> w.view, task |-> w.task] /\ w.view \in ViewRecords
  BY DEF ViewOK
<1>2. q = SetTo(w, d, w.view.scale, w.view.zoomLayer)
  BY <1>1 DEF ViewRecords, SetTo
<1>3. w.view.scale \in Scales /\ w.view.zoomLayer \in {None} \cup Draws
  BY <1>1 DEF ViewRecords
<1>5. r = Reset(q, FALSE)
  BY DEF SetPdfPage
<1> HIDE DEF q
<1>6. d \in {None} \cup Docs
  OBVIOUS
<1>4. ViewOK(q) /\ q.view.pdfPage = d /\ q.view.scale = w.view.scale /\ q.view.draws = w.view.draws
  BY <1>2, <1>3, <1>6, SetLemma
<1> QED BY <1>4, <1>5, ResetLemma DEF KeepsView

\* draw() makes the next task, the one that is pending, unless there is no page.
LEMMA DrawLemma ==
    ASSUME NEW w, ViewOK(w), w.view.draws + 1 \in Draws, NEW r, r = Draw(w)
    PROVE  /\ ViewOK(r) /\ r.view.scale = w.view.scale /\ r.view.pdfPage = w.view.pdfPage
           /\ r.view.state = "RUNNING" => r.view.task # None
           /\ r.view.state = "FINISHED" => r.view.pdfPage = None
<1> DEFINE e == IF w.view.state = "INITIAL" THEN w ELSE Reset(w, FALSE)
           v == e.view
           k == v.draws + 1
           css == CssFrom(v.scale)
<1>0. w.view \in ViewRecords
  BY DEF ViewOK
<1>1. ViewOK(e) /\ KeepsView(e, w) /\ v.task = None /\ v.state = "INITIAL"
  <2>1. CASE w.view.state = "INITIAL"
    <3>1. w.view.task = None
      BY <2>1 DEF ViewOK
    <3> QED BY <2>1, <3>1 DEF KeepsView
  <2>2. CASE w.view.state # "INITIAL"
    <3>1. e = Reset(w, FALSE)
      BY <2>2
    <3> HIDE DEF e
    <3> QED BY <3>1, ResetLemma
  <2> QED BY <2>1, <2>2
<1>2. e = [view |-> v, task |-> e.task] /\ v \in ViewRecords /\ e.task \in [Draws -> TaskStates]
  BY <1>1 DEF ViewOK
<1>3. /\ v.pdfPage = None => r = [e EXCEPT !.view.state = "FINISHED"]
      /\ v.pdfPage # None =>
           r = [view |-> [v EXCEPT !.state = "RUNNING", !.task = k, !.canvas = k, !.hidden = TRUE,
                                 !.cssFrom = css, !.draws = k],
                task |-> [e.task EXCEPT ![k] = "pending"]]
  BY DEF Draw
<1>4. k \in Draws /\ v.scale = w.view.scale /\ v.pdfPage = w.view.pdfPage
  BY <1>1 DEF KeepsView
<1>5. \A l \in Draws : (e.task[l] # "none" <=> l <= v.draws) /\ e.task[l] # "pending"
  <2> TAKE l \in Draws
  <2>1. l # None
    BY DEF Draws, None
  <2> QED BY <2>1, <1>1 DEF ViewOK
<1> HIDE DEF e
<1>6. CASE v.pdfPage = None
  <2>1. r = [view |-> [v EXCEPT !.state = "FINISHED"], task |-> e.task]
    BY <1>2, <1>3, <1>6
  <2>2. r.view = [v EXCEPT !.state = "FINISHED"] /\ r.task = e.task
    BY <2>1
  <2>3. /\ r.view \in ViewRecords /\ r.view.task = None /\ r.view.draws = v.draws
        /\ r.view.state = "FINISHED" /\ r.view.pdfPage = v.pdfPage /\ r.view.scale = v.scale
    BY <2>2, <1>1, <1>2 DEF ViewRecords
  <2>4. ViewOK(r)
    BY <2>1, <2>2, <2>3, <1>1, <1>2 DEF ViewOK
  <2> QED BY <2>3, <2>4, <1>4, <1>6
<1>7. CASE v.pdfPage # None
  <2>1. r = [view |-> [v EXCEPT !.state = "RUNNING", !.task = k, !.canvas = k, !.hidden = TRUE,
                                 !.cssFrom = css, !.draws = k],
             task |-> [e.task EXCEPT ![k] = "pending"]]
    BY <1>3, <1>7
  <2> HIDE DEF k, css
  <2>2. /\ r.view = [v EXCEPT !.state = "RUNNING", !.task = k, !.canvas = k, !.hidden = TRUE,
                                 !.cssFrom = css, !.draws = k]
        /\ r.task = [e.task EXCEPT ![k] = "pending"]
    BY <2>1
  <2>3. r.view = [pdfPage |-> v.pdfPage, state |-> "RUNNING", task |-> k, canvas |-> k, hidden |-> TRUE,
                  zoomLayer |-> v.zoomLayer, scale |-> v.scale, cssFrom |-> css, error |-> v.error,
                  draws |-> k]
    BY <2>2, <1>2 DEF ViewRecords
  <2>4. r.view \in ViewRecords
    <3>1. css \in 1 .. MaxScale + 1
      <4>1. v.scale \in 1 .. MaxScale
        BY <1>2 DEF ViewRecords, Scales
      <4> QED BY <4>1, PageViewsAssumption DEF css, CssFrom
    <3> HIDE DEF css
    <3> QED BY <2>3, <1>2, <1>4, <3>1 DEF ViewRecords
  <2>5. r.task \in [Draws -> TaskStates]
    BY <2>2, <1>2 DEF TaskStates
  <2>6. \A l \in Draws : r.task[l] = IF l = k THEN "pending" ELSE e.task[l]
    BY <2>2, <1>2
  <2>7. r.view.task = k /\ r.view.canvas = k /\ r.view.draws = k /\ r.view.state = "RUNNING" /\ k # None
    BY <2>3, <1>4 DEF Draws, None
  <2>8. \A l \in Draws : l <= k <=> (l = k \/ l <= v.draws)
    <3>1. v.draws \in Nat
      BY <1>2 DEF ViewRecords, Draws, None
    <3> QED BY <3>1 DEF Draws, k
  <2>9. \A l \in Draws : r.task[l] # "none" <=> l <= r.view.draws
    BY <2>6, <2>7, <2>8, <1>5
  <2>10. \A l \in Draws : r.task[l] = "pending" <=> l = r.view.task
    BY <2>6, <2>7, <1>5
  <2>11. r = [view |-> r.view, task |-> r.task]
    BY <2>1, <2>2
  <2>12. ViewOK(r)
    BY <2>4, <2>5, <2>7, <2>9, <2>10, <2>11 DEF ViewOK
  <2>13. r.view.scale = v.scale /\ r.view.pdfPage = v.pdfPage
    BY <2>3
  <2> QED BY <2>7, <2>12, <2>13, <1>4
<1> QED BY <1>6, <1>7

\* update() sets the scale and leaves a task that runs only to a view that is running.  Unless
\* it throws, the view counts as finished only when its drawing was put off.
LEMMA UpdateLemma ==
    ASSUME NEW w, ViewOK(w), w.view.state = "RUNNING" => w.view.task # None,
           NEW scale \in Scales, NEW postpone \in BOOLEAN,
           NEW r, r = Update(w, scale, postpone)
    PROVE  /\ ViewOK(r) /\ r.view.draws = w.view.draws
           /\ r.view.state = "RUNNING" => r.view.task # None
           /\ ~Throws(w, scale, postpone) => ShownOK(r, scale, postpone, FALSE)
<1> DEFINE scaled == [w EXCEPT !.view.scale = scale]
           drawn  == w.view.canvas # None
           css    == CssOnly(w, scale)
           kept   == drawn /\ (postpone \/ css)
           layer  == IF drawn /\ w.view.zoomLayer = None /\ ~w.view.hidden THEN w.view.canvas ELSE w.view.zoomLayer
           layered == [scaled EXCEPT !.view.zoomLayer = layer]
<1>0. w = [view |-> w.view, task |-> w.task] /\ w.view \in ViewRecords
  BY DEF ViewOK
<1>1. /\ kept /\ (w.view.state = "FINISHED" \/ css) => r = scaled
      /\ kept /\ ~(w.view.state = "FINISHED" \/ css) =>
           r = [CancelRendering(scaled) EXCEPT !.view.state = "FINISHED"]
      /\ ~kept => r = Reset(layered, TRUE)
  BY <1>0 DEF Update
<1>2. /\ w.view.pdfPage \in {None} \cup Docs /\ w.view.zoomLayer \in {None} \cup Draws
      /\ layer \in {None} \cup Draws
  BY <1>0 DEF ViewRecords
<1>3. scaled = SetTo(w, w.view.pdfPage, scale, w.view.zoomLayer)
  BY <1>0 DEF ViewRecords, SetTo
<1>4. layered = SetTo(w, w.view.pdfPage, scale, layer)
  BY <1>0 DEF ViewRecords, SetTo
<1>10. css /\ ~postpone => Throws(w, scale, postpone)
  BY DEF Throws
<1> HIDE DEF scaled, layer, layered, css
<1>5. /\ ViewOK(scaled) /\ scaled.view.scale = scale /\ scaled.view.draws = w.view.draws
      /\ scaled.view.state = w.view.state /\ scaled.view.task = w.view.task
  BY <1>2, <1>3, SetLemma
<1>6. ViewOK(layered) /\ layered.view.scale = scale /\ layered.view.draws = w.view.draws
  <2>1. w.view.pdfPage \in {None} \cup Docs /\ layer \in {None} \cup Draws
    BY <1>2
  <2>2. ViewOK(layered)
    BY <1>4, <2>1, SetLemma
  <2>3. layered.view.scale = scale
    BY <1>0, <1>4 DEF SetTo, ViewRecords
  <2>4. layered.view.draws = w.view.draws
    BY <1>0, <1>4 DEF SetTo, ViewRecords
  <2> QED BY <2>2, <2>3, <2>4
<1>7. CASE kept /\ (w.view.state = "FINISHED" \/ css)
  <2>1. r = scaled
    BY <1>1, <1>7
  <2>2. ~Throws(w, scale, postpone) => postpone
    BY <1>7, <1>10
  <2> QED BY <2>1, <2>2, <1>5 DEF ShownOK
<1>8. CASE kept /\ ~(w.view.state = "FINISHED" \/ css)
  <2> DEFINE c == CancelRendering(scaled)
  <2>1. ViewOK(c) /\ KeepsView(c, scaled) /\ c.view.task = None
    BY <1>5, CancelLemma
  <2>2. c = [view |-> c.view, task |-> c.task] /\ c.view \in ViewRecords
    BY <2>1 DEF ViewOK
  <2>3. r = [c EXCEPT !.view.state = "FINISHED"]
    BY <1>1, <1>8
  <2> HIDE DEF c
  <2>4. r = [view |-> [c.view EXCEPT !.state = "FINISHED"], task |-> c.task]
    BY <2>2, <2>3
  <2>5. r.view = [c.view EXCEPT !.state = "FINISHED"] /\ r.task = c.task
    BY <2>4
  <2>6. /\ r.view \in ViewRecords /\ r.view.task = None /\ r.view.draws = c.view.draws
        /\ r.view.state = "FINISHED" /\ r.view.scale = c.view.scale
    BY <2>5, <2>1, <2>2 DEF ViewRecords
  <2>7. ViewOK(r)
    BY <2>4, <2>5, <2>6, <2>1, <2>2 DEF ViewOK
  <2> QED BY <2>1, <2>6, <2>7, <1>5, <1>8 DEF ShownOK, KeepsView
<1>9. CASE ~kept
  <2>1. r = Reset(layered, TRUE)
    BY <1>1, <1>9
  <2>2. ViewOK(r) /\ KeepsView(r, layered) /\ r.view.task = None /\ r.view.state = "INITIAL"
    BY <2>1, <1>6, ResetLemma
  <2> QED BY <2>2, <1>6 DEF ShownOK, KeepsView
<1> QED BY <1>7, <1>8, <1>9

-----------------------------------------------------------------------------
(* The bound on render tasks.                                              *)

\* There are finitely many views.
LEMMA ViewsFinite == IsFiniteSet(Views)
<1> DEFINE f == [a \in Docs \X PageCounts |-> {a[1]} \X (1 .. a[2][a[1]])]
           R == {f[a] : a \in Docs \X PageCounts}
<1>1. IsFiniteSet(Docs) /\ IsFiniteSet(PageCounts)
  <2>1. 1 \in Int /\ NumDocs \in Int /\ IsFiniteSet(PageCounts)
    BY PageViewsAssumption
  <2>2. IsFiniteSet(1 .. NumDocs)
    BY <2>1, FS_Interval, ZenonT(30)
  <2> QED BY <2>1, <2>2 DEF Docs
<1>2. IsFiniteSet(Docs \X PageCounts)
  BY <1>1, FS_Product
<1>3. IsFiniteSet(R)
  <2>1. f \in Surjection(Docs \X PageCounts, R)
    BY Zenon DEF Surjection
  <2> QED BY <1>2, <2>1, FS_Surjection
<1>4. \A a \in Docs \X PageCounts : IsFiniteSet(f[a])
  <2> TAKE a \in Docs \X PageCounts
  <2>1. a[1] \in Docs /\ a[2] \in PageCounts
    OBVIOUS
  <2>2. a[2][a[1]] \in Nat
    BY <2>1, PageViewsAssumption DEF Docs
  <2>3. IsFiniteSet(1 .. a[2][a[1]])
    BY <2>2, FS_Interval
  <2>4. IsFiniteSet({a[1]})
    BY FS_Singleton
  <2>5. IsFiniteSet({a[1]} \X (1 .. a[2][a[1]]))
    BY <2>3, <2>4, FS_Product
  <2> QED BY <2>5
<1>5. \A r \in R : IsFiniteSet(r)
  BY <1>4
<1>6. IsFiniteSet(UNION R)
  <2> HIDE DEF R
  <2> QED BY <1>3, <1>5, FS_UNION
<1>7. Views = UNION R
  <2>1. \A d \in Docs, counts \in PageCounts : f[<<d, counts>>] = {d} \X (1 .. counts[d])
    OBVIOUS
  <2>2. ASSUME NEW v \in Views PROVE v \in UNION R
    <3>1. PICK T \in {{d} \X (1 .. counts[d]) : d \in Docs, counts \in PageCounts} : v \in T
      BY DEF Views
    <3>2. PICK d \in Docs, counts \in PageCounts : T = {d} \X (1 .. counts[d])
      BY <3>1
    <3>3. v \in f[<<d, counts>>] /\ <<d, counts>> \in Docs \X PageCounts
      BY <2>1, <3>1, <3>2
    <3>4. f[<<d, counts>>] \in R
      BY <3>3
    <3> HIDE DEF f, R
    <3> QED BY <3>3, <3>4
  <2>3. ASSUME NEW v \in UNION R PROVE v \in Views
    <3>1. PICK a \in Docs \X PageCounts : v \in f[a]
      OBVIOUS
    <3> DEFINE T == {a[1]} \X (1 .. a[2][a[1]])
               W == {{d} \X (1 .. counts[d]) : d \in Docs, counts \in PageCounts}
    <3>2. v \in T /\ a[1] \in Docs /\ a[2] \in PageCounts
      BY <3>1
    <3>3. T \in W
      BY <3>2
    <3> HIDE DEF T, W, f, R
    <3>4. v \in UNION W
      BY <3>2, <3>3
    <3> QED BY <3>4 DEF Views, W
  <2> QED BY <2>2, <2>3
<1> QED BY <1>6, <1>7

\* While fewer render tasks than the bound have been made, the next one of any view has a number.
LEMMA DrawnLemma ==
    ASSUME AllViewsOK, Drawn < MaxDraws, NEW v \in Views
    PROVE  view[v].draws + 1 \in Draws
<1> DEFINE n == view[v].draws
           S == {vk \in Views \X Draws : task[vk[1]][vk[2]] # "none"}
           f == [k \in 1 .. n |-> <<v, k>>]
<1>1. MaxDraws \in Nat
  BY PageViewsAssumption
<1>2. /\ view[v] \in ViewRecords
      /\ \A k \in Draws : task[v][k] # "none" <=> k <= n
  BY DEF AllViewsOK, ViewOK, Of
<1>3. n \in 0 .. MaxDraws
  BY <1>1, <1>2 DEF ViewRecords, None, Draws
<1>4. IsFiniteSet(S)
  <2>1. IsFiniteSet(Draws)
    BY <1>1, FS_Interval DEF Draws
  <2>2. IsFiniteSet(Views \X Draws)
    BY <2>1, ViewsFinite, FS_Product
  <2> QED BY <2>2, FS_Subset
<1> HIDE DEF n
<1>5. f \in Injection(1 .. n, S)
  <2>1. \A k \in 1 .. n : k \in Draws /\ k <= n
    BY <1>1, <1>3 DEF Draws
  <2>2. \A k \in 1 .. n : f[k] \in S
    BY <1>2, <2>1
  <2>3. f \in [1 .. n -> S]
    BY <2>2
  <2>4. \A a, b \in 1 .. n : f[a] = f[b] => a = b
    OBVIOUS
  <2> HIDE DEF f, S
  <2> QED BY <2>3, <2>4, Zenon DEF Injection, IsInjective
<1>6. Cardinality(1 .. n) <= Cardinality(S)
  BY <1>4, <1>5, FS_Injection
<1>7. Cardinality(1 .. n) = n
  BY <1>3, FS_Interval
<1>8. Cardinality(S) \in Nat /\ Cardinality(S) < MaxDraws
  BY <1>4, FS_CardinalityType DEF Drawn
<1> QED BY <1>1, <1>3, <1>6, <1>7, <1>8 DEF Draws, n

-----------------------------------------------------------------------------
(* Kinds of steps.                                                         *)

\* The pages of a document are views.
LEMMA PagesAreViews ==
    ASSUME OpenedOK
    PROVE  \A d \in Docs : PagesOf(d) = {<<d, n>> : n \in 1 .. opened[d].count} /\ PagesOf(d) \subseteq Views
                              /\ opened[d].count \in Nat \ {0} /\ <<d, 1>> \in PagesOf(d)
<1> TAKE d \in Docs
<1>1. PICK counts \in PageCounts : \A e \in Docs : opened[e].count = counts[e]
  BY DEF OpenedOK
<1>2. counts[d] \in Nat \ {0} /\ opened[d].count = counts[d]
  BY <1>1, PageViewsAssumption DEF Docs
<1>3. PagesOf(d) = {<<d, n>> : n \in 1 .. opened[d].count}
  BY DEF PagesOf
<1>4. ASSUME NEW v \in PagesOf(d) PROVE v \in Views
  <2> DEFINE T == {d} \X (1 .. counts[d])
             W == {{e} \X (1 .. cs[e]) : e \in Docs, cs \in PageCounts}
  <2>1. v \in T
    BY <1>2, <1>3
  <2>2. T \in W
    OBVIOUS
  <2> HIDE DEF T, W
  <2>3. v \in UNION W
    BY <2>1, <2>2
  <2> QED BY <2>3 DEF Views, W
<1>5. <<d, 1>> \in PagesOf(d)
  BY <1>2, <1>3
<1> QED BY <1>2, <1>3, <1>4, <1>5

LEMMA ShownAreViews ==
    ASSUME OpenedOK, ManagerOK
    PROVE  /\ Shown \subseteq Views
           /\ \A v \in Shown : manager.pages \in Docs /\ v[1] = manager.pages
<1>1. CASE manager.pages = None
  BY <1>1 DEF Shown
<1>2. CASE manager.pages # None
  <2>1. manager.pages \in Docs
    BY <1>2 DEF ManagerOK
  <2>2. Shown = PagesOf(manager.pages)
    BY <1>2 DEF Shown
  <2>3. \A v \in PagesOf(manager.pages) : v[1] = manager.pages
    BY DEF PagesOf
  <2> QED BY <2>1, <2>2, <2>3, PagesAreViews
<1> QED BY <1>1, <1>2

\* A step that leaves the documents, and what is shown of them, as they are.
LEMMA SameShown ==
    ASSUME UNCHANGED opened, manager'.pages = manager.pages
    PROVE  Shown' = Shown /\ \A d : PagesOf(d)' = PagesOf(d)
BY DEF Shown, PagesOf

\* Nothing that is asked for makes a document new, or its views drawn.
AsksNoMore ==
    \A v \in Views : \A who \in {"first", "ensure"} : Asks(who, v) \in waiting' => Asks(who, v) \in waiting

\* A step that changes views, and tells nothing new of the documents.
LEMMA ViewsStepLemma ==
    ASSUME ViewsInv, UNCHANGED opened, ManagerOK', manager'.pages = manager.pages, AsksNoMore,
           NEW q, \A v \in Views : ViewOK(q[v]),
           view' = [v \in Views |-> q[v].view], task' = [v \in Views |-> q[v].task],
           \A v \in Views : q[v].view.draws = view[v].draws \/ ~IsNew(v[1]),
           \A v \in Shown : ShownOK(q[v], manager'.scale, manager'.timer, manager'.thrown)
    PROVE  ViewsInv'
<1>1. OpenedOK'
  BY DEF ViewsInv, OpenedOK
<1>2. \A v \in Views : Of(v)' = q[v]
  BY DEF Of, ViewOK
<1>3. AllViewsOK'
  <2>1. \A v \in Views : q[v].view \in ViewRecords /\ q[v].task \in [Draws -> TaskStates]
    BY DEF ViewOK
  <2>2. view' \in [Views -> ViewRecords] /\ task' \in [Views -> [Draws -> TaskStates]]
    BY <2>1
  <2>3. \A v \in Views : ViewOK(Of(v)')
    BY <1>2
  <2>4. \A v \in Views : ViewOK(Of(v))'
    BY <2>3 DEF ViewOK
  <2> QED BY <2>2, <2>4 DEF AllViewsOK
<1>4. \A d \in Docs : IsNew(d)' => IsNew(d)
  <2> TAKE d \in Docs
  <2>1. <<d, 1>> \in Views
    BY PagesAreViews DEF ViewsInv
  <2> QED BY <2>1 DEF IsNew, AsksNoMore, Asks
<1>5. NewIsUntouched'
  <2> SUFFICES ASSUME NEW d \in Docs, IsNew(d)'
               PROVE  /\ manager'.pages # d
                      /\ \A v \in Views : v[1] = d => Asks("ensure", v) \notin waiting' /\ view'[v].draws = 0
    BY DEF NewIsUntouched, Asks
  <2>1. IsNew(d)
    BY <1>4
  <2>2. /\ manager.pages # d
        /\ \A v \in Views : v[1] = d => Asks("ensure", v) \notin waiting /\ view[v].draws = 0
    BY <2>1 DEF ViewsInv, NewIsUntouched
  <2>3. \A v \in Views : view'[v] = q[v].view
    OBVIOUS
  <2> QED BY <2>1, <2>2, <2>3 DEF AsksNoMore
<1>7. FirstOfOpen'
  <2> SUFFICES ASSUME NEW d \in Docs, Asks("first", <<d, 1>>) \in waiting' PROVE opened'[d].state = "open"
    BY DEF FirstOfOpen, Asks
  <2>1. <<d, 1>> \in Views
    BY PagesAreViews DEF ViewsInv
  <2> QED BY <2>1 DEF AsksNoMore, ViewsInv, FirstOfOpen
<1>6. AllShownOK'
  <2>1. Shown' = Shown /\ Shown \subseteq Views
    BY SameShown, ShownAreViews DEF ViewsInv
  <2>2. \A v \in Shown : ShownOK(Of(v)', manager'.scale, manager'.timer, manager'.thrown)
    BY <1>2, <2>1
  <2> QED BY <2>1, <2>2 DEF AllShownOK, ShownOK, IsDrawn
<1> QED BY <1>1, <1>3, <1>5, <1>6, <1>7 DEF ViewsInv

\* A step of one view.
LEMMA OneViewStep ==
    ASSUME ViewsInv, UNCHANGED opened, ManagerOK', manager'.pages = manager.pages,
           manager'.scale = manager.scale, manager'.timer = manager.timer,
           manager'.thrown = manager.thrown, AsksNoMore,
           NEW v \in Views, NEW w, Put(v, w), ViewOK(w),
           w.view.draws = view[v].draws \/ ~IsNew(v[1]),
           v \in Shown => ShownOK(w, manager.scale, manager.timer, manager.thrown)
    PROVE  ViewsInv'
<1> DEFINE q == [u \in Views |-> IF u = v THEN w ELSE Of(u)]
<1>1. view' = [view EXCEPT ![v] = w.view] /\ task' = [task EXCEPT ![v] = w.task]
  BY DEF Put
<1>2. view \in [Views -> ViewRecords] /\ task \in [Views -> [Draws -> TaskStates]] /\ \A u \in Views : ViewOK(Of(u))
  BY DEF ViewsInv, AllViewsOK
<1>3. view' = [u \in Views |-> q[u].view] /\ task' = [u \in Views |-> q[u].task]
  BY <1>1, <1>2 DEF Of
<1>4. \A u \in Views : ViewOK(q[u])
  BY <1>2
<1>5. \A u \in Views : q[u].view.draws = view[u].draws \/ ~IsNew(u[1])
  BY DEF Of
<1>6. \A u \in Shown : u \in Views /\ ShownOK(Of(u), manager.scale, manager.timer, manager.thrown)
  BY ShownAreViews DEF ViewsInv, AllShownOK
<1>7. \A u \in Shown : ShownOK(q[u], manager'.scale, manager'.timer, manager'.thrown)
  BY <1>6
<1> HIDE DEF q
<1> QED BY <1>3, <1>4, <1>5, <1>7, ViewsStepLemma

\* A step that changes no view.
LEMMA NoViewStep ==
    ASSUME ViewsInv, UNCHANGED <<opened, view, task>>, ManagerOK', manager'.pages = manager.pages,
           manager'.scale = manager.scale, manager'.timer = manager.timer,
           manager'.thrown = manager.thrown, AsksNoMore
    PROVE  ViewsInv'
<1> DEFINE q == [u \in Views |-> Of(u)]
<1>2. view \in [Views -> ViewRecords] /\ task \in [Views -> [Draws -> TaskStates]] /\ \A u \in Views : ViewOK(Of(u))
  BY DEF ViewsInv, AllViewsOK
<1>3. view' = [u \in Views |-> q[u].view] /\ task' = [u \in Views |-> q[u].task]
  BY <1>2 DEF Of
<1>4. \A u \in Views : ViewOK(q[u])
  BY <1>2
<1>5. \A u \in Views : q[u].view.draws = view[u].draws \/ ~IsNew(u[1])
  BY DEF Of
<1>6. \A u \in Shown : u \in Views /\ ShownOK(Of(u), manager.scale, manager.timer, manager.thrown)
  BY ShownAreViews DEF ViewsInv, AllShownOK
<1>7. \A u \in Shown : ShownOK(q[u], manager'.scale, manager'.timer, manager'.thrown)
  BY <1>6
<1> HIDE DEF q
<1> QED BY <1>3, <1>4, <1>5, <1>7, ViewsStepLemma

-----------------------------------------------------------------------------
(* Opening documents.                                                      *)

\* Steps that set the state of the document, and nothing else.
LEMMA OpenedStep ==
    ASSUME ViewsInv, NEW d \in Docs, opened[d].state \in {"none", "opening"},
           NEW s \in {"opening", "failed"}, opened' = [opened EXCEPT ![d].state = s],
           UNCHANGED <<manager, view, task, waiting>>
    PROVE  ViewsInv'
<1>1. PICK counts \in PageCounts :
        opened \in {f \in [Docs -> [state : {"none", "opening", "open", "failed"}, count : Nat]] :
                       \A e \in Docs : f[e].count = counts[e]}
  BY DEF ViewsInv, OpenedOK
<1>2. \A e \in Docs : opened'[e].count = opened[e].count /\ (e # d => opened'[e] = opened[e])
  BY <1>1
<1>3. OpenedOK'
  <2>1. opened' \in [Docs -> [state : {"none", "opening", "open", "failed"}, count : Nat]]
    BY <1>1
  <2>2. \A e \in Docs : opened'[e].count = counts[e]
    BY <1>1, <1>2
  <2> QED BY <2>1, <2>2 DEF OpenedOK
<1>4. ManagerOK'
  BY DEF ViewsInv, ManagerOK
<1>5. AllViewsOK'
  <2>1. \A v \in Views : ViewOK(Of(v)')
    BY DEF ViewsInv, AllViewsOK, Of
  <2>2. view' \in [Views -> ViewRecords] /\ task' \in [Views -> [Draws -> TaskStates]]
    BY DEF ViewsInv, AllViewsOK
  <2> QED BY <2>1, <2>2 DEF AllViewsOK, ViewOK
<1>6. NewIsUntouched'
  <2> SUFFICES ASSUME NEW e \in Docs, IsNew(e)'
               PROVE  /\ manager'.pages # e
                      /\ \A v \in Views : v[1] = e => Asks("ensure", v) \notin waiting' /\ view'[v].draws = 0
    BY DEF NewIsUntouched, Asks
  <2>1. IsNew(e)
    BY <1>2 DEF IsNew, Asks
  <2> QED BY <2>1 DEF ViewsInv, NewIsUntouched
<1>8. FirstOfOpen'
  <2> SUFFICES ASSUME NEW e \in Docs, Asks("first", <<e, 1>>) \in waiting PROVE opened'[e].state = "open"
    BY DEF FirstOfOpen, Asks
  <2>1. opened[e].state = "open" /\ e # d
    BY DEF ViewsInv, FirstOfOpen
  <2> QED BY <1>2, <2>1
<1>7. AllShownOK'
  <2>1. Shown' = Shown
    <3>1. CASE manager.pages = None
      BY <3>1 DEF Shown
    <3>2. CASE manager.pages # None
      BY <3>2, <1>2 DEF Shown, PagesOf, ViewsInv, ManagerOK
    <3> QED BY <3>1, <3>2
  <2>2. \A v \in Shown : Of(v)' = Of(v)
    BY DEF Of
  <2>3. \A v \in Shown : ShownOK(Of(v)', manager'.scale, manager'.timer, manager'.thrown)
    BY <2>2 DEF ViewsInv, AllShownOK
  <2> QED BY <2>1, <2>3 DEF AllShownOK, ShownOK, IsDrawn
<1> QED BY <1>3, <1>4, <1>5, <1>6, <1>7, <1>8 DEF ViewsInv

LEMMA OpenStep == ASSUME ViewsInv, NEW d \in Docs, Open(d) PROVE ViewsInv'
BY OpenedStep DEF Open

LEMMA LoadFailsStep == ASSUME ViewsInv, NEW d \in Docs, LoadFails(d) PROVE ViewsInv'
BY OpenedStep DEF LoadFails

\* The document that is loaded is still new; nothing of the old one is shown any more.
LEMMA LoadStep == ASSUME ViewsInv, NEW d \in Docs, Load(d) PROVE ViewsInv'
<1>0. /\ opened[d].state = "opening" /\ opened' = [opened EXCEPT ![d].state = "open"]
      /\ manager' = [manager EXCEPT !.document = d, !.pages = None, !.loaded = "pending", !.thrown = FALSE,
                                    !.scale = IF manager.document = None THEN @ ELSE 1]
      /\ waiting' = waiting \cup {Asks("first", <<d, 1>>)}
  BY DEF Load
<1>1. PICK counts \in PageCounts :
        opened \in {f \in [Docs -> [state : {"none", "opening", "open", "failed"}, count : Nat]] :
                       \A e \in Docs : f[e].count = counts[e]}
  BY DEF ViewsInv, OpenedOK
<1>2. \A e \in Docs : opened'[e].count = opened[e].count /\ (e # d => opened'[e] = opened[e])
  BY <1>0, <1>1
<1>3. OpenedOK'
  <2>1. opened' \in [Docs -> [state : {"none", "opening", "open", "failed"}, count : Nat]]
    BY <1>0, <1>1
  <2>2. \A e \in Docs : opened'[e].count = counts[e]
    BY <1>1, <1>2
  <2> QED BY <2>1, <2>2 DEF OpenedOK
<1>4. ManagerOK' /\ manager'.pages = None
  <2>1. 1 \in Scales
    BY PageViewsAssumption DEF Scales
  <2>2. (IF manager.document = None THEN manager.scale ELSE 1) \in Scales
    BY <2>1 DEF ViewsInv, ManagerOK
  <2>3. manager' = [document |-> d, pages |-> None,
                    scale |-> IF manager.document = None THEN manager.scale ELSE 1,
                    timer |-> manager.timer, arranged |-> manager.arranged, loaded |-> "pending",
                    left |-> manager.left, updates |-> manager.updates, thrown |-> FALSE]
    BY <1>0 DEF ViewsInv, ManagerOK
  <2> QED BY <2>2, <2>3 DEF ViewsInv, ManagerOK
<1>5. PICK q : /\ q = [v \in Views |-> IF v \in Shown THEN CancelRendering(Of(v)) ELSE Of(v)]
               /\ view' = [v \in Views |-> q[v].view] /\ task' = [v \in Views |-> q[v].task]
  BY DEF Load, PutAll
<1>6. \A v \in Views : ViewOK(q[v]) /\ q[v].view.draws = view[v].draws
  <2> TAKE v \in Views
  <2>1. ViewOK(Of(v))
    BY DEF ViewsInv, AllViewsOK
  <2>2. ViewOK(CancelRendering(Of(v))) /\ CancelRendering(Of(v)).view.draws = view[v].draws
    BY <2>1, CancelLemma DEF KeepsView, Of
  <2>3. q[v] = CancelRendering(Of(v)) \/ q[v] = Of(v)
    BY <1>5
  <2> QED BY <2>1, <2>2, <2>3 DEF Of
<1>7. AllViewsOK' /\ \A v \in Views : view'[v].draws = view[v].draws
  <2>1. \A v \in Views : q[v].view \in ViewRecords /\ q[v].task \in [Draws -> TaskStates]
    BY <1>6 DEF ViewOK
  <2>2. view' \in [Views -> ViewRecords] /\ task' \in [Views -> [Draws -> TaskStates]]
    BY <1>5, <2>1
  <2>3. \A v \in Views : Of(v)' = q[v]
    BY <1>5, <1>6 DEF Of, ViewOK
  <2>4. \A v \in Views : ViewOK(Of(v)')
    BY <1>6, <2>3
  <2>5. \A v \in Views : view'[v].draws = view[v].draws
    BY <1>5, <1>6
  <2> QED BY <2>2, <2>4, <2>5 DEF AllViewsOK, ViewOK
<1>8. NewIsUntouched'
  <2> SUFFICES ASSUME NEW e \in Docs, IsNew(e)'
               PROVE  /\ manager'.pages # e
                      /\ \A v \in Views : v[1] = e => Asks("ensure", v) \notin waiting' /\ view'[v].draws = 0
    BY DEF NewIsUntouched, Asks
  <2>1. IsNew(e)
    BY <1>0, <1>2 DEF IsNew, Asks
  <2>2. \A v \in Views : v[1] = e => Asks("ensure", v) \notin waiting /\ view[v].draws = 0
    BY <2>1 DEF ViewsInv, NewIsUntouched
  <2>3. \A v : Asks("ensure", v) # Asks("first", <<d, 1>>)
    BY DEF Asks
  <2>4. manager'.pages # e
    BY <1>4 DEF Docs, None
  <2> QED BY <1>0, <1>7, <2>2, <2>3, <2>4
<1>10. FirstOfOpen'
  <2> SUFFICES ASSUME NEW e \in Docs, Asks("first", <<e, 1>>) \in waiting' PROVE opened'[e].state = "open"
    BY DEF FirstOfOpen, Asks
  <2>1. CASE e = d
    BY <1>0, <1>1, <2>1
  <2>2. CASE e # d
    <3>1. Asks("first", <<e, 1>>) \in waiting
      BY <1>0, <2>2 DEF Asks
    <3> QED BY <1>2, <2>2, <3>1 DEF ViewsInv, FirstOfOpen
  <2> QED BY <2>1, <2>2
<1>9. AllShownOK'
  BY <1>4 DEF AllShownOK, Shown
<1> QED BY <1>3, <1>4, <1>7, <1>8, <1>9, <1>10 DEF ViewsInv

\* A manager that shows the same, in the same way.
LoadedStates == {"none", "pending", "resolved", "rejected"}
IsManager(m) ==
    /\ m = [document |-> m.document, pages |-> m.pages, scale |-> m.scale, timer |-> m.timer,
            arranged |-> m.arranged, loaded |-> m.loaded, left |-> m.left, updates |-> m.updates,
            thrown |-> m.thrown]
    /\ m.loaded \in LoadedStates
KeepsManager(r, m) ==
    /\ IsManager(r) /\ r.document = m.document /\ r.pages = m.pages
    /\ r.scale = m.scale /\ r.timer = m.timer /\ r.thrown = m.thrown

\* A capability that is settled changes nothing else of the manager.
LEMMA SettledManager ==
    ASSUME NEW m, IsManager(m), NEW r, r \in {PagesLoaded(m), PagesFailed(m)}
    PROVE  KeepsManager(r, m) /\ r.left = m.left /\ r.arranged = m.arranged
<1>1. CASE r = PagesLoaded(m)
  BY <1>1 DEF PagesLoaded, IsManager, KeepsManager, LoadedStates
<1>2. CASE r = PagesFailed(m)
  BY <1>2 DEF PagesFailed, IsManager, KeepsManager, LoadedStates
<1> QED BY <1>1, <1>2

\* One page less to fetch, too.
LEMMA OneLessLemma ==
    ASSUME NEW d, IsManager(manager), OneLess(d)
    PROVE  KeepsManager(manager', manager)
<1> DEFINE m == [manager EXCEPT !.left[d] = @ - 1]
<1>1. m = [document |-> manager.document, pages |-> manager.pages, scale |-> manager.scale,
           timer |-> manager.timer, arranged |-> manager.arranged, loaded |-> manager.loaded,
           left |-> [manager.left EXCEPT ![d] = @ - 1], updates |-> manager.updates, thrown |-> manager.thrown]
  BY DEF IsManager
<1>2. KeepsManager(m, manager)
  BY <1>1 DEF KeepsManager, IsManager
<1>3. manager' = IF m.left[d] = 0 THEN PagesLoaded(m) ELSE m
  BY DEF OneLess
<1> HIDE DEF m
<1>4. CASE m.left[d] = 0
  <2>1. KeepsManager(manager', m)
    BY <1>2, <1>3, <1>4, SettledManager DEF KeepsManager
  <2> QED BY <1>2, <2>1 DEF KeepsManager
<1>5. CASE m.left[d] # 0
  BY <1>2, <1>3, <1>5
<1> QED BY <1>4, <1>5

LEMMA ManagerKept ==
    ASSUME ManagerOK, KeepsManager(manager', manager)
    PROVE  ManagerOK'
BY DEF ManagerOK, KeepsManager, IsManager, LoadedStates

LEMMA ManagerIsOne == ManagerOK => IsManager(manager) /\ KeepsManager(manager, manager)
BY DEF ManagerOK, IsManager, KeepsManager, LoadedStates

\* The views of the first page's document are made: it was new, and it is not any more.
LEMMA FirstPageStep == ASSUME ViewsInv, NEW d \in Docs, FirstPage(d) PROVE ViewsInv'
<1>0. ManagerOK /\ IsManager(manager) /\ KeepsManager(manager, manager)
  BY ManagerIsOne DEF ViewsInv
<1>1. Asks("first", <<d, 1>>) \in waiting /\ IsNew(d) /\ UNCHANGED <<opened, task>>
  BY DEF FirstPage, IsNew
<1>2. CASE ~IsCurrent(d)
  <2>1. UNCHANGED <<manager, view, task>> /\ waiting' = waiting \ {Asks("first", <<d, 1>>)}
    BY <1>2 DEF FirstPage, PageAnswered
  <2>2. ManagerOK' /\ AsksNoMore
    BY <2>1, <1>0, ManagerKept DEF AsksNoMore
  <2> QED BY <1>1, <2>1, <2>2, NoViewStep
<1>3. CASE IsCurrent(d)
  <2> DEFINE conflict == manager.arranged # {}
             asked == {Asks("ensure", v) : v \in IF conflict THEN {} ELSE PagesOf(d)}
             shown == [manager EXCEPT !.pages = d]
             Made(v) == [NewView(manager.scale) EXCEPT !.pdfPage = IF v[2] = 1 THEN d ELSE None]
             q == [v \in Views |-> [view |-> IF v \notin PagesOf(d) THEN view[v] ELSE Made(v), task |-> task[v]]]
  <2>1. /\ manager' = IF conflict THEN PagesFailed(shown)
                      ELSE [shown EXCEPT !.arranged = {v[2] : v \in PagesOf(d)}]
        /\ view' = [v \in Views |-> IF v \notin PagesOf(d) THEN view[v] ELSE Made(v)]
        /\ waiting' = (waiting \ {Asks("first", <<d, 1>>)}) \cup asked \cup {Asks("fetch", <<d, 1>>)}
    BY <1>3, <1>0 DEF FirstPage, IsManager
  <2>2. d = manager.document /\ d # None
    BY <1>3 DEF IsCurrent, Docs, None
  <2>3. IsManager(manager') /\ manager'.document = manager.document /\ manager'.pages = d
        /\ manager'.scale = manager.scale /\ manager'.timer = manager.timer
        /\ manager'.thrown = manager.thrown
    <3>1. shown = [document |-> manager.document, pages |-> d, scale |-> manager.scale, timer |-> manager.timer,
                   arranged |-> manager.arranged, loaded |-> manager.loaded, left |-> manager.left,
                   updates |-> manager.updates, thrown |-> manager.thrown]
      BY <1>0 DEF IsManager
    <3>2. IsManager(shown) /\ shown.document = manager.document /\ shown.pages = d
          /\ shown.scale = manager.scale /\ shown.timer = manager.timer
          /\ shown.thrown = manager.thrown
      BY <3>1, <1>0 DEF IsManager
    <3> HIDE DEF shown
    <3>3. CASE conflict
      <4>1. KeepsManager(manager', shown)
        BY <2>1, <3>2, <3>3, SettledManager
      <4> QED BY <4>1, <3>2 DEF KeepsManager
    <3>4. CASE ~conflict
      <4>1. manager' = [shown EXCEPT !.arranged = {v[2] : v \in PagesOf(d)}]
        BY <2>1, <3>4
      <4> DEFINE A == {v[2] : v \in PagesOf(d)}
      <4> HIDE DEF A
      <4>2. manager' = [document |-> manager.document, pages |-> d, scale |-> manager.scale, timer |-> manager.timer,
                   arranged |-> A, loaded |-> manager.loaded, left |-> manager.left,
                   updates |-> manager.updates, thrown |-> manager.thrown]
        BY <4>1, <3>1 DEF shown, A
      <4> QED BY <4>2, <1>0 DEF IsManager
    <3> QED BY <3>3, <3>4
  <2>4. ManagerOK'
    BY <2>2, <2>3, <1>0 DEF ManagerOK, IsManager, LoadedStates
  <2>5. OpenedOK'
    BY <1>1 DEF ViewsInv, OpenedOK
  <2>6. \A v \in PagesOf(d) : v \in Views /\ v[1] = d
    <3>1. \A v \in PagesOf(d) : v[1] = d
      BY DEF PagesOf
    <3> QED BY <3>1, PagesAreViews DEF ViewsInv
  <2>7. \A v \in Views : ViewOK(q[v])
    <3> TAKE v \in Views
    <3>1. ViewOK(Of(v)) /\ view[v] \in ViewRecords /\ task[v] \in [Draws -> TaskStates]
      BY DEF ViewsInv, AllViewsOK
    <3>2. CASE v \notin PagesOf(d)
      BY <3>1, <3>2 DEF Of
    <3>3. CASE v \in PagesOf(d)
      <4>1. view[v].draws = 0
        BY <1>1, <2>6, <3>3 DEF ViewsInv, NewIsUntouched
      <4>2. \A k \in Draws : task[v][k] = "none"
        BY <3>1, <4>1 DEF ViewOK, Of, Draws
      <4>3. /\ manager.scale \in Scales /\ (IF v[2] = 1 THEN d ELSE None) \in {None} \cup Docs
            /\ MaxScale + 1 \in 1 .. MaxScale + 1
        BY <1>0, PageViewsAssumption DEF ManagerOK
      <4>4. Made(v) = [pdfPage |-> IF v[2] = 1 THEN d ELSE None, state |-> "INITIAL", task |-> None, canvas |-> None,
                       hidden |-> FALSE, zoomLayer |-> None, scale |-> manager.scale, cssFrom |-> MaxScale + 1, error |-> FALSE, draws |-> 0]
        <5> DEFINE p == IF v[2] = 1 THEN d ELSE None
        <5>1. Made(v) = [NewView(manager.scale) EXCEPT !.pdfPage = p]
          OBVIOUS
        <5> HIDE DEF p
        <5>2. [NewView(manager.scale) EXCEPT !.pdfPage = p] =
                [pdfPage |-> p, state |-> "INITIAL", task |-> None, canvas |-> None, hidden |-> FALSE,
                 zoomLayer |-> None, scale |-> manager.scale, cssFrom |-> MaxScale + 1, error |-> FALSE, draws |-> 0]
          <6> DEFINE n == NewView(manager.scale)
          <6>1. n = [pdfPage |-> None, state |-> "INITIAL", task |-> None, canvas |-> None, hidden |-> FALSE,
                     zoomLayer |-> None, scale |-> manager.scale, cssFrom |-> MaxScale + 1, error |-> FALSE, draws |-> 0]
            BY DEF NewView
          <6> HIDE DEF n
          <6>2. n \in ViewRecords
            BY <4>3, <6>1 DEF ViewRecords, None
          <6>3. [n EXCEPT !.pdfPage = p] =
                  [pdfPage |-> p, state |-> n.state, task |-> n.task, canvas |-> n.canvas, hidden |-> n.hidden,
                   zoomLayer |-> n.zoomLayer, scale |-> n.scale, cssFrom |-> n.cssFrom, error |-> n.error, draws |-> n.draws]
            BY <6>2 DEF ViewRecords
          <6> QED BY <6>1, <6>3 DEF n
        <5> QED BY <5>1, <5>2 DEF p
      <4>5. q[v].view = Made(v) /\ q[v].task = task[v] /\ q[v] = [view |-> q[v].view, task |-> q[v].task]
        BY <3>3
      <4>6. Made(v) \in ViewRecords /\ Made(v).task = None /\ Made(v).draws = None
        BY <4>3, <4>4 DEF ViewRecords, None
      <4> HIDE DEF q, Made
      <4>7. \A k \in Draws : k # None /\ ~(k <= None)
        BY DEF Draws, None
      <4> QED BY <3>1, <4>2, <4>5, <4>6, <4>7 DEF ViewOK
    <3> QED BY <3>2, <3>3
  <2>8. AllViewsOK'
    <3>1. \A v \in Views : q[v].view \in ViewRecords /\ q[v].task \in [Draws -> TaskStates]
      BY <2>7 DEF ViewOK
    <3>2. task \in [Views -> [Draws -> TaskStates]]
      BY DEF ViewsInv, AllViewsOK
    <3>3. view' = [v \in Views |-> q[v].view] /\ task' = [v \in Views |-> q[v].task]
      BY <1>1, <2>1, <3>2
    <3>4. view' \in [Views -> ViewRecords] /\ task' \in [Views -> [Draws -> TaskStates]]
      BY <3>1, <3>3
    <3>5. \A v \in Views : Of(v)' = q[v]
      BY <3>3 DEF Of
    <3>6. \A v \in Views : ViewOK(Of(v)')
      BY <2>7, <3>5
    <3> QED BY <3>4, <3>6 DEF AllViewsOK, ViewOK
  <2>9. NewIsUntouched'
    <3> SUFFICES ASSUME NEW e \in Docs, IsNew(e)'
                 PROVE  /\ manager'.pages # e
                        /\ \A v \in Views : v[1] = e => Asks("ensure", v) \notin waiting' /\ view'[v].draws = 0
      BY DEF NewIsUntouched, Asks
    <3>1. \A v : Asks("first", v) \in waiting' => Asks("first", v) \in waiting \ {Asks("first", <<d, 1>>)}
      BY <2>1 DEF Asks
    <3>2. IsNew(e) /\ e # d
      <4>1. IsNew(e)
        BY <1>1, <3>1 DEF IsNew, Asks
      <4>2. opened[d].state \notin {"none", "opening"}
        BY <1>1 DEF ViewsInv, FirstOfOpen
      <4> QED BY <1>1, <3>1, <4>1, <4>2 DEF IsNew, Asks
    <3>3. \A v \in Views : v[1] = e => Asks("ensure", v) \notin waiting /\ view[v].draws = 0
      BY <3>2 DEF ViewsInv, NewIsUntouched
    <3>4. ASSUME NEW v \in Views, v[1] = e PROVE Asks("ensure", v) \notin waiting' /\ view'[v].draws = 0
      <4>1. v \notin PagesOf(d)
        BY <2>6, <3>2, <3>4
      <4>2. Asks("ensure", v) \notin asked
        BY <4>1 DEF Asks
      <4>3. Asks("ensure", v) # Asks("fetch", <<d, 1>>)
        BY DEF Asks
      <4> QED BY <2>1, <3>3, <3>4, <4>1, <4>2, <4>3
    <3> QED BY <2>3, <3>2, <3>4
  <2>11. FirstOfOpen'
    <3> SUFFICES ASSUME NEW e \in Docs, Asks("first", <<e, 1>>) \in waiting' PROVE opened'[e].state = "open"
      BY DEF FirstOfOpen, Asks
    <3>1. Asks("first", <<e, 1>>) \in waiting
      BY <2>1 DEF Asks
    <3> QED BY <1>1, <3>1 DEF ViewsInv, FirstOfOpen
  <2>10. AllShownOK'
    <3>1. Shown' = PagesOf(d)
      BY <1>1, <2>2, <2>3 DEF Shown, PagesOf
    <3>2. \A v \in PagesOf(d) : view'[v].scale = manager.scale /\ view'[v].state = "INITIAL"
      BY <2>1, <2>6 DEF NewView
    <3> QED BY <2>3, <3>1, <3>2 DEF AllShownOK, ShownOK, Of
  <2> QED BY <2>4, <2>5, <2>8, <2>9, <2>10, <2>11 DEF ViewsInv
<1> QED BY <1>2, <1>3

LEMMA FirstPageFailsStep == ASSUME ViewsInv, NEW d \in Docs, FirstPageFails(d) PROVE ViewsInv'
<1>1. manager' = PagesFailed(manager) /\ waiting' \subseteq waiting /\ UNCHANGED <<opened, view, task>>
  BY DEF FirstPageFails, PageAnswered
<1>2. KeepsManager(manager', manager)
  BY <1>1, ManagerIsOne, SettledManager DEF ViewsInv
<1>3. ManagerOK' /\ AsksNoMore
  BY <1>1, <1>2, ManagerKept DEF ViewsInv, AsksNoMore
<1> QED BY <1>1, <1>2, <1>3, NoViewStep DEF KeepsManager

LEMMA FetchPagesStep == ASSUME ViewsInv, NEW d \in Docs, NEW eager \in BOOLEAN, FetchPages(d, eager) PROVE ViewsInv'
<1> DEFINE others == IF IsCurrent(d) /\ eager THEN PagesOf(d) \ {<<d, 1>>} ELSE {}
           counted == [manager EXCEPT !.left[d] = Cardinality(others)]
<1>1. /\ manager' = IF ~IsCurrent(d) THEN manager ELSE IF others = {} THEN PagesLoaded(manager) ELSE counted
      /\ waiting' = (waiting \ {Asks("fetch", <<d, 1>>)}) \cup {Asks("eager", v) : v \in others}
      /\ UNCHANGED <<opened, view, task>>
  BY DEF FetchPages
<1>2. IsManager(manager) /\ KeepsManager(manager, manager)
  BY ManagerIsOne DEF ViewsInv
<1> HIDE DEF others
<1>3. counted = [document |-> manager.document, pages |-> manager.pages, scale |-> manager.scale,
                 timer |-> manager.timer, arranged |-> manager.arranged, loaded |-> manager.loaded,
                 left |-> [manager.left EXCEPT ![d] = Cardinality(others)], updates |-> manager.updates, thrown |-> manager.thrown]
  BY <1>2 DEF IsManager
<1>4. KeepsManager(counted, manager)
  BY <1>2, <1>3 DEF KeepsManager, IsManager
<1> HIDE DEF counted
<1>5. KeepsManager(manager', manager)
  <2>1. KeepsManager(PagesLoaded(manager), manager)
    BY <1>2, SettledManager
  <2>2. manager' \in {manager, PagesLoaded(manager), counted}
    BY <1>1
  <2> QED BY <1>2, <1>4, <2>1, <2>2
<1>6. ManagerOK' /\ AsksNoMore
  <2>1. ManagerOK'
    BY <1>5, ManagerKept DEF ViewsInv
  <2>2. AsksNoMore
    BY <1>1 DEF AsksNoMore, Asks
  <2> QED BY <2>1, <2>2
<1> QED BY <1>1, <1>5, <1>6, NoViewStep DEF KeepsManager

\* A page that comes late goes to a view that is shown, which is not one of a new document.
LEMMA EagerPageStep == ASSUME ViewsInv, NEW v \in Views, EagerPage(v) PROVE ViewsInv'
<1> DEFINE now == <<manager.pages, v[2]>>
           w   == SetPdfPage(Of(now), v[1])
<1>0. IsManager(manager) /\ KeepsManager(manager, manager) /\ ManagerOK
  BY ManagerIsOne DEF ViewsInv
<1>1. UNCHANGED opened /\ AsksNoMore
  BY DEF EagerPage, PageAnswered, AsksNoMore
<1>2. CASE now \notin Shown
  <2>1. UNCHANGED <<manager, view, task>>
    BY <1>2 DEF EagerPage
  <2>2. ManagerOK'
    BY <2>1, <1>0, ManagerKept
  <2> QED BY <1>1, <2>1, <2>2, NoViewStep
<1>3. CASE now \in Shown
  <2>1. KeepsManager(manager', manager)
    BY <1>0, <1>3, OneLessLemma DEF EagerPage
  <2>2. ManagerOK'
    BY <2>1, <1>0, ManagerKept
  <2>3. CASE view[now].pdfPage # None
    <3>1. UNCHANGED <<view, task>>
      BY <1>3, <2>3 DEF EagerPage
    <3> QED BY <1>1, <2>1, <2>2, <3>1, NoViewStep DEF KeepsManager
  <2>4. CASE view[now].pdfPage = None
    <3>1. Put(now, w)
      BY <1>3, <2>4 DEF EagerPage
    <3>2. now \in Views /\ v[1] \in Docs
      BY <1>3, ShownAreViews DEF ViewsInv, Views
    <3>3. ViewOK(Of(now)) /\ ShownOK(Of(now), manager.scale, manager.timer, manager.thrown)
      BY <1>3, <3>2 DEF ViewsInv, AllViewsOK, AllShownOK
    <3>4. /\ ViewOK(w) /\ w.view.scale = Of(now).view.scale /\ w.view.state = "INITIAL"
          /\ w.view.draws = Of(now).view.draws
      BY <3>2, <3>3, SetPdfPageLemma
    <3>5. ShownOK(w, manager.scale, manager.timer, manager.thrown) /\ w.view.draws = view[now].draws
      BY <3>3, <3>4 DEF ShownOK, Of
    <3> HIDE DEF now, w
    <3> QED BY <1>1, <2>1, <2>2, <3>1, <3>2, <3>4, <3>5, OneViewStep DEF KeepsManager
  <2> QED BY <2>3, <2>4
<1> QED BY <1>2, <1>3

LEMMA EagerPageFailsStep == ASSUME ViewsInv, NEW v \in Views, EagerPageFails(v) PROVE ViewsInv'
<1>1. UNCHANGED <<opened, view, task>> /\ AsksNoMore
  BY DEF EagerPageFails, PageAnswered, AsksNoMore
<1>2. KeepsManager(manager', manager)
  BY ManagerIsOne, OneLessLemma DEF EagerPageFails, ViewsInv
<1>3. ManagerOK'
  BY <1>2, ManagerKept DEF ViewsInv
<1> QED BY <1>1, <1>2, <1>3, NoViewStep DEF KeepsManager

-----------------------------------------------------------------------------
(* Drawing, and what the user does.                                        *)

\* A step of one view that leaves the documents and the manager as they are.
LEMMA DrawStep ==
    ASSUME ViewsInv, UNCHANGED <<opened, manager>>, waiting' \subseteq waiting,
           NEW v \in Views, NEW w, Put(v, w), ViewOK(w),
           w.view.draws = view[v].draws \/ ~IsNew(v[1]),
           v \in Shown => ShownOK(w, manager.scale, manager.timer, manager.thrown)
    PROVE  ViewsInv'
<1>1. ManagerOK' /\ AsksNoMore
  BY ManagerIsOne, ManagerKept DEF ViewsInv, AsksNoMore
<1> QED BY <1>1, OneViewStep

\* A page for which a drawing is asked is drawn, shown or not.
LEMMA EnsurePageStep == ASSUME ViewsInv, NEW v \in Views, EnsurePage(v) PROVE ViewsInv'
<1> DEFINE e == IF view[v].pdfPage # None THEN Of(v) ELSE SetPdfPage(Of(v), v[1])
           w == Draw(e)
<1>1. UNCHANGED <<opened, manager>> /\ waiting' \subseteq waiting /\ Put(v, w) /\ Drawn < MaxDraws
      /\ Asks("ensure", v) \in waiting
  BY DEF EnsurePage, PageAnswered
<1>2. v[1] \in Docs
  BY DEF Views
<1>3. ViewOK(Of(v))
  BY DEF ViewsInv, AllViewsOK
<1>4. /\ ViewOK(e) /\ e.view.scale = view[v].scale /\ e.view.draws = view[v].draws
      /\ e.view.pdfPage # None
  <2>1. CASE view[v].pdfPage # None
    BY <1>3, <2>1 DEF Of
  <2>2. CASE view[v].pdfPage = None
    <3>1. e = SetPdfPage(Of(v), v[1])
      BY <2>2
    <3> HIDE DEF e
    <3>2. ViewOK(e) /\ e.view.pdfPage = v[1] /\ e.view.scale = Of(v).view.scale /\ e.view.draws = Of(v).view.draws
      BY <1>2, <1>3, <3>1, SetPdfPageLemma
    <3> QED BY <1>2, <3>2 DEF Of, Docs, None
  <2> QED BY <2>1, <2>2
<1>5. e.view.draws + 1 \in Draws
  BY <1>1, <1>4, DrawnLemma DEF ViewsInv
<1> HIDE DEF e
<1>6. /\ ViewOK(w) /\ w.view.scale = e.view.scale /\ w.view.pdfPage = e.view.pdfPage
      /\ w.view.state = "RUNNING" => w.view.task # None
      /\ w.view.state = "FINISHED" => w.view.pdfPage = None
  BY <1>4, <1>5, DrawLemma
<1> HIDE DEF w
<1>7. ~IsNew(v[1])
  BY <1>1, <1>2 DEF ViewsInv, NewIsUntouched
<1>8. v \in Shown => ShownOK(w, manager.scale, manager.timer, manager.thrown)
  BY <1>4, <1>6 DEF ShownOK, ViewsInv, AllShownOK, Of
<1> QED BY <1>1, <1>6, <1>7, <1>8, DrawStep

LEMMA RenderViewStep == ASSUME ViewsInv, NEW v \in Views, RenderView(v) PROVE ViewsInv'
<1> DEFINE w == Draw(Of(v))
<1>1. /\ UNCHANGED <<opened, manager>> /\ waiting' \subseteq waiting /\ Put(v, w) /\ Drawn < MaxDraws
      /\ v \in Shown
  BY DEF RenderView
<1>2. ViewOK(Of(v)) /\ Of(v).view.draws + 1 \in Draws
  BY <1>1, DrawnLemma DEF ViewsInv, AllViewsOK, Of
<1>3. /\ ViewOK(w) /\ w.view.scale = Of(v).view.scale
      /\ w.view.state = "RUNNING" => w.view.task # None
      /\ w.view.state = "FINISHED" => w.view.pdfPage = None
  BY <1>2, DrawLemma
<1> HIDE DEF w
<1>4. ~IsNew(v[1])
  BY <1>1, ShownAreViews DEF ViewsInv, NewIsUntouched
<1>5. ShownOK(w, manager.scale, manager.timer, manager.thrown)
  BY <1>1, <1>3 DEF ShownOK, ViewsInv, AllShownOK
<1> QED BY <1>1, <1>3, <1>4, <1>5, DrawStep

LEMMA EnsurePageFailsStep == ASSUME ViewsInv, NEW v \in Views, EnsurePageFails(v) PROVE ViewsInv'
<1>1. UNCHANGED <<opened, manager, view, task>> /\ waiting' \subseteq waiting
  BY DEF EnsurePageFails, PageAnswered
<1>2. ManagerOK' /\ AsksNoMore
  BY <1>1, ManagerIsOne, ManagerKept DEF ViewsInv, AsksNoMore
<1> QED BY <1>1, <1>2, NoViewStep

\* A step of all views that are shown: each becomes q[v].
LEMMA AllViewsStep ==
    ASSUME ViewsInv, UNCHANGED <<opened, waiting>>, ManagerOK', manager'.pages = manager.pages,
           NEW q, view' = [v \in Views |-> q[v].view], task' = [v \in Views |-> q[v].task],
           \A v \in Views \ Shown : q[v] = Of(v),
           \A v \in Shown : /\ ViewOK(q[v]) /\ q[v].view.draws = view[v].draws
                            /\ ShownOK(q[v], manager'.scale, manager'.timer, manager'.thrown)
    PROVE  ViewsInv'
<1>1. \A v \in Views : ViewOK(q[v]) /\ q[v].view.draws = view[v].draws
  <2> TAKE v \in Views
  <2>1. CASE v \in Shown
    BY <2>1
  <2>2. CASE v \notin Shown
    <3>1. q[v] = Of(v) /\ Of(v).view.draws = view[v].draws
      BY <2>2 DEF Of
    <3> QED BY <3>1 DEF ViewsInv, AllViewsOK
  <2> QED BY <2>1, <2>2
<1>2. AsksNoMore
  BY DEF AsksNoMore
<1> QED BY <1>1, <1>2, ViewsStepLemma

\* Another manager: the scale and the timer are set, and that a refresh has thrown.
LEMMA SetManager ==
    ASSUME ManagerOK, NEW s \in Scales, NEW t \in BOOLEAN, NEW u, NEW e \in BOOLEAN,
           manager' = [manager EXCEPT !.scale = s, !.timer = t, !.updates = u, !.thrown = e]
    PROVE  /\ ManagerOK' /\ manager'.pages = manager.pages /\ manager'.scale = s /\ manager'.timer = t
           /\ manager'.thrown = e
<1>1. manager' = [document |-> manager.document, pages |-> manager.pages, scale |-> s, timer |-> t,
                  arranged |-> manager.arranged, loaded |-> manager.loaded, left |-> manager.left, updates |-> u,
                  thrown |-> e]
  BY DEF ManagerOK
<1> QED BY <1>1 DEF ManagerOK

\* The views of vs are updated to the scales of S; a refresh has thrown, or these are all, at the
\* scale of the manager.
Updated(vs, S, postpone) == [v \in Views |-> IF v \in vs THEN Update(Of(v), S[v], postpone) ELSE Of(v)]
ThrownOrAll(vs, S, postpone) ==
    \/ manager'.thrown = TRUE
    \/ /\ vs = Shown /\ (manager'.timer = TRUE \/ postpone = FALSE)
       /\ \A v \in Shown : S[v] = manager'.scale /\ ~Throws(Of(v), S[v], postpone)

\* refresh(): some of the views shown are updated, to scales of their own.  Either it has
\* thrown, now or before, or all are updated, to the scale of the manager.
LEMMA RefreshLemma ==
    ASSUME ViewsInv, UNCHANGED <<opened, waiting>>, ManagerOK', manager'.pages = manager.pages,
           NEW vs \in SUBSET Shown, NEW S \in [Views -> Scales], NEW postpone \in BOOLEAN,
           NEW q, q = Updated(vs, S, postpone), ThrownOrAll(vs, S, postpone),
           view' = [v \in Views |-> q[v].view], task' = [v \in Views |-> q[v].task]
    PROVE  ViewsInv'
<1>0. \A v \in Views : q[v] = IF v \in vs THEN Update(Of(v), S[v], postpone) ELSE Of(v)
  BY DEF Updated
<1>1. ASSUME NEW v \in Shown
      PROVE  /\ ViewOK(q[v]) /\ q[v].view.draws = view[v].draws
             /\ q[v].view.state = "RUNNING" => q[v].view.task # None
             /\ v \in vs /\ ~Throws(Of(v), S[v], postpone) => ShownOK(q[v], S[v], postpone, FALSE)
  <2>1. v \in Views /\ ViewOK(Of(v)) /\ (Of(v).view.state = "RUNNING" => Of(v).view.task # None)
    BY ShownAreViews DEF ViewsInv, AllViewsOK, AllShownOK, ShownOK
  <2>2. CASE v \in vs
    <3>1. q[v] = Update(Of(v), S[v], postpone) /\ S[v] \in Scales
      BY <1>0, <2>1, <2>2
    <3>2. /\ ViewOK(q[v]) /\ q[v].view.draws = Of(v).view.draws
          /\ q[v].view.state = "RUNNING" => q[v].view.task # None
          /\ ~Throws(Of(v), S[v], postpone) => ShownOK(q[v], S[v], postpone, FALSE)
      BY <2>1, <3>1, UpdateLemma
    <3> QED BY <3>2 DEF Of
  <2>3. CASE v \notin vs
    <3>1. q[v] = Of(v)
      BY <1>0, <2>1, <2>3
    <3>2. /\ ViewOK(q[v]) /\ q[v].view.draws = Of(v).view.draws
          /\ q[v].view.state = "RUNNING" => q[v].view.task # None
      BY <2>1, <3>1
    <3>3. Of(v).view.draws = view[v].draws
      BY DEF Of
    <3> QED BY <2>3, <3>2, <3>3
  <2> QED BY <2>2, <2>3
<1>2. ASSUME NEW v \in Shown PROVE ShownOK(q[v], manager'.scale, manager'.timer, manager'.thrown)
  <2>1. CASE manager'.thrown = TRUE
    BY <1>1, <2>1 DEF ShownOK
  <2>2. CASE manager'.thrown # TRUE
    <3>1. S[v] = manager'.scale /\ (manager'.timer = TRUE \/ postpone = FALSE) /\ v \in vs /\ ~Throws(Of(v), S[v], postpone)
      BY <2>2 DEF ThrownOrAll
    <3>2. ShownOK(q[v], manager'.scale, postpone, FALSE)
      BY <1>1, <3>1
    <3> QED BY <3>1, <3>2 DEF ShownOK
  <2> QED BY <2>1, <2>2
<1>3. \A v \in Views \ Shown : q[v] = Of(v)
  BY <1>0
<1> QED BY <1>1, <1>2, <1>3, AllViewsStep

LEMMA ZoomStep ==
    ASSUME ViewsInv, NEW scale \in Scales, NEW postpone \in BOOLEAN, Zoom(scale, postpone)
    PROVE  ViewsInv'
<1> DEFINE vs == Reached(LAMBDA v : scale, postpone)
           throws == RefreshThrows(LAMBDA v : scale, postpone)
           S == [v \in Views |-> scale]
<1>1. PICK q : /\ q = [v \in Views |-> IF v \in vs THEN Update(Of(v), scale, postpone) ELSE Of(v)]
               /\ view' = [v \in Views |-> q[v].view] /\ task' = [v \in Views |-> q[v].task]
  BY DEF Zoom, PutAll
<1>2. /\ UNCHANGED <<opened, waiting>>
      /\ throws => manager' = [manager EXCEPT !.thrown = TRUE, !.updates = @ + 1]
      /\ ~throws => manager' = [manager EXCEPT !.scale = scale, !.timer = postpone, !.updates = @ + 1]
  BY DEF Zoom
<1>3. vs \in SUBSET Shown /\ (~throws => vs = Shown /\ \A v \in Shown : ~Throws(Of(v), scale, postpone))
  BY DEF Reached, RefreshThrows
<1> HIDE DEF vs, throws
<1>4. q = Updated(vs, S, postpone) /\ S \in [Views -> Scales]
  BY <1>1 DEF Updated
<1>5. \A v \in Shown : S[v] = scale
  BY ShownAreViews DEF ViewsInv
<1>8. ViewsInv /\ postpone \in BOOLEAN /\ vs \in SUBSET Shown /\ S \in [Views -> Scales]
  BY <1>3, <1>4
<1>9. /\ q = Updated(vs, S, postpone)
      /\ view' = [v \in Views |-> q[v].view] /\ task' = [v \in Views |-> q[v].task]
  BY <1>1, <1>4
<1> HIDE DEF S
<1> DEFINE u == manager.updates + 1
<1>6. CASE throws
  <2> DEFINE yes == TRUE
  <2>0. yes \in BOOLEAN /\ yes = TRUE
    OBVIOUS
  <2>3. manager' = [manager EXCEPT !.thrown = yes, !.updates = u]
    BY <1>2, <1>6
  <2> HIDE DEF yes, u
  <2>1. manager' = [manager EXCEPT !.scale = manager.scale, !.timer = manager.timer, !.updates = u,
                                   !.thrown = yes]
    BY <2>3 DEF ViewsInv, ManagerOK
  <2>2. ManagerOK' /\ manager'.pages = manager.pages /\ manager'.thrown = TRUE
    <3>1. ManagerOK /\ manager.scale \in Scales /\ manager.timer \in BOOLEAN
      BY DEF ViewsInv, ManagerOK
    <3> QED BY ONLY <2>0, <2>1, <3>1, SetManager
  <2> HIDE DEF u
  <2>4. ThrownOrAll(vs, S, postpone)
    BY <2>2 DEF ThrownOrAll
  <2>5. UNCHANGED <<opened, waiting>>
    BY <1>2
  <2> QED BY ONLY <1>8, <1>9, <2>2, <2>4, <2>5, RefreshLemma
<1>7. CASE ~throws
  <2>1. manager' = [manager EXCEPT !.scale = scale, !.timer = postpone, !.updates = u,
                                   !.thrown = manager.thrown]
    BY <1>2, <1>7 DEF ViewsInv, ManagerOK
  <2> HIDE DEF u
  <2>2. ManagerOK' /\ manager'.pages = manager.pages /\ manager'.scale = scale /\ manager'.timer = postpone
    <3>1. ManagerOK /\ manager.thrown \in BOOLEAN
      BY DEF ViewsInv, ManagerOK
    <3>2. scale \in Scales /\ postpone \in BOOLEAN
      OBVIOUS
    <3> QED BY ONLY <2>1, <3>1, <3>2, SetManager
  <2>4. ThrownOrAll(vs, S, postpone)
    <3>1. (manager'.timer = TRUE \/ postpone = FALSE) /\ vs = Shown /\ \A v \in Shown : ~Throws(Of(v), scale, postpone)
      BY <1>3, <1>7, <2>2
    <3>2. \A v \in Shown : S[v] = scale /\ S[v] = manager'.scale
      BY <1>5, <2>2
    <3>3. ASSUME NEW v \in Shown PROVE ~Throws(Of(v), S[v], postpone)
      <4>1. S[v] = scale /\ ~Throws(Of(v), scale, postpone)
        BY <3>1, <3>2
      <4> QED BY ONLY <4>1
    <3> QED BY <3>1, <3>2, <3>3 DEF ThrownOrAll
  <2>5. UNCHANGED <<opened, waiting>>
    BY <1>2
  <2> QED BY ONLY <1>8, <1>9, <2>2, <2>4, <2>5, RefreshLemma
<1> QED BY <1>6, <1>7

\* refresh() at the views' own scales, by the user or the timer, which may keep its timer only
\* when it throws.
LEMMA OwnRefreshLemma ==
    ASSUME ViewsInv, PutAll(Reached(OwnScale, FALSE), LAMBDA w : Update(w, w.view.scale, FALSE)),
           UNCHANGED <<opened, waiting>>, NEW t \in BOOLEAN, NEW u,
           manager' = [manager EXCEPT !.scale = manager.scale, !.timer = t, !.updates = u,
                         !.thrown = IF RefreshThrows(OwnScale, FALSE) THEN TRUE ELSE manager.thrown]
    PROVE  ViewsInv'
<1> DEFINE vs == Reached(OwnScale, FALSE)
           throws == RefreshThrows(OwnScale, FALSE)
           e == IF throws THEN TRUE ELSE manager.thrown
           S == [v \in Views |-> view[v].scale]
<1>1. PICK q : /\ q = [v \in Views |-> IF v \in vs THEN Update(Of(v), Of(v).view.scale, FALSE) ELSE Of(v)]
               /\ view' = [v \in Views |-> q[v].view] /\ task' = [v \in Views |-> q[v].task]
  BY DEF PutAll
<1>2. vs \in SUBSET Shown /\ (~throws => vs = Shown /\ \A v \in Shown : ~Throws(Of(v), OwnScale(v), FALSE))
  BY DEF Reached, RefreshThrows
<1>3. manager' = [manager EXCEPT !.scale = manager.scale, !.timer = t, !.updates = u, !.thrown = e]
  OBVIOUS
<1>4. throws => e = TRUE
  OBVIOUS
<1>5. ~throws => e = manager.thrown
  OBVIOUS
<1> HIDE DEF vs, throws, e
<1>6. manager.scale \in Scales /\ e \in BOOLEAN
  BY <1>4, <1>5 DEF ViewsInv, ManagerOK
<1>7. ManagerOK' /\ manager'.pages = manager.pages /\ manager'.scale = manager.scale /\ manager'.thrown = e
  <2>1. ManagerOK /\ t \in BOOLEAN
    BY DEF ViewsInv
  <2> QED BY ONLY <1>3, <1>6, <2>1, SetManager
<1>8. /\ q = Updated(vs, S, FALSE)
      /\ S \in [Views -> Scales] /\ \A v \in Views : S[v] = view[v].scale
  <2>1. \A v \in Views : view[v].scale \in Scales
    BY DEF ViewsInv, AllViewsOK, ViewRecords
  <2>2. \A v \in Views : Of(v).view.scale = S[v]
    BY DEF Of
  <2> QED BY <1>1, <2>1, <2>2 DEF Updated
<1> HIDE DEF S
<1>9. \/ e = TRUE
      \/ vs = Shown /\ \A v \in Shown : S[v] = manager.scale /\ ~Throws(Of(v), S[v], FALSE)
  <2> SUFFICES ASSUME e # TRUE
               PROVE  vs = Shown /\ \A v \in Shown : S[v] = manager.scale /\ ~Throws(Of(v), S[v], FALSE)
    OBVIOUS
  <2>1. ~throws /\ ~manager.thrown
    BY <1>4, <1>5 DEF ViewsInv, ManagerOK
  <2>2. \A v \in Shown : v \in Views /\ view[v].scale = manager.scale
    BY <2>1, ShownAreViews DEF ViewsInv, AllShownOK, ShownOK, Of
  <2>3. \A v \in Shown : S[v] = OwnScale(v) /\ S[v] = manager.scale
    BY <1>8, <2>2 DEF OwnScale
  <2>4. vs = Shown /\ \A v \in Shown : ~Throws(Of(v), OwnScale(v), FALSE)
    BY <1>2, <2>1
  <2>5. ASSUME NEW v \in Shown PROVE ~Throws(Of(v), S[v], FALSE)
    <3>1. S[v] = OwnScale(v)
      BY <2>3
    <3>2. ~Throws(Of(v), OwnScale(v), FALSE)
      BY <2>4
    <3> QED BY ONLY <3>1, <3>2 DEF Throws
  <2> QED BY <2>3, <2>4, <2>5
<1>10. ThrownOrAll(vs, S, FALSE)
  BY <1>7, <1>9 DEF ThrownOrAll
<1>11. ViewsInv /\ UNCHANGED <<opened, waiting>> /\ vs \in SUBSET Shown /\ FALSE \in BOOLEAN
  BY <1>2
<1>12. view' = [v \in Views |-> q[v].view] /\ task' = [v \in Views |-> q[v].task]
  BY <1>1
<1> QED BY ONLY <1>7, <1>8, <1>10, <1>11, <1>12, RefreshLemma

LEMMA RotateStep == ASSUME ViewsInv, Rotate PROVE ViewsInv'
<1> DEFINE throws == RefreshThrows(OwnScale, FALSE)
           t == IF throws THEN manager.timer ELSE FALSE
<1>1. /\ PutAll(Reached(OwnScale, FALSE), LAMBDA w : Update(w, w.view.scale, FALSE))
      /\ UNCHANGED <<opened, waiting>>
      /\ throws => manager' = [manager EXCEPT !.thrown = TRUE, !.updates = @ + 1]
      /\ ~throws => manager' = [manager EXCEPT !.timer = FALSE, !.updates = @ + 1]
  BY DEF Rotate
<1>2. manager' = [manager EXCEPT !.scale = manager.scale, !.timer = t, !.updates = manager.updates + 1,
                    !.thrown = IF RefreshThrows(OwnScale, FALSE) THEN TRUE ELSE manager.thrown]
  <2> HIDE DEF throws
  <2>1. manager' = [manager EXCEPT !.scale = manager.scale, !.timer = t, !.updates = manager.updates + 1,
                      !.thrown = IF throws THEN TRUE ELSE manager.thrown]
    BY <1>1 DEF ViewsInv, ManagerOK
  <2> QED BY <2>1 DEF throws
<1>3. t \in BOOLEAN
  BY DEF ViewsInv, ManagerOK
<1> QED BY <1>1, <1>2, <1>3, OwnRefreshLemma

LEMMA ScaleTimeoutStep == ASSUME ViewsInv, ScaleTimeout PROVE ViewsInv'
<1> DEFINE throws == RefreshThrows(OwnScale, FALSE)
<1>1. /\ PutAll(Reached(OwnScale, FALSE), LAMBDA w : Update(w, w.view.scale, FALSE))
      /\ UNCHANGED <<opened, waiting>>
      /\ throws => manager' = [manager EXCEPT !.timer = FALSE, !.thrown = TRUE]
      /\ ~throws => manager' = [manager EXCEPT !.timer = FALSE]
  BY DEF ScaleTimeout
<1>2. manager' = [manager EXCEPT !.scale = manager.scale, !.timer = FALSE, !.updates = manager.updates,
                    !.thrown = IF RefreshThrows(OwnScale, FALSE) THEN TRUE ELSE manager.thrown]
  <2> HIDE DEF throws
  <2>1. manager' = [manager EXCEPT !.scale = manager.scale, !.timer = FALSE, !.updates = manager.updates,
                      !.thrown = IF throws THEN TRUE ELSE manager.thrown]
    BY <1>1 DEF ViewsInv, ManagerOK
  <2> QED BY <2>1 DEF throws
<1> QED BY <1>1, <1>2, OwnRefreshLemma

LEMMA CleanupStep == ASSUME ViewsInv, Cleanup PROVE ViewsInv'
<1>1. PICK q : /\ q = [v \in Views |-> IF v \in Shown THEN CleanupResets(Of(v)) ELSE Of(v)]
               /\ view' = [v \in Views |-> q[v].view] /\ task' = [v \in Views |-> q[v].task]
  BY DEF Cleanup, PutAll
<1>2. UNCHANGED <<opened, waiting>> /\ manager' = [manager EXCEPT !.updates = @ + 1]
  BY DEF Cleanup
<1>3. /\ ManagerOK' /\ manager'.pages = manager.pages /\ manager'.scale = manager.scale
      /\ manager'.timer = manager.timer /\ manager'.thrown = manager.thrown
  <2>1. manager' = [document |-> manager.document, pages |-> manager.pages, scale |-> manager.scale,
                    timer |-> manager.timer, arranged |-> manager.arranged, loaded |-> manager.loaded,
                    left |-> manager.left, updates |-> manager.updates + 1, thrown |-> manager.thrown]
    BY <1>2 DEF ViewsInv, ManagerOK
  <2> QED BY <2>1 DEF ViewsInv, ManagerOK
<1>4. \A v \in Shown : /\ ViewOK(q[v]) /\ q[v].view.draws = view[v].draws
                       /\ ShownOK(q[v], manager'.scale, manager'.timer, manager'.thrown)
  <2> TAKE v \in Shown
  <2>1. v \in Views /\ ViewOK(Of(v)) /\ ShownOK(Of(v), manager.scale, manager.timer, manager.thrown)
    BY ShownAreViews DEF ViewsInv, AllViewsOK, AllShownOK
  <2>2. q[v] = CleanupResets(Of(v))
    BY <1>1, <2>1
  <2>3. CASE Of(v).view.state = "FINISHED"
    BY <1>3, <2>1, <2>2, <2>3 DEF CleanupResets, Of
  <2>4. CASE Of(v).view.state # "FINISHED"
    <3>1. q[v] = Reset(Of(v), FALSE)
      BY <2>2, <2>4 DEF CleanupResets
    <3>2. ViewOK(q[v]) /\ KeepsView(q[v], Of(v)) /\ q[v].view.state = "INITIAL"
      BY <2>1, <3>1, ResetLemma
    <3> QED BY <1>3, <2>1, <3>2 DEF KeepsView, ShownOK, Of
  <2> QED BY <2>3, <2>4
<1>5. \A v \in Views \ Shown : q[v] = Of(v)
  BY <1>1
<1> QED BY <1>1, <1>2, <1>3, <1>4, <1>5, AllViewsStep

-----------------------------------------------------------------------------
(* Render tasks.                                                           *)

LEMMA ContinueStep == ASSUME ViewsInv, NEW v \in Views, Continue(v) PROVE ViewsInv'
<1> DEFINE w == [view |-> [view[v] EXCEPT !.hidden = FALSE], task |-> task[v]]
<1>1. ViewOK(Of(v)) /\ view[v] \in ViewRecords /\ task[v] \in [Draws -> TaskStates]
  BY DEF ViewsInv, AllViewsOK
<1>2. w.view = [view[v] EXCEPT !.hidden = FALSE] /\ w.task = task[v] /\ w = [view |-> w.view, task |-> w.task]
  OBVIOUS
<1>3. /\ UNCHANGED <<opened, manager>> /\ waiting' \subseteq waiting
      /\ view' = [view EXCEPT ![v].hidden = FALSE] /\ task' = task
  BY DEF Continue
<1>4. Put(v, w)
  <2>1. view' = [view EXCEPT ![v] = w.view] /\ task' = [task EXCEPT ![v] = w.task]
    BY <1>2, <1>3 DEF ViewsInv, AllViewsOK
  <2> HIDE DEF w
  <2> QED BY <2>1 DEF Put
<1> HIDE DEF w
<1>5. /\ w.view \in ViewRecords /\ w.view.draws = view[v].draws /\ w.view.task = view[v].task
      /\ w.view.canvas = view[v].canvas /\ w.view.state = view[v].state /\ w.view.scale = view[v].scale
      /\ w.view.error = view[v].error /\ w.view.pdfPage = view[v].pdfPage /\ w.view.hidden = FALSE
  BY <1>1, <1>2 DEF ViewRecords
<1>6. ViewOK(w)
  <2>1. /\ \A k \in Draws : w.task[k] # "none" <=> k <= w.view.draws
        /\ \A k \in Draws : w.task[k] = "pending" <=> k = w.view.task
        /\ w.view.task # None => w.view.canvas = w.view.task /\ w.view.state = "RUNNING"
    BY <1>1, <1>2, <1>5 DEF ViewOK, Of
  <2> QED BY <1>1, <1>2, <1>5, <2>1 DEF ViewOK
<1>7. v \in Shown => ShownOK(w, manager.scale, manager.timer, manager.thrown)
  <2> SUFFICES ASSUME v \in Shown PROVE ShownOK(w, manager.scale, manager.timer, manager.thrown)
    OBVIOUS
  <2>1. ShownOK(Of(v), manager.scale, manager.timer, manager.thrown)
    BY DEF ViewsInv, AllShownOK
  <2> QED BY <2>1, <1>2, <1>5 DEF ShownOK, IsDrawn, Of
<1> QED BY <1>3, <1>4, <1>5, <1>6, <1>7, DrawStep

\* The task that settles is the one of the view, and it draws on the canvas of the view.
LEMMA FinishStep ==
    ASSUME ViewsInv, NEW v \in Views, NEW k \in Draws, NEW outcome \in {"done", "failed"},
           FinishRenderTask(v, k, outcome)
    PROVE  ViewsInv'
<1> DEFINE failed == outcome = "failed"
           w == [view |-> [view[v] EXCEPT !.task = None, !.error = failed, !.state = "FINISHED",
                                          !.hidden = FALSE, !.zoomLayer = None],
                 task |-> [task[v] EXCEPT ![k] = outcome]]
<1>1. ViewOK(Of(v)) /\ view[v] \in ViewRecords /\ task[v] \in [Draws -> TaskStates]
  BY DEF ViewsInv, AllViewsOK
<1>2. /\ w.view = [view[v] EXCEPT !.task = None, !.error = failed, !.state = "FINISHED",
                                          !.hidden = FALSE, !.zoomLayer = None]
      /\ w.task = [task[v] EXCEPT ![k] = outcome] /\ w = [view |-> w.view, task |-> w.task]
  OBVIOUS
<1>3. task[v][k] = "pending" /\ k # None
  BY DEF FinishRenderTask, Draws, None
<1>4. view[v].task = k /\ view[v].canvas = k
  BY <1>1, <1>3 DEF ViewOK, Of
<1>5. /\ UNCHANGED <<opened, manager>> /\ waiting' \subseteq waiting
      /\ task' = [task EXCEPT ![v][k] = outcome]
      /\ view' = [view EXCEPT ![v].task = IF @ = k THEN None ELSE @, ![v].error = (outcome = "failed"),
                            ![v].state = "FINISHED", ![v].hidden = IF view[v].canvas = k THEN FALSE ELSE @,
                            ![v].zoomLayer = None]
  BY DEF FinishRenderTask
<1>6. Put(v, w)
  <2>1. view \in [Views -> ViewRecords] /\ task \in [Views -> [Draws -> TaskStates]]
    BY DEF ViewsInv, AllViewsOK
  <2>2. task' = [task EXCEPT ![v] = w.task]
    BY <1>2, <1>5, <2>1
  <2>3. view' = [view EXCEPT ![v] = w.view]
    BY <1>2, <1>4, <1>5, <2>1
  <2> HIDE DEF w
  <2> QED BY <2>2, <2>3 DEF Put
<1> HIDE DEF w, failed
<1>7. w.view = [pdfPage |-> view[v].pdfPage, state |-> "FINISHED", task |-> None, canvas |-> k, hidden |-> FALSE,
                zoomLayer |-> None, scale |-> view[v].scale, cssFrom |-> view[v].cssFrom, error |-> failed, draws |-> view[v].draws]
  BY <1>1, <1>2, <1>4 DEF ViewRecords
<1>8. w.view \in ViewRecords
  <2>1. failed \in BOOLEAN
    BY DEF failed
  <2> QED BY <1>1, <1>7, <2>1 DEF ViewRecords
<1>9. /\ w.task \in [Draws -> TaskStates]
      /\ \A l \in Draws : w.task[l] = IF l = k THEN outcome ELSE task[v][l]
  BY <1>1, <1>2 DEF TaskStates
<1>10. ViewOK(w)
  <2>1. \A l \in Draws : w.task[l] # "none" <=> l <= w.view.draws
    BY <1>1, <1>3, <1>7, <1>9 DEF ViewOK, Of
  <2>2. \A l \in Draws : w.task[l] = "pending" <=> l = w.view.task
    <3> TAKE l \in Draws
    <3>1. l # None
      BY DEF Draws, None
    <3>2. task[v][l] = "pending" <=> l = k
      BY <1>1, <1>4 DEF ViewOK, Of
    <3> QED BY <3>1, <3>2, <1>7, <1>9
  <2>3. w.view.task = None
    BY <1>7
  <2> QED BY <1>2, <1>8, <1>9, <2>1, <2>2, <2>3 DEF ViewOK
<1>11. v \in Shown => ShownOK(w, manager.scale, manager.timer, manager.thrown)
  <2> SUFFICES ASSUME v \in Shown PROVE ShownOK(w, manager.scale, manager.timer, manager.thrown)
    OBVIOUS
  <2>1. manager.thrown \/ view[v].scale = manager.scale
    BY DEF ViewsInv, AllShownOK, ShownOK, Of
  <2>2. CASE outcome = "failed"
    <3>1. failed = TRUE
      BY <2>2 DEF failed
    <3>2. w.view.error /\ w.view.state = "FINISHED" /\ (manager.thrown \/ w.view.scale = manager.scale)
      BY <1>7, <2>1, <3>1
    <3> QED BY <3>2 DEF ShownOK
  <2>3. CASE outcome = "done"
    <3>1. w.task[k] = "done" /\ w.view.canvas = k /\ ~w.view.hidden
      BY <1>7, <1>9, <2>3
    <3> QED BY <1>3, <1>7, <2>1, <3>1 DEF ShownOK, IsDrawn
  <2> QED BY <2>2, <2>3
<1>12. w.view.draws = view[v].draws
  BY <1>7
<1> QED BY <1>5, <1>6, <1>10, <1>11, <1>12, DrawStep

-----------------------------------------------------------------------------
(* The invariant, and what it says.                                        *)

LEMMA ViewsInitInv == ViewsInit => ViewsInv
<1> SUFFICES ASSUME ViewsInit PROVE ViewsInv
  OBVIOUS
<1>0. 1 \in Scales /\ None = 0
  BY PageViewsAssumption DEF Scales, None
<1>1. OpenedOK
  <2>1. PICK counts \in PageCounts : opened = [d \in Docs |-> [state |-> "none", count |-> counts[d]]]
    BY DEF ViewsInit
  <2>2. \A d \in Docs : counts[d] \in Nat
    BY PageViewsAssumption DEF Docs
  <2>3. opened \in [Docs -> [state : {"none", "opening", "open", "failed"}, count : Nat]]
    BY <2>1, <2>2
  <2>4. \A d \in Docs : opened[d].count = counts[d]
    BY <2>1
  <2> QED BY <2>3, <2>4 DEF OpenedOK
<1>2. ManagerOK /\ manager.pages = None
  <2>1. manager = [document |-> None, pages |-> None, scale |-> 1, timer |-> FALSE,
                   arranged |-> {}, loaded |-> "none", left |-> [d \in Docs |-> 0], updates |-> 0,
                   thrown |-> FALSE]
    BY DEF ViewsInit
  <2>2. ~manager.timer /\ manager.document = None /\ manager.pages = None /\ manager.scale = 1
        /\ manager.timer \in BOOLEAN /\ manager.thrown \in BOOLEAN /\ manager.loaded = "none"
    BY <2>1
  <2> DEFINE left == [d \in Docs |-> 0]
  <2> HIDE DEF left
  <2>3. manager = [document |-> None, pages |-> None, scale |-> 1, timer |-> FALSE,
                   arranged |-> {}, loaded |-> "none", left |-> left, updates |-> 0, thrown |-> FALSE]
    BY <2>1 DEF left
  <2>4. manager = [document |-> manager.document, pages |-> manager.pages, scale |-> manager.scale,
                   timer |-> manager.timer, arranged |-> manager.arranged, loaded |-> manager.loaded,
                   left |-> manager.left, updates |-> manager.updates, thrown |-> manager.thrown]
    BY <2>3
  <2> QED BY <2>2, <2>4, <1>0 DEF ManagerOK
<1>3. AllViewsOK
  <2> DEFINE n == NewView(1)
             t == [k \in Draws |-> "none"]
  <2>1. n = [pdfPage |-> None, state |-> "INITIAL", task |-> None, canvas |-> None, hidden |-> FALSE,
             zoomLayer |-> None, scale |-> 1, cssFrom |-> MaxScale + 1, error |-> FALSE, draws |-> None]
    BY <1>0 DEF NewView
  <2>2. n \in ViewRecords /\ n.draws = None /\ n.task = None
    <3>1. n.draws = None /\ n.task = None
      BY <2>1
    <3>2. n \in ViewRecords
      <4>1. 1 \in Scales /\ MaxScale + 1 \in 1 .. MaxScale + 1
        BY <1>0, PageViewsAssumption
      <4> HIDE DEF n
      <4> QED BY <4>1, <2>1 DEF ViewRecords
    <3> QED BY <3>1, <3>2
  <2>3. t \in [Draws -> TaskStates] /\ \A k \in Draws : t[k] = "none"
    BY DEF TaskStates
  <2>4. view = [v \in Views |-> n] /\ task = [v \in Views |-> t]
    BY DEF ViewsInit
  <2>5. \A k \in Draws : k # None /\ ~(k <= None)
    BY DEF Draws, None
  <2> HIDE DEF n, t
  <2>6. view \in [Views -> ViewRecords] /\ task \in [Views -> [Draws -> TaskStates]]
    BY <2>2, <2>3, <2>4
  <2>7. \A v \in Views : Of(v) = [view |-> n, task |-> t]
    BY <2>4 DEF Of
  <2>8. ViewOK([view |-> n, task |-> t])
    BY <2>2, <2>3, <2>5 DEF ViewOK
  <2> QED BY <2>6, <2>7, <2>8 DEF AllViewsOK
<1>4. NewIsUntouched
  <2>1. \A v \in Views : view[v].draws = 0
    BY DEF ViewsInit, NewView
  <2>2. waiting = {}
    BY DEF ViewsInit
  <2>3. \A d \in Docs : manager.pages # d
    BY <1>2, <1>0 DEF Docs
  <2> QED BY <2>1, <2>2, <2>3 DEF NewIsUntouched
<1>5. FirstOfOpen
  BY DEF ViewsInit, FirstOfOpen
<1>6. AllShownOK
  BY <1>2 DEF AllShownOK, Shown
<1> QED BY <1>1, <1>2, <1>3, <1>4, <1>5, <1>6 DEF ViewsInv

LEMMA ViewsNextInv == ViewsInv /\ ViewsNext => ViewsInv'
<1> SUFFICES ASSUME ViewsInv, ViewsNext PROVE ViewsInv'
  OBVIOUS
<1>1. CASE \E d \in Docs : \/ Open(d) \/ Load(d) \/ LoadFails(d) \/ FirstPage(d) \/ FirstPageFails(d)
                           \/ \E eager \in BOOLEAN : FetchPages(d, eager)
  BY <1>1, OpenStep, LoadStep, LoadFailsStep, FirstPageStep, FirstPageFailsStep, FetchPagesStep
<1>2. CASE \E v \in Views : \/ EagerPage(v) \/ EagerPageFails(v) \/ EnsurePage(v) \/ EnsurePageFails(v)
                            \/ RenderView(v) \/ Continue(v) \/ Settles(v)
  <2>1. PICK v \in Views : \/ EagerPage(v) \/ EagerPageFails(v) \/ EnsurePage(v) \/ EnsurePageFails(v)
                           \/ RenderView(v) \/ Continue(v) \/ Settles(v)
    BY <1>2
  <2>2. CASE Settles(v)
    BY <2>2, FinishStep DEF Settles
  <2> QED BY <2>1, <2>2, EagerPageStep, EagerPageFailsStep, EnsurePageStep, EnsurePageFailsStep,
             RenderViewStep, ContinueStep
<1>3. CASE \E scale \in Scales, postpone \in BOOLEAN : Zoom(scale, postpone)
  BY <1>3, ZoomStep
<1>4. CASE Rotate \/ Cleanup \/ ScaleTimeout
  BY <1>4, RotateStep, CleanupStep, ScaleTimeoutStep
<1> QED BY <1>1, <1>2, <1>3, <1>4 DEF ViewsNext

LEMMA ViewsUnchanged == ViewsInv /\ UNCHANGED viewVars => ViewsInv'
<1> SUFFICES ASSUME ViewsInv, UNCHANGED viewVars PROVE ViewsInv'
  OBVIOUS
<1>1. UNCHANGED <<opened, manager, view, task, waiting>>
  BY DEF viewVars
<1>2. ManagerOK' /\ AsksNoMore
  BY <1>1, ManagerIsOne, ManagerKept DEF ViewsInv, AsksNoMore
<1> QED BY <1>1, <1>2, NoViewStep

\* While the part is the viewer's, it has its invariant.
UseViewsInv == part = "views" => ViewsInv

LEMMA UseViewsInvariant == UseSpec => []UseViewsInv
<1>1. UseInit => UseViewsInv
  BY ViewsInitInv DEF UseInit, UseViewsInv
<1>2. UseViewsInv /\ [UseNext]_useVars => UseViewsInv'
  <2> SUFFICES ASSUME UseViewsInv, [UseNext]_useVars, part' = "views" PROVE ViewsInv'
    BY DEF UseViewsInv
  <2>1. CASE UNCHANGED useVars
    BY <2>1, ViewsUnchanged DEF useVars, UseViewsInv
  <2>2. CASE ViewsStep
    BY <2>2, ViewsNextInv DEF ViewsStep, UseViewsInv
  <2>3. CASE DecodersStep \/ ParserStep \/ FunctionsStep \/ DrawingStep \/ EditorsStep \/ SavingStep
    BY <2>3 DEF DecodersStep, ParserStep, FunctionsStep, DrawingStep, EditorsStep, SavingStep
  <2> QED BY <2>1, <2>2, <2>3 DEF UseNext
<1> QED BY <1>1, <1>2, PTL DEF UseSpec

\* A view has at most one render task that runs, and is marked as running exactly as long
\* (PDFPageView.draw, cancelRendering, reset, update).
THEOREM ViewsRenderOnceAlways == UseSpec => []ViewsRenderOnce
<1>1. UseViewsInv => ViewsRenderOnce
  <2> SUFFICES ASSUME ViewsInv PROVE OneRenderPerView
    BY DEF UseViewsInv, ViewsRenderOnce
  <2>1. ViewsTypeOK
    <3>1. \A d \in Docs : opened[d].state \in {"none", "opening", "open", "failed"}
      BY DEF ViewsInv, OpenedOK
    <3>2. /\ manager.document \in {None} \cup Docs
          /\ manager.loaded \in {"none", "pending", "resolved", "rejected"}
      BY DEF ViewsInv, ManagerOK
    <3>3. \A v \in Views :
            /\ view[v].pdfPage \in {None} \cup Docs /\ view[v].scale \in Scales
            /\ view[v].cssFrom \in 1 .. MaxScale + 1
            /\ view[v].state \in {"INITIAL", "RUNNING", "FINISHED"}
            /\ {view[v].task, view[v].canvas, view[v].zoomLayer} \subseteq {None} \cup Draws
      <4> TAKE v \in Views
      <4>1. view[v] \in ViewRecords
        BY DEF ViewsInv, AllViewsOK
      <4> QED BY <4>1 DEF ViewRecords
    <3>4. task \in [Views -> [Draws -> {"none", "pending", "done", "failed", "cancelled"}]]
      BY DEF ViewsInv, AllViewsOK, TaskStates
    <3> QED BY <3>1, <3>2, <3>3, <3>4 DEF ViewsTypeOK
  <2>2. \A v \in Views : /\ \A k \in Draws : task[v][k] = "pending" <=> k = view[v].task
                         /\ view[v].task # None => view[v].state = "RUNNING"
                         /\ view[v].task \in {None} \cup Draws
    BY DEF ViewsInv, AllViewsOK, ViewOK, Of, ViewRecords
  <2>3. \A v \in Views : Pending(v) \subseteq {view[v].task}
    BY <2>2 DEF Pending
  <2>4. \A v \in Shown : view[v].state = "RUNNING" <=> Pending(v) # {}
    <3> TAKE v \in Shown
    <3>1. v \in Views
      BY ShownAreViews DEF ViewsInv
    <3>2. view[v].state = "RUNNING" => view[v].task # None
      BY DEF ViewsInv, AllShownOK, ShownOK, Of
    <3>3. view[v].task # None <=> Pending(v) # {}
      BY <2>2, <3>1 DEF Pending, Draws, None
    <3> QED BY <2>2, <3>1, <3>2, <3>3
  <2> QED BY <2>1, <2>3, <2>4 DEF OneRenderPerView
<1> QED BY <1>1, UseViewsInvariant, PTL

\* A finished view shows its page, has reported an error, or waits for the timer (update()),
\* unless a refresh of the views has thrown.
THEOREM ViewsFinishAlways == UseSpec => []ViewsFinish
<1>1. UseViewsInv => ViewsFinish
  <2> SUFFICES ASSUME ViewsInv, NEW v \in Shown, view[v].state = "FINISHED"
               PROVE  \/ manager.thrown
                      \/ manager.timer \/ view[v].error \/ view[v].pdfPage = None
                      \/ view[v].canvas # None /\ task[v][view[v].canvas] = "done" /\ ~view[v].hidden
    BY DEF UseViewsInv, ViewsFinish, FinishedIsDrawn
  <2>1. ShownOK(Of(v), manager.scale, manager.timer, manager.thrown)
    BY DEF ViewsInv, AllShownOK
  <2> QED BY <2>1 DEF ShownOK, IsDrawn, Of
<1> QED BY <1>1, UseViewsInvariant, PTL

\* The views shown are those of the document that was set last (setDocument()), at its scale
\* unless a refresh of them has thrown.
THEOREM ViewsAgreeAlways == UseSpec => []ViewsAgree
<1>1. UseViewsInv => ViewsAgree
  <2> SUFFICES ASSUME ViewsInv PROVE ViewsOfOneDocument
    BY DEF UseViewsInv, ViewsAgree
  <2>1. manager.pages \in {None, manager.document}
    BY DEF ViewsInv, ManagerOK
  <2>2. manager.thrown \/ \A v \in Shown : view[v].scale = manager.scale
    BY DEF ViewsInv, AllShownOK, ShownOK, Of
  <2> QED BY <2>1, <2>2 DEF ViewsOfOneDocument, ViewsAtScale
<1> QED BY <1>1, UseViewsInvariant, PTL
==============================================================================
