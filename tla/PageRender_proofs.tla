--------------------------- MODULE PageRender_proofs ---------------------------
(***************************************************************************)
(* What holds of the render tasks of a page, for any number of tasks,      *)
(* intents and operator lists, whatever is cancelled, cleaned up, aborted  *)
(* or fails: a task that has not settled is fed, one that is done has been *)
(* drawn, and a page that is destroyed is quiet.                           *)
(*                                                                         *)
(* The invariant has one part for each piece of state: what the page keeps *)
(* for tasks that live (PageInv), where a task can be (TaskInv), whose the *)
(* canvases are (CanvasInv), what the worker has sent (StreamInv) and what *)
(* has been drawn of it (DrawnInv).                                        *)
(***************************************************************************)
EXTENDS PageRender, WellFoundedInduction, TLAPS

IntentStates ==
    [reader : {"none", "open", "cancelled"}, timer : BOOLEAN,
     ready : {"pending", "resolved", "rejected"}, chunks : 0 .. NumChunks, last : BOOLEAN,
     tasks : SUBSET Tasks]

PageRecords ==
    [intentStates : [Intents -> {None} \cup Evals], state : [Evals -> IntentStates],
     objs : SUBSET Objects, waits : [Tasks -> Objects \cup {NotWaiting, Forgotten}],
     evals : 0 .. MaxEvals, pendingCleanup : BOOLEAN, delayed : BOOLEAN, large : BOOLEAN,
     destroyed : BOOLEAN]

TaskRecords ==
    [promise : {"none", "pending", "done", "failed", "cancelled"}, eval : {None} \cup Evals,
     canvas : {None} \cup Canvases, init : BOOLEAN, graphics : BOOLEAN, running : BOOLEAN,
     cancelled : BOOLEAN, scheduled : BOOLEAN, idx : 0 .. Len(AllOps)]

WorkerRecords ==
    [intent : {None} \cup Intents, failed : BOOLEAN, started : BOOLEAN, sent : 0 .. NumChunks,
     objs : SUBSET Images]

RenderTypes ==
    /\ ListFits(list) /\ page \in PageRecords /\ task \in [Tasks -> TaskRecords]
    /\ worker \in [Evals -> WorkerRecords] /\ inUse \subseteq Canvases

LiveTasks == {t \in Tasks : Live(t)}

\* A task that lives is known to the intent state that the messages of its list find.
Fed(p, live, tk, w) ==
    \A t \in live :
        /\ tk[t].eval \in Evals /\ w[tk[t].eval].intent \in Intents
        /\ p.intentStates[w[tk[t].eval].intent] = tk[t].eval
        /\ t \in p.state[tk[t].eval].tasks

\* A state that a render would find gets the rest of its list, or has it.
On(p) ==
    ~p.destroyed => \A i \in Intents : p.intentStates[i] # None =>
                        \/ p.state[p.intentStates[i]].reader = "open"
                        \/ p.state[p.intentStates[i]].last

\* Only tasks that live are known to intent states, or wait for objects; a state about to be
\* aborted has none.
OnlyLive(p, live, tk) ==
    /\ \A e \in Evals : /\ p.state[e].timer => p.state[e].tasks = {}
                        /\ \A t \in p.state[e].tasks : t \in live /\ tk[t].eval = e
    /\ \A t \in Tasks : p.waits[t] # NotWaiting =>
                            p.waits[t] # Forgotten /\ t \in live /\ tk[t].graphics

\* The page has every object that a list has brought while its state is registered.
Stored(p, w) ==
    /\ \A e \in Evals : \A d \in Images : <<e, d>> \in p.objs => d \in w[e].objs
    /\ ~p.destroyed => \A i \in Intents : \A d \in Images :
                          p.intentStates[i] # None /\ d \in w[p.intentStates[i]].objs
                              => <<p.intentStates[i], d>> \in p.objs

\* A list that has not been requested has brought nothing.
Unused(p, w) ==
    /\ \A i \in Intents : p.intentStates[i] <= p.evals
    /\ \A e \in Evals : p.evals < e => /\ ~p.state[e].timer /\ ~w[e].started
                                       /\ w[e].objs = {} /\ w[e].intent = None

IfDestroyed(p, live) == p.destroyed => live = {} /\ p.objs = {} /\ ~p.delayed

PageInv(p, live, tk, w) ==
    /\ Fed(p, live, tk, w) /\ OnlyLive(p, live, tk) /\ On(p) /\ Stored(p, w) /\ Unused(p, w)
    /\ IfDestroyed(p, live)

TaskAt(t) ==
    /\ task[t].promise = "none" => /\ ~task[t].init /\ ~task[t].graphics
                                   /\ ~task[t].scheduled /\ task[t].idx = 0
    /\ task[t].promise # "none" => task[t].eval \in Evals /\ task[t].eval <= page.evals
                                   /\ task[t].canvas \in Canvases
    /\ task[t].init => ~task[t].graphics /\ (~task[t].cancelled /\ ~page.destroyed => Live(t))
    /\ task[t].scheduled => Live(t) /\ task[t].graphics

TaskInv == \A t \in Tasks : TaskAt(t)

CanvasInv == \A c \in inUse : \E t \in Tasks : Drawing(t) /\ task[t].canvas = c

StreamInv ==
    \A e \in Evals :
        /\ page.state[e].chunks <= worker[e].sent
        /\ page.state[e].last => page.state[e].chunks = NumChunks \/ worker[e].failed

\* What a task has passed has arrived; and one that is done has passed everything.
DrawnAt(t) ==
    task[t].promise # "none" =>
        /\ \A i \in 1 .. task[t].idx :
              AllOps[i].fn = "dependency" => AllOps[i].arg \in worker[task[t].eval].objs
        /\ task[t].promise = "done" =>
              /\ task[t].idx = Len(Received(page.state[task[t].eval].chunks))
              /\ page.state[task[t].eval].chunks = NumChunks \/ worker[task[t].eval].failed

DrawnInv == \A t \in Tasks : DrawnAt(t)

RenderInv ==
    /\ RenderTypes /\ PageInv(page, LiveTasks, task, worker)
    /\ TaskInv /\ CanvasInv /\ StreamInv /\ DrawnInv

-----------------------------------------------------------------------------
(* The operations on the page's record keep what it owes to live tasks.    *)

\* What these operations leave as it is.
Same(p, q) ==
    /\ q.evals = p.evals /\ q.destroyed = p.destroyed
    /\ \A e \in Evals : /\ q.state[e].chunks = p.state[e].chunks
                        /\ q.state[e].last = p.state[e].last

\* q is a page record that keeps what p keeps.
Kept(p, q, live, tk, w) == q \in PageRecords /\ PageInv(q, live, tk, w) /\ Same(p, q)

LEMMA KeptIsTransitive ==
    ASSUME NEW p, NEW q, NEW r, NEW live, NEW tk, NEW w,
           Kept(p, q, live, tk, w), Kept(q, r, live, tk, w)
    PROVE  Kept(p, r, live, tk, w)
BY DEF Kept, Same

\* The flags that put a clean-up off say nothing of tasks.
LEMMA PutOffKeeps ==
    ASSUME NEW p \in PageRecords, NEW live, NEW tk, NEW w, PageInv(p, live, tk, w),
           NEW b \in BOOLEAN, NEW d \in BOOLEAN, d => ~p.destroyed,
           NEW q, q = [p EXCEPT !.pendingCleanup = b, !.delayed = d]
    PROVE  Kept(p, q, live, tk, w)
<1>1. q \in PageRecords
  BY DEF PageRecords
<1>2. /\ q.intentStates = p.intentStates /\ q.state = p.state /\ q.objs = p.objs
      /\ q.waits = p.waits /\ q.evals = p.evals /\ q.destroyed = p.destroyed /\ q.delayed = d
  BY DEF PageRecords
<1>3. Fed(q, live, tk, w) /\ OnlyLive(q, live, tk) /\ On(q)
  BY <1>2 DEF PageInv, Fed, OnlyLive, On
<1>4. Stored(q, w) /\ Unused(q, w) /\ IfDestroyed(q, live)
  BY <1>2 DEF PageInv, Stored, Unused, IfDestroyed
<1> QED
  BY <1>1, <1>2, <1>3, <1>4 DEF Kept, PageInv, Same

\* A page that is not busy has no task that lives.
LEMMA LiveMakesBusy ==
    ASSUME NEW p \in PageRecords, NEW live, NEW tk, NEW w, PageInv(p, live, tk, w), ~Busy(p)
    PROVE  live = {}
<1> SUFFICES ASSUME NEW t \in live PROVE FALSE
  OBVIOUS
<1> DEFINE e == tk[t].eval
<1>1. /\ e \in Evals /\ w[e].intent \in Intents /\ p.intentStates[w[e].intent] = e
      /\ t \in p.state[e].tasks
  BY DEF PageInv, Fed
<1>2. e # None
  BY <1>1 DEF Evals, None
<1>3. e \in Registered(p)
  BY <1>1, <1>2 DEF Registered
<1> QED
  BY <1>1, <1>3 DEF Busy

LEMMA ClearedKeeps ==
    ASSUME NEW p \in PageRecords, NEW live, NEW tk, NEW w, PageInv(p, live, tk, w), ~Busy(p),
           NEW b \in BOOLEAN, NEW q,
           q = [ObjsCleared([p EXCEPT !.delayed = FALSE])
                   EXCEPT !.intentStates = [i \in Intents |-> None], !.pendingCleanup = b]
    PROVE  Kept(p, q, live, tk, w)
<1>1. live = {}
  BY LiveMakesBusy
<1>2. \A t \in Tasks : p.waits[t] = NotWaiting
  BY <1>1 DEF PageInv, OnlyLive
<1> DEFINE ws == [t \in Tasks |-> IF p.waits[t] = NotWaiting THEN NotWaiting ELSE Forgotten]
           is == [i \in Intents |-> None]
<1>3. ws \in [Tasks -> Objects \cup {NotWaiting, Forgotten}] /\ is \in [Intents -> {None} \cup Evals]
      /\ {} \in SUBSET Objects
  OBVIOUS
<1>4. q = [p EXCEPT !.delayed = FALSE, !.objs = {}, !.waits = ws, !.intentStates = is,
                    !.pendingCleanup = b]
  BY DEF ObjsCleared, PageRecords
<1>w. \A t \in Tasks : ws[t] = NotWaiting
  BY <1>2
<1>i. \A i \in Intents : is[i] = None
  OBVIOUS
<1> HIDE DEF ws, is
<1>5. q \in PageRecords
  BY <1>3, <1>4 DEF PageRecords
<1>6. /\ q.intentStates = is /\ q.state = p.state /\ q.objs = {} /\ q.waits = ws
      /\ q.evals = p.evals /\ q.destroyed = p.destroyed /\ q.delayed = FALSE
  BY <1>4 DEF PageRecords
<1>7. Fed(q, live, tk, w) /\ On(q)
  BY <1>1, <1>6, <1>i DEF Fed, On
<1>8. OnlyLive(q, live, tk)
  BY <1>6, <1>w DEF PageInv, OnlyLive
<1>9. Stored(q, w) /\ IfDestroyed(q, live)
  BY <1>1, <1>6, <1>i DEF Stored, IfDestroyed
<1>10. None <= p.evals
  BY DEF PageRecords, None
<1>11. Unused(q, w)
  BY <1>6, <1>i, <1>10 DEF PageInv, Unused
<1> QED
  BY <1>5, <1>6, <1>7, <1>8, <1>9, <1>11 DEF Kept, PageInv, Same

LEMMA TryCleanupKeeps ==
    ASSUME NEW p \in PageRecords, NEW live, NEW tk, NEW w, PageInv(p, live, tk, w),
           NEW later \in BOOLEAN
    PROVE  Kept(p, TryCleanup(p, later), live, tk, w)
<1> DEFINE q == TryCleanup(p, later)
<1>0. p.pendingCleanup \in BOOLEAN /\ p = [p EXCEPT !.pendingCleanup = p.pendingCleanup]
  BY DEF PageRecords
<1>1. CASE ~p.pendingCleanup \/ p.destroyed
  <2>1. q = [p EXCEPT !.pendingCleanup = p.pendingCleanup, !.delayed = FALSE]
    BY <1>1 DEF TryCleanup, PageRecords
  <2> QED
    BY <1>0, <2>1, PutOffKeeps
<1>2. CASE ~(~p.pendingCleanup \/ p.destroyed) /\ later
  <2>1. q = [p EXCEPT !.pendingCleanup = p.pendingCleanup, !.delayed = TRUE]
    BY <1>2 DEF TryCleanup, PageRecords
  <2> QED
    BY <1>0, <1>2, <2>1, PutOffKeeps
<1>3. CASE ~(~p.pendingCleanup \/ p.destroyed) /\ ~later /\ Busy(p)
  <2>1. q = [p EXCEPT !.pendingCleanup = p.pendingCleanup, !.delayed = FALSE]
    BY <1>3 DEF TryCleanup, PageRecords
  <2> QED
    BY <1>0, <2>1, PutOffKeeps
<1>4. CASE ~(~p.pendingCleanup \/ p.destroyed) /\ ~later /\ ~Busy(p)
  <2>1. q = [ObjsCleared([p EXCEPT !.delayed = FALSE])
                EXCEPT !.intentStates = [i \in Intents |-> None], !.pendingCleanup = FALSE]
    BY <1>4 DEF TryCleanup
  <2> QED
    BY <1>4, <2>1, ClearedKeeps
<1> QED
  BY <1>1, <1>2, <1>3, <1>4

LEMMA CleanupKeeps ==
    ASSUME NEW p \in PageRecords, NEW live, NEW tk, NEW w, PageInv(p, live, tk, w)
    PROVE  Kept(p, Cleanup(p), live, tk, w)
<1> DEFINE q == [p EXCEPT !.pendingCleanup = TRUE]
<1>1. q = [p EXCEPT !.pendingCleanup = TRUE, !.delayed = p.delayed]
  BY DEF PageRecords
<1>2. p.delayed \in BOOLEAN /\ (p.delayed => ~p.destroyed)
  BY DEF PageInv, IfDestroyed, PageRecords
<1>3. Kept(p, q, live, tk, w)
  BY <1>1, <1>2, PutOffKeeps
<1> HIDE DEF q
<1>4. Kept(q, TryCleanup(q, FALSE), live, tk, w)
  BY <1>3, TryCleanupKeeps DEF Kept
<1>5. Cleanup(p) = TryCleanup(q, FALSE)
  BY DEF Cleanup, q
<1> QED
  BY <1>3, <1>4, <1>5, KeptIsTransitive

\* A state that no task needs can change its reader, and be forgotten.
LEMMA UnneededStateKeeps ==
    ASSUME NEW p \in PageRecords, NEW live, NEW tk, NEW w, PageInv(p, live, tk, w),
           NEW e \in Evals, p.state[e].tasks = {}, NEW s \in IntentStates,
           s.tasks = {}, s.chunks = p.state[e].chunks, s.last = p.state[e].last,
           s.timer => p.state[e].timer \/ s.reader = "open",
           p.evals < e => ~s.timer,
           NEW f \in [Intents -> {None} \cup Evals],
           \A i \in Intents : f[i] = p.intentStates[i] \/ (f[i] = None /\ p.intentStates[i] = e),
           p.destroyed \/ s.reader = p.state[e].reader \/ \A i \in Intents : f[i] # e,
           NEW q, q = [p EXCEPT !.state = [p.state EXCEPT ![e] = s], !.intentStates = f]
    PROVE  Kept(p, q, live, tk, w)
<1> DEFINE st == [p.state EXCEPT ![e] = s]
<1>1. /\ st \in [Evals -> IntentStates] /\ st[e] = s
      /\ \A x \in Evals : x # e => st[x] = p.state[x]
  BY DEF PageRecords
<1>1a. q = [p EXCEPT !.state = st, !.intentStates = f]
  OBVIOUS
<1> HIDE DEF st
<1>2. q \in PageRecords
  BY <1>1, <1>1a DEF PageRecords
<1>3. /\ q.state = st /\ q.intentStates = f /\ q.objs = p.objs /\ q.waits = p.waits
      /\ q.evals = p.evals /\ q.destroyed = p.destroyed /\ q.delayed = p.delayed
  BY <1>1a DEF PageRecords
<1>4. Fed(q, live, tk, w)
  <2> SUFFICES ASSUME NEW t \in live
               PROVE  /\ tk[t].eval \in Evals /\ w[tk[t].eval].intent \in Intents
                      /\ q.intentStates[w[tk[t].eval].intent] = tk[t].eval
                      /\ t \in q.state[tk[t].eval].tasks
    BY DEF Fed
  <2>1. /\ tk[t].eval \in Evals /\ w[tk[t].eval].intent \in Intents
        /\ p.intentStates[w[tk[t].eval].intent] = tk[t].eval
        /\ t \in p.state[tk[t].eval].tasks
    BY DEF PageInv, Fed
  <2>2. tk[t].eval # e
    BY <2>1
  <2> QED
    BY <1>1, <1>3, <2>1, <2>2
<1>5. OnlyLive(q, live, tk)
  <2>1. \A x \in Evals : /\ p.state[x].timer => p.state[x].tasks = {}
                         /\ \A t \in p.state[x].tasks : t \in live /\ tk[t].eval = x
    BY DEF PageInv, OnlyLive
  <2>2. \A x \in Evals : /\ st[x].timer => st[x].tasks = {}
                         /\ \A t \in st[x].tasks : t \in live /\ tk[t].eval = x
    BY <1>1, <2>1
  <2> QED
    BY <1>3, <2>2 DEF PageInv, OnlyLive
<1>6. On(q)
  <2> SUFFICES ASSUME ~p.destroyed, NEW i \in Intents, f[i] # None
               PROVE  st[f[i]].reader = "open" \/ st[f[i]].last
    BY <1>3 DEF On
  <2>1. f[i] = p.intentStates[i]
    OBVIOUS
  <2>2. f[i] \in Evals
    OBVIOUS
  <2>3. p.state[f[i]].reader = "open" \/ p.state[f[i]].last
    BY <2>1 DEF PageInv, On
  <2>4. CASE f[i] = e
    BY <1>1, <2>2, <2>3, <2>4
  <2>5. CASE f[i] # e
    BY <1>1, <2>2, <2>3, <2>5
  <2> QED
    BY <2>4, <2>5
<1>7. Stored(q, w)
  BY <1>3 DEF PageInv, Stored
<1>8. Unused(q, w)
  <2>1. \A i \in Intents : f[i] <= p.evals
    BY DEF PageInv, Unused, PageRecords, None
  <2>2. \A x \in Evals : p.evals < x => /\ ~st[x].timer /\ ~w[x].started
                                        /\ w[x].objs = {} /\ w[x].intent = None
    BY <1>1 DEF PageInv, Unused
  <2> QED
    BY <1>3, <2>1, <2>2 DEF Unused
<1>9. IfDestroyed(q, live)
  BY <1>3 DEF PageInv, IfDestroyed
<1>10. Same(p, q)
  BY <1>1, <1>3 DEF Same
<1> QED
  BY <1>2, <1>4, <1>5, <1>6, <1>7, <1>8, <1>9, <1>10 DEF Kept, PageInv

LEMMA AbortedKeeps ==
    ASSUME NEW p \in PageRecords, NEW live, NEW tk, NEW w, PageInv(p, live, tk, w),
           NEW e \in Evals, p.state[e].tasks = {}
    PROVE  Kept(p, Aborted(p, e), live, tk, w)
<1> DEFINE s == [p.state[e] EXCEPT !.reader = "cancelled", !.timer = FALSE]
           st == [p.state EXCEPT ![e] = s]
           f == [i \in Intents |-> IF p.intentStates[i] = e THEN None ELSE p.intentStates[i]]
<1>0. p.state[e] \in IntentStates /\ p.intentStates \in [Intents -> {None} \cup Evals]
  BY DEF PageRecords
<1>1. /\ s \in IntentStates /\ s.tasks = {} /\ s.chunks = p.state[e].chunks
      /\ s.last = p.state[e].last /\ ~s.timer
  BY <1>0 DEF IntentStates
<1>2. /\ f \in [Intents -> {None} \cup Evals]
      /\ \A i \in Intents : f[i] = p.intentStates[i] \/ (f[i] = None /\ p.intentStates[i] = e)
      /\ \A i \in Intents : f[i] # e
  BY <1>0 DEF Evals, None
<1>3. [p EXCEPT !.state[e].reader = "cancelled", !.state[e].timer = FALSE]
         = [p EXCEPT !.state = st]
  BY DEF PageRecords
<1>4. CASE p.destroyed
  <2>1. Aborted(p, e) = [p EXCEPT !.state = st, !.intentStates = p.intentStates]
    BY <1>3, <1>4 DEF Aborted, PageRecords
  <2> DEFINE is == p.intentStates
  <2>2. /\ is \in [Intents -> {None} \cup Evals]
        /\ \A i \in Intents : is[i] = p.intentStates[i] \/ (is[i] = None /\ p.intentStates[i] = e)
    BY <1>0
  <2>3. Aborted(p, e) = [p EXCEPT !.state = st, !.intentStates = is]
    BY <2>1
  <2>4. /\ s.timer => p.state[e].timer \/ s.reader = "open"
        /\ p.evals < e => ~s.timer
        /\ p.destroyed \/ s.reader = p.state[e].reader \/ \A i \in Intents : is[i] # e
    BY <1>1, <1>4
  <2> HIDE DEF s, f, is
  <2> DEFINE q == [p EXCEPT !.state = st, !.intentStates = is]
  <2>5. Kept(p, q, live, tk, w)
    BY <1>1, <2>2, <2>4, UnneededStateKeeps
  <2> QED
    BY <2>3, <2>5
<1>5. CASE ~p.destroyed
  <2> DEFINE q == [p EXCEPT !.state = st, !.intentStates = f]
  <2>1. Aborted(p, e) = Cleanup(q)
    BY <1>0, <1>3, <1>5 DEF Aborted, PageRecords
  <2> HIDE DEF s, f
  <2>2. Kept(p, q, live, tk, w)
    BY <1>1, <1>2, UnneededStateKeeps
  <2> HIDE DEF q
  <2>3. Kept(q, Cleanup(q), live, tk, w)
    BY <2>2, CleanupKeeps DEF Kept
  <2> QED
    BY <2>1, <2>2, <2>3, KeptIsTransitive
<1> QED
  BY <1>4, <1>5

\* Only the timer of a state changes.
LEMMA TimerKeeps ==
    ASSUME NEW p \in PageRecords, NEW live, NEW tk, NEW w, PageInv(p, live, tk, w),
           NEW e \in Evals, NEW b \in BOOLEAN, b => p.state[e].tasks = {},
           b => p.state[e].reader = "open" /\ e <= p.evals,
           NEW after, after = [p EXCEPT !.state[e].timer = b]
    PROVE  Kept(p, after, live, tk, w)
<1> DEFINE s == [p.state[e] EXCEPT !.timer = b]
           st == [p.state EXCEPT ![e] = s]
           q == [p EXCEPT !.state = st]
<1>0. after = q
  BY DEF PageRecords
<1>1. p.state[e] \in IntentStates /\ p.intentStates \in [Intents -> {None} \cup Evals]
      /\ p.evals \in Nat /\ e \in Nat
  BY RenderAssumption DEF PageRecords, Evals
<1>2. /\ s \in IntentStates /\ s.tasks = p.state[e].tasks /\ s.chunks = p.state[e].chunks
      /\ s.last = p.state[e].last /\ s.timer = b /\ s.reader = p.state[e].reader
  BY <1>1 DEF IntentStates
<1> HIDE DEF s
<1>3. /\ st \in [Evals -> IntentStates] /\ st[e] = s
      /\ \A x \in Evals : x # e => st[x] = p.state[x]
  BY <1>2 DEF PageRecords
<1> HIDE DEF st
<1>4. q \in PageRecords
  BY <1>3 DEF PageRecords
<1>5. /\ q.state = st /\ q.intentStates = p.intentStates /\ q.objs = p.objs /\ q.waits = p.waits
      /\ q.evals = p.evals /\ q.destroyed = p.destroyed /\ q.delayed = p.delayed
  BY DEF PageRecords
<1> HIDE DEF q
<1>5a. \A x \in Evals : /\ st[x].tasks = p.state[x].tasks /\ st[x].chunks = p.state[x].chunks
                        /\ st[x].last = p.state[x].last /\ st[x].reader = p.state[x].reader
                        /\ st[x].timer => p.state[x].timer \/ (x = e /\ b)
  BY <1>2, <1>3
<1>6. Fed(q, live, tk, w)
  BY <1>5, <1>5a DEF PageInv, Fed
<1>7. OnlyLive(q, live, tk)
  BY <1>5, <1>5a DEF PageInv, OnlyLive
<1>8. On(q)
  <2> SUFFICES ASSUME ~p.destroyed, NEW i \in Intents, p.intentStates[i] # None
               PROVE  st[p.intentStates[i]].reader = "open" \/ st[p.intentStates[i]].last
    BY <1>5 DEF On
  <2>1. p.intentStates[i] \in Evals
    BY <1>1
  <2>2. p.state[p.intentStates[i]].reader = "open" \/ p.state[p.intentStates[i]].last
    BY DEF PageInv, On
  <2> QED
    BY <1>5a, <2>1, <2>2
<1>9. Stored(q, w)
  BY <1>5 DEF PageInv, Stored
<1>10. Unused(q, w)
  <2>1. \A x \in Evals : p.evals < x => ~st[x].timer
    BY <1>1, <1>5a DEF PageInv, Unused, Evals
  <2> QED
    BY <1>5, <2>1 DEF PageInv, Unused
<1>11. IfDestroyed(q, live)
  BY <1>5 DEF PageInv, IfDestroyed
<1>12. Same(p, q)
  BY <1>5, <1>5a DEF Same
<1> QED
  BY <1>0, <1>4, <1>6, <1>7, <1>8, <1>9, <1>10, <1>11, <1>12 DEF Kept, PageInv

LEMMA NothingKeeps ==
    ASSUME NEW p \in PageRecords, NEW live, NEW tk, NEW w, PageInv(p, live, tk, w)
    PROVE  Kept(p, p, live, tk, w)
BY DEF Kept, Same

LEMMA AbortOperatorListKeeps ==
    ASSUME NEW p \in PageRecords, NEW live, NEW tk, NEW w, PageInv(p, live, tk, w),
           NEW e \in Evals, e <= p.evals, NEW isCancel \in BOOLEAN
    PROVE  Kept(p, AbortOperatorList(p, e, isCancel), live, tk, w)
<1>1. CASE p.state[e].reader # "open"
  BY <1>1, NothingKeeps DEF AbortOperatorList
<1>2. CASE p.state[e].reader = "open" /\ p.state[e].tasks # {}
  <2>1. AbortOperatorList(p, e, isCancel) = [p EXCEPT !.state[e].timer = FALSE]
    BY <1>2 DEF AbortOperatorList
  <2>2. FALSE \in BOOLEAN
    OBVIOUS
  <2> QED
    BY <2>1, <2>2, TimerKeeps
<1>3. CASE p.state[e].reader = "open" /\ p.state[e].tasks = {} /\ isCancel
  <2>1. AbortOperatorList(p, e, isCancel) = [p EXCEPT !.state[e].timer = TRUE]
    BY <1>3 DEF AbortOperatorList
  <2>2. TRUE \in BOOLEAN
    OBVIOUS
  <2> QED
    BY <1>3, <2>1, <2>2, TimerKeeps
<1>4. CASE p.state[e].reader = "open" /\ p.state[e].tasks = {} /\ ~isCancel
  <2>1. AbortOperatorList(p, e, isCancel) = Aborted(p, e)
    BY <1>4 DEF AbortOperatorList
  <2> QED
    BY <1>4, <2>1, AbortedKeeps
<1> QED
  BY <1>1, <1>2, <1>3, <1>4

-----------------------------------------------------------------------------
(* A task leaves its intent state.                                         *)

LEMMA TaskLeaves ==
    ASSUME NEW p \in PageRecords, NEW live, NEW tk, NEW w, PageInv(p, live, tk, w),
           NEW t \in Tasks, NEW e \in Evals, t \in live => tk[t].eval = e, NEW b \in BOOLEAN,
           NEW q, q = [p EXCEPT !.state[e].tasks = @ \ {t}, !.waits[t] = NotWaiting,
                                !.pendingCleanup = b]
    PROVE  Kept(p, q, live \ {t}, tk, w)
<1> DEFINE s == [p.state[e] EXCEPT !.tasks = p.state[e].tasks \ {t}]
           st == [p.state EXCEPT ![e] = s]
           ws == [p.waits EXCEPT ![t] = NotWaiting]
<1>0. q = [p EXCEPT !.state = st, !.waits = ws, !.pendingCleanup = b]
  BY DEF PageRecords
<1>1. /\ p.state[e] \in IntentStates /\ p.state \in [Evals -> IntentStates]
      /\ p.waits \in [Tasks -> Objects \cup {NotWaiting, Forgotten}]
      /\ p.intentStates \in [Intents -> {None} \cup Evals]
  BY DEF PageRecords
<1>2. /\ s \in IntentStates /\ s.tasks = p.state[e].tasks \ {t} /\ s.chunks = p.state[e].chunks
      /\ s.last = p.state[e].last /\ s.timer = p.state[e].timer /\ s.reader = p.state[e].reader
  BY <1>1 DEF IntentStates
<1> HIDE DEF s
<1>3. /\ st \in [Evals -> IntentStates]
      /\ \A x \in Evals : /\ st[x].tasks = IF x = e THEN p.state[x].tasks \ {t} ELSE p.state[x].tasks
                          /\ st[x].chunks = p.state[x].chunks /\ st[x].last = p.state[x].last
                          /\ st[x].timer = p.state[x].timer /\ st[x].reader = p.state[x].reader
  BY <1>1, <1>2
<1>4. /\ ws \in [Tasks -> Objects \cup {NotWaiting, Forgotten}] /\ ws[t] = NotWaiting
      /\ \A u \in Tasks : u # t => ws[u] = p.waits[u]
  BY <1>1
<1> HIDE DEF st, ws
<1>5. q \in PageRecords
  BY <1>0, <1>3, <1>4 DEF PageRecords
<1>6. /\ q.state = st /\ q.intentStates = p.intentStates /\ q.objs = p.objs /\ q.waits = ws
      /\ q.evals = p.evals /\ q.destroyed = p.destroyed /\ q.delayed = p.delayed
  BY <1>0 DEF PageRecords
<1>7. \A x \in Evals : /\ p.state[x].timer => p.state[x].tasks = {}
                       /\ \A u \in p.state[x].tasks : u \in live /\ tk[u].eval = x
  BY DEF PageInv, OnlyLive
<1>8. Fed(q, live \ {t}, tk, w)
  <2> SUFFICES ASSUME NEW u \in live, u # t
               PROVE  /\ tk[u].eval \in Evals /\ w[tk[u].eval].intent \in Intents
                      /\ p.intentStates[w[tk[u].eval].intent] = tk[u].eval
                      /\ u \in st[tk[u].eval].tasks
    BY <1>6 DEF Fed
  <2>1. /\ tk[u].eval \in Evals /\ w[tk[u].eval].intent \in Intents
        /\ p.intentStates[w[tk[u].eval].intent] = tk[u].eval
        /\ u \in p.state[tk[u].eval].tasks
    BY DEF PageInv, Fed
  <2> QED
    BY <1>3, <2>1
<1>9. OnlyLive(q, live \ {t}, tk)
  <2>1. \A x \in Evals : /\ st[x].timer => st[x].tasks = {}
                         /\ \A u \in st[x].tasks : u \in live \ {t} /\ tk[u].eval = x
    <3> SUFFICES ASSUME NEW x \in Evals
                 PROVE  /\ st[x].timer => st[x].tasks = {}
                        /\ \A u \in st[x].tasks : u \in live \ {t} /\ tk[u].eval = x
      OBVIOUS
    <3>1. CASE x = e
      BY <1>3, <1>7, <3>1
    <3>2. CASE x # e
      <4>1. st[x].tasks = p.state[x].tasks /\ st[x].timer = p.state[x].timer
        BY <1>3, <3>2
      <4>2. t \notin st[x].tasks
        BY <1>7, <3>2, <4>1
      <4> QED
        BY <1>7, <4>1, <4>2
    <3> QED
      BY <3>1, <3>2
  <2>2. \A u \in Tasks : ws[u] # NotWaiting =>
                            ws[u] # Forgotten /\ u \in live \ {t} /\ tk[u].graphics
    BY <1>4 DEF PageInv, OnlyLive
  <2> QED
    BY <1>6, <2>1, <2>2 DEF OnlyLive
<1>10. On(q)
  BY <1>1, <1>3, <1>6 DEF PageInv, On
<1>11. Stored(q, w)
  BY <1>6 DEF PageInv, Stored
<1>12. Unused(q, w)
  BY <1>3, <1>6 DEF PageInv, Unused
<1>13. IfDestroyed(q, live \ {t})
  BY <1>6 DEF PageInv, IfDestroyed
<1>14. Same(p, q)
  BY <1>3, <1>6 DEF Same
<1> QED
  BY <1>5, <1>8, <1>9, <1>10, <1>11, <1>12, <1>13, <1>14 DEF Kept, PageInv

LEMMA CompleteKeeps ==
    ASSUME page \in PageRecords, PageInv(page, LiveTasks, task, worker),
           NEW t \in Tasks, task[t].eval \in Evals, task[t].eval <= page.evals,
           NEW outcome, Complete(t, outcome)
    PROVE  Kept(page, page', LiveTasks \ {t}, task, worker)
<1> DEFINE e == task[t].eval
           print == worker[e].intent \in PrintIntents
           b == page.pendingCleanup \/ page.large \/ print
           live == LiveTasks \ {t}
           q == [page EXCEPT !.state[e].tasks = @ \ {t}, !.waits[t] = NotWaiting,
                             !.pendingCleanup = @ \/ page.large \/ print]
           p == TryCleanup(q, ~print)
<1>1. page' = IF outcome = "done" THEN p ELSE AbortOperatorList(p, e, outcome = "cancelled")
  BY DEF Complete
<1>2. q = [page EXCEPT !.state[e].tasks = @ \ {t}, !.waits[t] = NotWaiting, !.pendingCleanup = b]
  BY DEF PageRecords
<1>3. b \in BOOLEAN /\ (~print) \in BOOLEAN /\ (outcome = "cancelled") \in BOOLEAN
  OBVIOUS
<1>4. Kept(page, q, live, task, worker)
  <2> HIDE DEF b, q
  <2> QED
    BY <1>2, <1>3, TaskLeaves
<1> HIDE DEF q, live
<1>5. Kept(q, p, live, task, worker)
  BY <1>3, <1>4, TryCleanupKeeps DEF Kept
<1>6. Kept(page, p, live, task, worker)
  BY <1>4, <1>5, KeptIsTransitive
<1> HIDE DEF p
<1>7. CASE outcome = "done"
  BY <1>1, <1>6, <1>7 DEF live
<1>8. CASE outcome # "done"
  <2>1. e <= p.evals
    BY <1>6 DEF Kept, Same
  <2>2. Kept(p, AbortOperatorList(p, e, outcome = "cancelled"), live, task, worker)
    BY <1>3, <1>6, <2>1, AbortOperatorListKeeps DEF Kept
  <2> QED
    BY <1>1, <1>6, <1>8, <2>2, KeptIsTransitive DEF live
<1> QED
  BY <1>7, <1>8

\* The record of the page says of a task only which list it draws, and whether it has graphics.
LEMMA TasksMayChange ==
    ASSUME NEW p \in PageRecords, NEW live \in SUBSET Tasks, NEW tk, NEW tk2, NEW w,
           PageInv(p, live, tk, w),
           \A t \in live : tk2[t].eval = tk[t].eval /\ (tk[t].graphics => tk2[t].graphics)
    PROVE  PageInv(p, live, tk2, w)
<1>1. Fed(p, live, tk2, w)
  BY DEF PageInv, Fed
<1>2. OnlyLive(p, live, tk2)
  BY DEF PageInv, OnlyLive
<1> QED
  BY <1>1, <1>2 DEF PageInv

-----------------------------------------------------------------------------
(* What a step that leaves most things alone keeps of the invariant.       *)

LEMMA ListStays ==
    ASSUME UNCHANGED list
    PROVE  /\ NumChunks' = NumChunks /\ AllOps' = AllOps /\ Images' = Images
           /\ Objects' = Objects /\ \A n : Received(n)' = Received(n)
BY DEF NumChunks, AllOps, Images, Objects, Received

LEMMA TypesStay ==
    ASSUME RenderTypes, UNCHANGED list, page' \in PageRecords, task' \in [Tasks -> TaskRecords],
           worker' \in [Evals -> WorkerRecords], inUse' \subseteq Canvases
    PROVE  RenderTypes'
<1>1. IntentStates' = IntentStates
  BY ListStays DEF IntentStates
<1>2. PageRecords' = PageRecords
  BY ListStays, <1>1 DEF PageRecords
<1>3. TaskRecords' = TaskRecords
  BY ListStays DEF TaskRecords
<1>4. WorkerRecords' = WorkerRecords
  BY ListStays DEF WorkerRecords
<1> QED
  BY <1>2, <1>3, <1>4 DEF RenderTypes

LEMMA PageStays ==
    ASSUME UNCHANGED list, PageInv(page', LiveTasks', task', worker')
    PROVE  PageInv(page, LiveTasks, task, worker)'
<1>1. Images' = Images
  BY ListStays
<1>2. Fed(page, LiveTasks, task, worker)' /\ OnlyLive(page, LiveTasks, task)'
  BY DEF PageInv, Fed, OnlyLive
<1>3. On(page)' /\ Unused(page, worker)' /\ IfDestroyed(page, LiveTasks)'
  BY DEF PageInv, On, Unused, IfDestroyed
<1>4. Stored(page, worker)'
  BY <1>1 DEF PageInv, Stored
<1> QED
  BY <1>2, <1>3, <1>4 DEF PageInv

LEMMA StreamStays ==
    ASSUME StreamInv, UNCHANGED <<list, worker>>, Same(page, page')
    PROVE  StreamInv'
BY ListStays DEF StreamInv, Same

LEMMA TaskStays ==
    ASSUME NEW t \in Tasks, TaskAt(t), task'[t] = task[t],
           page'.evals = page.evals, page'.destroyed = page.destroyed
    PROVE  TaskAt(t)'
BY DEF TaskAt, Live

LEMMA DrawnStays ==
    ASSUME NEW t \in Tasks, TaskAt(t), DrawnAt(t), task'[t] = task[t], UNCHANGED <<list, worker>>,
           Same(page, page')
    PROVE  DrawnAt(t)'
<1> SUFFICES ASSUME task[t].promise # "none" PROVE DrawnAt(t)'
  BY DEF DrawnAt
<1>1. task[t].eval \in Evals
  BY DEF TaskAt
<1>2. page'.state[task[t].eval].chunks = page.state[task[t].eval].chunks
  BY <1>1 DEF Same
<1> QED
  BY <1>2, ListStays DEF DrawnAt

LEMMA PageOnlyStep ==
    ASSUME RenderInv, UNCHANGED <<list, task, worker, inUse>>,
           Kept(page, page', LiveTasks, task, worker)
    PROVE  RenderInv'
<1>1. LiveTasks' = LiveTasks
  BY DEF LiveTasks, Live
<1>2. RenderTypes'
  BY TypesStay DEF RenderInv, RenderTypes, Kept
<1>3. PageInv(page, LiveTasks, task, worker)'
  <2>1. PageInv(page', LiveTasks', task', worker')
    BY <1>1 DEF Kept
  <2> QED
    BY <2>1, PageStays
<1>4. Same(page, page')
  BY DEF Kept
<1>5. TaskInv'
  BY <1>4, TaskStays DEF RenderInv, TaskInv, Same
<1>6. CanvasInv'
  BY DEF RenderInv, CanvasInv, Drawing, Live
<1>7. StreamInv'
  BY <1>4, StreamStays DEF RenderInv
<1>8. DrawnInv'
  BY <1>4, DrawnStays DEF RenderInv, TaskInv, DrawnInv
<1> QED
  BY <1>2, <1>3, <1>5, <1>6, <1>7, <1>8 DEF RenderInv

\* A step of one task that has been rendered before.
LEMMA OneTaskStep ==
    ASSUME RenderInv, NEW t \in Tasks, UNCHANGED <<list, worker>>,
           task' \in [Tasks -> TaskRecords], \A u \in Tasks : u # t => task'[u] = task[u],
           task[t].promise # "none", task'[t].promise # "none",
           task'[t].eval = task[t].eval, task'[t].canvas = task[t].canvas,
           Kept(page, page', LiveTasks', task', worker),
           \A c \in inUse' : \/ c \in inUse /\ (task[t].canvas = c /\ Drawing(t) => Drawing(t)')
                             \/ c = task[t].canvas /\ Drawing(t)',
           task'[t].init => /\ ~task'[t].graphics
                            /\ ~task'[t].cancelled /\ ~page.destroyed => Live(t)',
           task'[t].scheduled => Live(t)' /\ task'[t].graphics,
           DrawnAt(t)'
    PROVE  RenderInv'
<1>1. task[t].eval \in Evals /\ task[t].eval <= page.evals /\ task[t].canvas \in Canvases
  BY DEF RenderInv, TaskInv, TaskAt
<1>2. RenderTypes'
  <2>1. inUse' \subseteq Canvases
    BY <1>1 DEF RenderInv, RenderTypes
  <2> QED
    BY <2>1, TypesStay DEF RenderInv, RenderTypes, Kept
<1>3. PageInv(page, LiveTasks, task, worker)'
  BY PageStays DEF Kept
<1>4. Same(page, page')
  BY DEF Kept
<1>5. TaskInv'
  <2> SUFFICES ASSUME NEW u \in Tasks PROVE TaskAt(u)'
    BY DEF TaskInv
  <2>1. CASE u = t
    BY <1>1, <1>4, <2>1 DEF TaskAt, Same
  <2>2. CASE u # t
    BY <1>4, <2>2, TaskStays DEF RenderInv, TaskInv, Same
  <2> QED
    BY <2>1, <2>2
<1>6. CanvasInv'
  <2> SUFFICES ASSUME NEW c \in inUse' PROVE \E u \in Tasks : Drawing(u)' /\ task'[u].canvas = c
    BY DEF CanvasInv
  <2>1. CASE c = task[t].canvas /\ Drawing(t)'
    BY <2>1
  <2>2. CASE c \in inUse /\ (task[t].canvas = c /\ Drawing(t) => Drawing(t)')
    <3>1. PICK u \in Tasks : Drawing(u) /\ task[u].canvas = c
      BY <2>2 DEF RenderInv, CanvasInv
    <3>2. CASE u = t
      BY <2>2, <3>1, <3>2
    <3>3. CASE u # t
      BY <3>1, <3>3 DEF Drawing, Live
    <3> QED
      BY <3>2, <3>3
  <2> QED
    BY <2>1, <2>2
<1>7. StreamInv'
  BY <1>4, StreamStays DEF RenderInv
<1>8. DrawnInv'
  <2> SUFFICES ASSUME NEW u \in Tasks PROVE DrawnAt(u)'
    BY DEF DrawnInv
  <2>1. CASE u = t
    BY <2>1
  <2>2. CASE u # t
    BY <1>4, <2>2, DrawnStays DEF RenderInv, TaskInv, DrawnInv
  <2> QED
    BY <2>1, <2>2
<1> QED
  BY <1>2, <1>3, <1>5, <1>6, <1>7, <1>8 DEF RenderInv

-----------------------------------------------------------------------------
(* The steps of the page.                                                  *)

LEMMA CallCleanupStep ==
    ASSUME RenderInv, CallCleanup
    PROVE  RenderInv'
<1>1. Kept(page, page', LiveTasks, task, worker)
  BY CleanupKeeps DEF CallCleanup, RenderInv, RenderTypes
<1> QED
  BY <1>1, PageOnlyStep DEF CallCleanup

LEMMA DelayedCleanupStep ==
    ASSUME RenderInv, DelayedCleanup
    PROVE  RenderInv'
<1>1. Kept(page, page', LiveTasks, task, worker)
  BY TryCleanupKeeps DEF DelayedCleanup, RenderInv, RenderTypes
<1> QED
  BY <1>1, PageOnlyStep DEF DelayedCleanup

LEMMA CancelTimeoutStep ==
    ASSUME RenderInv, NEW e \in Evals, CancelTimeout(e)
    PROVE  RenderInv'
<1>1. page \in PageRecords /\ PageInv(page, LiveTasks, task, worker)
  BY DEF RenderInv, RenderTypes
<1>2. page.state[e].timer /\ page.state[e].tasks = {}
  BY <1>1 DEF CancelTimeout, PageInv, OnlyLive
<1>3. CASE page.state[e].reader = "open"
  <2>1. Kept(page, page', LiveTasks, task, worker)
    BY <1>1, <1>2, <1>3, AbortedKeeps DEF CancelTimeout
  <2> QED
    BY <2>1, PageOnlyStep DEF CancelTimeout
<1>4. CASE page.state[e].reader # "open"
  <2>1. page' = [page EXCEPT !.state[e].timer = FALSE] /\ FALSE \in BOOLEAN
    BY <1>4 DEF CancelTimeout
  <2>2. Kept(page, page', LiveTasks, task, worker)
    BY <1>1, <2>1, TimerKeeps
  <2> QED
    BY <2>2, PageOnlyStep DEF CancelTimeout
<1> QED
  BY <1>3, <1>4

-----------------------------------------------------------------------------
(* The steps of one task.                                                  *)

\* A task that ends: what it leaves is kept of the others.
LEMMA EndKeeps ==
    ASSUME RenderInv, NEW t \in Tasks, task[t].promise # "none", ~Live(t)',
           \A u \in Tasks : u # t => task'[u] = task[u],
           NEW outcome, Complete(t, outcome)
    PROVE  Kept(page, page', LiveTasks', task', worker)
<1>1. task[t].eval \in Evals /\ task[t].eval <= page.evals
  BY DEF RenderInv, TaskInv, TaskAt
<1>2. Kept(page, page', LiveTasks \ {t}, task, worker)
  BY <1>1, CompleteKeeps DEF RenderInv, RenderTypes
<1>3. LiveTasks' = LiveTasks \ {t}
  BY DEF LiveTasks, Live
<1>4. LiveTasks' \in SUBSET Tasks /\ \A u \in LiveTasks' : task'[u] = task[u]
  BY <1>3 DEF LiveTasks
<1>5. PageInv(page', LiveTasks', task', worker)
  BY <1>2, <1>3, <1>4, TasksMayChange DEF Kept
<1> QED
  BY <1>2, <1>5 DEF Kept

LEMMA CancelTaskStep ==
    ASSUME RenderInv, NEW t \in Tasks, Live(t), NEW outcome \in {"cancelled", "failed"},
           CancelTask(t, outcome)
    PROVE  RenderInv'
<1> DEFINE r == [task[t] EXCEPT !.running = FALSE, !.cancelled = TRUE, !.scheduled = FALSE,
                                !.promise = outcome]
<1>1. task[t] \in TaskRecords /\ task \in [Tasks -> TaskRecords]
  BY DEF RenderInv, RenderTypes
<1>2. Settled(t, outcome) = outcome
  BY DEF Settled, Live
<1>3. task' = [task EXCEPT ![t] = r]
  BY <1>1, <1>2 DEF CancelTask, Cancelled
<1>4. r \in TaskRecords
  BY <1>1 DEF TaskRecords
<1>5. /\ r.promise = outcome /\ r.eval = task[t].eval /\ r.canvas = task[t].canvas
      /\ r.init = task[t].init /\ r.graphics = task[t].graphics /\ r.cancelled /\ ~r.scheduled
      /\ r.idx = task[t].idx
  BY <1>1 DEF TaskRecords
<1> HIDE DEF r
<1>6. /\ task' \in [Tasks -> TaskRecords] /\ task'[t] = r
      /\ \A u \in Tasks : u # t => task'[u] = task[u]
  BY <1>1, <1>3, <1>4
<1>7. ~Live(t)' /\ task[t].promise # "none" /\ r.promise # "none"
  BY <1>5, <1>6 DEF Live
<1>8. Kept(page, page', LiveTasks', task', worker)
  BY <1>6, <1>7, EndKeeps DEF CancelTask
<1>9. task[t].init => ~task[t].graphics
  BY DEF RenderInv, TaskInv, TaskAt
<1>10. DrawnAt(t)'
  <2>1. DrawnAt(t)
    BY DEF RenderInv, DrawnInv
  <2> QED
    BY <1>5, <1>6, <1>7, <2>1, ListStays DEF DrawnAt, CancelTask
<1>11. \A c \in inUse' : c \in inUse /\ task[t].canvas # c
  BY DEF CancelTask
<1> QED
  BY <1>5, <1>6, <1>7, <1>8, <1>9, <1>10, <1>11, OneTaskStep DEF CancelTask

LEMMA CancelStep ==
    ASSUME RenderInv, NEW t \in Tasks, Cancel(t)
    PROVE  RenderInv'
BY CancelTaskStep DEF Cancel, Live

LEMMA NextThrowsStep ==
    ASSUME RenderInv, NEW t \in Tasks, NextThrows(t)
    PROVE  RenderInv'
<1>1. Live(t)
  BY DEF NextThrows, RenderInv, TaskInv, TaskAt
<1> QED
  BY <1>1, CancelTaskStep DEF NextThrows

\* A task leaves the wait for its canvas with an outcome that is not done.
LEMMA GivesUpStep ==
    ASSUME RenderInv, NEW t \in Tasks, task[t].init,
           task' = [task EXCEPT ![t].init = FALSE, ![t].promise = Settled(t, "failed")],
           Complete(t, "failed"), UNCHANGED <<list, worker, inUse>>
    PROVE  RenderInv'
<1> DEFINE r == [task[t] EXCEPT !.init = FALSE, !.promise = Settled(t, "failed")]
<1>1. task[t] \in TaskRecords /\ task \in [Tasks -> TaskRecords]
  BY DEF RenderInv, RenderTypes
<1>2. task[t].promise # "none" /\ ~task[t].graphics /\ ~task[t].scheduled
  BY <1>1 DEF RenderInv, TaskInv, TaskAt, TaskRecords
<1>3. task' = [task EXCEPT ![t] = r]
  BY <1>1
<1>4. /\ Settled(t, "failed") \in {"done", "failed", "cancelled"}
      /\ Settled(t, "failed") = "done" => task[t].promise = "done"
  BY <1>1, <1>2 DEF Settled, TaskRecords
<1>5. r \in TaskRecords
  BY <1>1, <1>4 DEF TaskRecords
<1>6. /\ r.promise = Settled(t, "failed") /\ r.eval = task[t].eval /\ r.canvas = task[t].canvas
      /\ ~r.init /\ ~r.graphics /\ ~r.scheduled /\ r.idx = task[t].idx
  BY <1>1, <1>2 DEF TaskRecords
<1> HIDE DEF r
<1>7. /\ task' \in [Tasks -> TaskRecords] /\ task'[t] = r
      /\ \A u \in Tasks : u # t => task'[u] = task[u]
  BY <1>1, <1>3, <1>5
<1>8. ~Live(t)' /\ r.promise # "none"
  BY <1>4, <1>6, <1>7 DEF Live
<1>9. Kept(page, page', LiveTasks', task', worker)
  BY <1>2, <1>7, <1>8, EndKeeps
<1>10. ~Drawing(t)
  BY <1>2 DEF Drawing
<1>11. DrawnAt(t)'
  <2>1. DrawnAt(t)
    BY DEF RenderInv, DrawnInv
  <2>2. task[t].eval \in Evals
    BY <1>2 DEF RenderInv, TaskInv, TaskAt
  <2>3. page'.state[task[t].eval].chunks = page.state[task[t].eval].chunks
    BY <1>9, <2>2 DEF Kept, Same
  <2> QED
    BY <1>2, <1>4, <1>6, <1>7, <2>1, <2>3, ListStays DEF DrawnAt
<1> QED
  BY <1>2, <1>6, <1>7, <1>8, <1>9, <1>10, <1>11, OneTaskStep

LEMMA InitializeFailsStep ==
    ASSUME RenderInv, NEW t \in Tasks, InitializeFails(t)
    PROVE  RenderInv'
BY GivesUpStep DEF InitializeFails

LEMMA SameLiveKeeps ==
    ASSUME RenderInv, LiveTasks' = LiveTasks,
           \A u \in LiveTasks : task'[u].eval = task[u].eval
                                /\ (task[u].graphics => task'[u].graphics),
           page' = page
    PROVE  Kept(page, page', LiveTasks', task', worker)
<1>1. page \in PageRecords /\ PageInv(page, LiveTasks, task, worker) /\ LiveTasks \in SUBSET Tasks
  BY DEF RenderInv, RenderTypes, LiveTasks
<1>2. PageInv(page, LiveTasks, task', worker)
  BY <1>1, TasksMayChange
<1> QED
  BY <1>1, <1>2 DEF Kept, Same

LEMMA InitializeStep ==
    ASSUME RenderInv, NEW t \in Tasks, Initialize(t)
    PROVE  RenderInv'
<1>1. task[t] \in TaskRecords /\ task \in [Tasks -> TaskRecords]
  BY DEF RenderInv, RenderTypes
<1>2. /\ task[t].promise # "none" /\ ~task[t].graphics /\ ~task[t].scheduled
      /\ ~task[t].cancelled /\ ~page.destroyed => Live(t)
  BY DEF Initialize, RenderInv, TaskInv, TaskAt
<1>2a. ~Drawing(t)
  BY <1>2 DEF Drawing
<1>3. DrawnAt(t)
  BY DEF RenderInv, DrawnInv
<1>4. ASSUME task' = [task EXCEPT ![t].init = FALSE], UNCHANGED <<page, inUse>>
      PROVE  RenderInv'
  <2> DEFINE r == [task[t] EXCEPT !.init = FALSE]
  <2>1. task' = [task EXCEPT ![t] = r]
    BY <1>4
  <2>2. /\ r \in TaskRecords /\ r.promise = task[t].promise /\ r.eval = task[t].eval
        /\ r.canvas = task[t].canvas /\ ~r.init /\ r.graphics = task[t].graphics
        /\ r.scheduled = task[t].scheduled /\ r.idx = task[t].idx
    BY <1>1 DEF TaskRecords
  <2> HIDE DEF r
  <2>3. /\ task' \in [Tasks -> TaskRecords] /\ task'[t] = r
        /\ \A u \in Tasks : u # t => task'[u] = task[u]
    BY <1>1, <2>1, <2>2
  <2>4. LiveTasks' = LiveTasks
    BY <2>2, <2>3 DEF LiveTasks, Live
  <2>5. \A u \in LiveTasks : task'[u].eval = task[u].eval
                             /\ (task[u].graphics => task'[u].graphics)
    BY <2>2, <2>3 DEF LiveTasks
  <2>6. Kept(page, page', LiveTasks', task', worker)
    BY <1>4, <2>4, <2>5, SameLiveKeeps
  <2>7. DrawnAt(t)'
    BY <1>3, <1>4, <2>2, <2>3, ListStays DEF DrawnAt, Initialize
  <2>8. \A c \in inUse' : c \in inUse
    BY <1>4
  <2> QED
    BY <1>2, <1>2a, <2>2, <2>3, <2>6, <2>7, <2>8, OneTaskStep DEF Initialize
<1>5. CASE page.destroyed
  <2>1. ~Live(t)
    BY <1>5 DEF RenderInv, PageInv, IfDestroyed, LiveTasks
  <2>2. Settled(t, "done") = task[t].promise
    BY <2>1 DEF Settled, Live
  <2>3. task' = [[task EXCEPT ![t].init = FALSE] EXCEPT ![t].promise = Settled(t, "done")]
    BY <1>5 DEF Initialize
  <2>4. task' = [task EXCEPT ![t].init = FALSE]
    BY <1>1, <2>2, <2>3 DEF TaskRecords
  <2> QED
    BY <1>4, <1>5, <2>4 DEF Initialize
<1>6. CASE ~page.destroyed /\ task[t].cancelled
  BY <1>4, <1>6 DEF Initialize
<1>7. CASE ~page.destroyed /\ ~task[t].cancelled /\ task[t].canvas \in inUse
  <2>1. task' = [task EXCEPT ![t].init = FALSE, ![t].promise = Settled(t, "failed")]
    BY <1>1, <1>7 DEF Initialize
  <2> QED
    BY <1>7, <2>1, GivesUpStep DEF Initialize
<1>8. CASE ~page.destroyed /\ ~task[t].cancelled /\ task[t].canvas \notin inUse
  <2> DEFINE r == [task[t] EXCEPT !.init = FALSE, !.graphics = TRUE, !.running = TRUE,
                                  !.scheduled = TRUE]
  <2>1. task' = [task EXCEPT ![t] = r]
    BY <1>1, <1>8 DEF Initialize
  <2>2. /\ r \in TaskRecords /\ r.promise = task[t].promise /\ r.eval = task[t].eval
        /\ r.canvas = task[t].canvas /\ ~r.init /\ r.graphics /\ r.idx = task[t].idx
    BY <1>1 DEF TaskRecords
  <2> HIDE DEF r
  <2>3. /\ task' \in [Tasks -> TaskRecords] /\ task'[t] = r
        /\ \A u \in Tasks : u # t => task'[u] = task[u]
    BY <1>1, <2>1, <2>2
  <2>4. LiveTasks' = LiveTasks /\ Live(t)' /\ Drawing(t)'
    BY <1>2, <1>8, <2>2, <2>3 DEF LiveTasks, Live, Drawing
  <2>5. \A u \in LiveTasks : task'[u].eval = task[u].eval
                             /\ (task[u].graphics => task'[u].graphics)
    BY <2>2, <2>3 DEF LiveTasks
  <2>6. Kept(page, page', LiveTasks', task', worker)
    BY <1>8, <2>4, <2>5, SameLiveKeeps DEF Initialize
  <2>7. DrawnAt(t)'
    BY <1>3, <1>8, <2>2, <2>3, ListStays DEF DrawnAt, Initialize
  <2>8. \A c \in inUse' : c \in inUse \/ c = task[t].canvas
    BY <1>8 DEF Initialize
  <2> QED
    BY <1>2, <2>2, <2>3, <2>4, <2>6, <2>7, <2>8, OneTaskStep DEF Initialize
<1> QED
  BY <1>5, <1>6, <1>7, <1>8

-----------------------------------------------------------------------------
(* The run of a task over what has come.                                   *)

LEMMA LeastNumber ==
    ASSUME NEW S \in SUBSET Nat, S # {}
    PROVE  \E m \in S : \A n \in S : m <= n
<1> DEFINE R == OpToRel(<, Nat)
<1>1. IsWellFoundedOn(R, Nat)
  BY NatLessThanWellFounded
<1>2. \A n, m \in Nat : n < m => <<n, m>> \in R
  BY DEF OpToRel
<1> HIDE DEF R
<1>3. PICK m \in S : \A n \in S : ~(<<n, m>> \in R)
  BY <1>1, WFMin
<1>4. ASSUME NEW n \in S PROVE m <= n
  <2>1. n \in Nat /\ m \in Nat /\ ~(<<n, m>> \in R)
    BY <1>3
  <2>2. ~(n < m)
    BY <1>2, <2>1, Zenon
  <2> QED
    BY <2>1, <2>2
<1> QED
  BY <1>4

RunFits(e, from, n, ops, run) ==
    /\ run.idx \in 0 .. n /\ run.slice \in BOOLEAN
    /\ \A i \in from + 1 .. run.idx : ~Blocked(e, ops, i)
    /\ run.slice => run.idx # n
    /\ ~run.slice /\ run.idx # n => /\ run.idx + 1 \in 1 .. n
                                    /\ Blocked(e, ops, run.idx + 1)

\* A run passes nothing that blocks it, and stops at the end, at what blocks it, or in between.
LEMMA RunsFacts ==
    ASSUME NEW e, NEW from \in Nat, NEW n \in Nat, NEW ops, Len(ops) = n,
           NEW run \in RunEnds(e, from, ops)
    PROVE  RunFits(e, from, n, ops, run)
<1> DEFINE blocked == {i \in from + 1 .. n : Blocked(e, ops, i)}
           stop == IF blocked = {} THEN n
                   ELSE CHOOSE i \in blocked : \A j \in blocked : i <= j
           end == IF blocked = {} THEN n ELSE stop - 1
           slices == {i \in from + 1 .. end :
                        /\ n - from > ExecutionSteps /\ i < n
                        /\ (i - from) % (ExecutionSteps + 1) = 0}
<1>1. run \in {[idx |-> end, slice |-> FALSE]} \cup {[idx |-> i, slice |-> TRUE] : i \in slices}
  BY DEF RunEnds
<1>2. blocked \in SUBSET Nat
  OBVIOUS
<1>3. blocked # {} => stop \in blocked /\ \A j \in blocked : stop <= j
  <2> SUFFICES ASSUME blocked # {} PROVE stop \in blocked /\ \A j \in blocked : stop <= j
    OBVIOUS
  <2>1. \E m \in blocked : \A j \in blocked : m <= j
    BY <1>2, LeastNumber
  <2>2. stop = CHOOSE i \in blocked : \A j \in blocked : i <= j
    OBVIOUS
  <2> HIDE DEF blocked, stop
  <2> QED
    BY <2>1, <2>2
<1>4. \A i \in from + 1 .. n : i \in blocked <=> Blocked(e, ops, i)
  OBVIOUS
<1>5. blocked = {} => end = n
  OBVIOUS
<1>6. blocked # {} => end = stop - 1
  OBVIOUS
<1>6a. \A i \in blocked : i \in from + 1 .. n
  OBVIOUS
<1> HIDE DEF blocked, stop, end
<1>7. /\ end \in 0 .. n /\ \A i \in from + 1 .. end : ~Blocked(e, ops, i)
      /\ end # n => end + 1 \in from + 1 .. n /\ Blocked(e, ops, end + 1)
  <2>1. CASE blocked = {}
    BY <1>4, <1>5, <2>1
  <2>2. CASE blocked # {}
    <3>1. stop \in from + 1 .. n /\ end = stop - 1
      BY <1>3, <1>6, <1>6a, <2>2
    <3>2. \A i \in from + 1 .. end : i \in from + 1 .. n /\ ~(stop <= i)
      BY <3>1
    <3>3. \A i \in from + 1 .. end : ~Blocked(e, ops, i)
      BY <1>3, <1>4, <2>2, <3>2
    <3>4. end + 1 = stop /\ end \in 0 .. n
      BY <3>1
    <3>5. Blocked(e, ops, stop)
      BY <1>3, <1>4, <2>2, <3>1
    <3> QED
      BY <3>1, <3>3, <3>4, <3>5
  <2> QED
    BY <2>1, <2>2
<1>8. CASE run = [idx |-> end, slice |-> FALSE]
  <2>1. run.idx = end /\ run.slice = FALSE
    BY <1>8
  <2>2. end # n => end + 1 \in 1 .. n
    BY <1>7
  <2> QED
    BY <1>7, <2>1, <2>2 DEF RunFits
<1>9. CASE run \in {[idx |-> i, slice |-> TRUE] : i \in slices}
  <2>1. PICK i \in slices : run = [idx |-> i, slice |-> TRUE]
    BY <1>9
  <2>2. run.idx = i /\ run.slice = TRUE
    BY <2>1
  <2>3. i \in from + 1 .. end /\ i < n
    OBVIOUS
  <2>4. i \in 0 .. n /\ i # n /\ \A j \in from + 1 .. i : j \in from + 1 .. end
    BY <1>7, <2>3
  <2>5. \A j \in from + 1 .. i : ~Blocked(e, ops, j)
    BY <1>7, <2>4
  <2> QED
    BY <2>2, <2>4, <2>5 DEF RunFits
<1> QED
  BY <1>1, <1>8, <1>9

\* What has come of a list is a part of it, from the beginning.
LEMMA ReceivedFacts ==
    ASSUME ListFits(list), NEW n \in 0 .. NumChunks
    PROVE  /\ NumChunks \in Nat /\ Len(AllOps) \in Nat /\ Len(Received(n)) \in Nat
           /\ Len(Received(n)) <= Len(AllOps)
           /\ \A j \in 1 .. Len(Received(n)) : Received(n)[j] = AllOps[j]
<1>1. NumChunks \in Nat
  BY DEF ListFits, NumChunks
<1>2. NumChunks \in 0 .. NumChunks
  BY <1>1
<1>3. \A i \in 0 .. NumChunks :
         /\ Received(i) \in Seq(ToSet(AllOps)) /\ Len(Received(i)) <= Len(AllOps)
         /\ \A j \in 1 .. Len(Received(i)) : Received(i)[j] = AllOps[j]
  BY DEF ListFits, NumChunks, Received, AllOps
<1>4. \A i \in 0 .. NumChunks : Len(Received(i)) \in Nat
  BY <1>3
<1>5. Len(AllOps) \in Nat
  BY <1>2, <1>4 DEF AllOps
<1> QED
  BY <1>1, <1>3, <1>4, <1>5

LEMMA DependencyIsImage ==
    ASSUME ListFits(list), NEW i \in 1 .. Len(AllOps), AllOps[i].fn = "dependency"
    PROVE  AllOps[i].arg \in Images
<1>1. NumChunks \in Nat
  BY DEF ListFits, NumChunks
<1>2. AllOps \in Seq(ToSet(AllOps))
  BY <1>1 DEF ListFits, NumChunks, Received, AllOps
<1>3. AllOps[i] \in ToSet(AllOps)
  BY <1>2
<1>4. Images = DependenciesOf(AllOps)
  BY DEF ListFits, NumChunks, Received, AllOps, Images
<1> QED
  BY <1>3, <1>4 DEF DependenciesOf

\* A task that draws waits for an image, or no longer.
LEMMA WaitKeeps ==
    ASSUME NEW p \in PageRecords, NEW live, NEW tk, NEW w, PageInv(p, live, tk, w),
           NEW t \in Tasks, t \in live, tk[t].graphics,
           NEW x \in Objects \cup {NotWaiting}, NEW q, q = [p EXCEPT !.waits[t] = x]
    PROVE  Kept(p, q, live, tk, w)
<1> DEFINE ws == [p.waits EXCEPT ![t] = x]
<1>1. q = [p EXCEPT !.waits = ws]
  BY DEF PageRecords
<1>2. /\ ws \in [Tasks -> Objects \cup {NotWaiting, Forgotten}] /\ ws[t] = x
      /\ \A u \in Tasks : u # t => ws[u] = p.waits[u]
  BY DEF PageRecords
<1> HIDE DEF ws
<1>3. q \in PageRecords
  BY <1>1, <1>2 DEF PageRecords
<1>4. /\ q.state = p.state /\ q.intentStates = p.intentStates /\ q.objs = p.objs /\ q.waits = ws
      /\ q.evals = p.evals /\ q.destroyed = p.destroyed /\ q.delayed = p.delayed
  BY <1>1 DEF PageRecords
<1>5. x # Forgotten
  BY DEF Objects, Forgotten, NotWaiting, Evals, None
<1>6. \A u \in Tasks : ws[u] # NotWaiting => ws[u] # Forgotten /\ u \in live /\ tk[u].graphics
  BY <1>2, <1>5 DEF PageInv, OnlyLive
<1>7. OnlyLive(q, live, tk)
  BY <1>4, <1>6 DEF PageInv, OnlyLive
<1>8. Fed(q, live, tk, w) /\ On(q)
  BY <1>4 DEF PageInv, Fed, On
<1>9. Stored(q, w) /\ Unused(q, w) /\ IfDestroyed(q, live)
  BY <1>4 DEF PageInv, Stored, Unused, IfDestroyed
<1> QED
  BY <1>3, <1>4, <1>7, <1>8, <1>9 DEF Kept, PageInv, Same

\* What a run passes has arrived.
LEMMA PassedHasArrived ==
    ASSUME RenderInv, NEW t \in Tasks, task[t].promise # "none", NEW k \in Nat,
           k <= Len(Received(page.state[task[t].eval].chunks)),
           \A i \in task[t].idx + 1 .. k :
              ~Blocked(task[t].eval, Received(page.state[task[t].eval].chunks), i),
           NEW i \in 1 .. k, AllOps[i].fn = "dependency"
    PROVE  AllOps[i].arg \in worker[task[t].eval].objs
<1> DEFINE e == task[t].eval
           n == page.state[e].chunks
           idx == task[t].idx
<1>1. /\ e \in Evals /\ ListFits(list) /\ page \in PageRecords /\ task[t] \in TaskRecords
      /\ Stored(page, worker) /\ DrawnAt(t)
  BY DEF RenderInv, RenderTypes, TaskInv, TaskAt, PageInv, DrawnInv
<1>2. n \in 0 .. NumChunks
  BY <1>1 DEF PageRecords, IntentStates
<1>3. /\ Len(AllOps) \in Nat /\ Len(Received(n)) \in Nat /\ Len(Received(n)) <= Len(AllOps)
      /\ \A j \in 1 .. Len(Received(n)) : Received(n)[j] = AllOps[j]
  BY <1>1, <1>2, ReceivedFacts
<1>4. i \in 1 .. Len(Received(n)) /\ i \in 1 .. Len(AllOps) /\ idx \in Nat
  <2>1. idx \in Nat
    BY <1>1, <1>3 DEF TaskRecords
  <2> HIDE DEF n, idx
  <2> DEFINE lr == Len(Received(n))
             la == Len(AllOps)
  <2>2. lr \in Nat /\ la \in Nat /\ lr <= la /\ k <= lr
    BY <1>3 DEF n
  <2> HIDE DEF lr, la
  <2>3. i \in 1 .. lr /\ i \in 1 .. la
    BY <2>2
  <2> QED
    BY <2>1, <2>3 DEF lr, la
<1>5. AllOps[i].arg \in Images
  BY <1>1, <1>4, DependencyIsImage
<1>6. CASE i <= idx
  <2>1. i \in 1 .. task[t].idx
    BY <1>4, <1>6
  <2> QED
    BY <1>1, <2>1 DEF DrawnAt
<1>7. CASE ~(i <= idx)
  <2>1. i \in idx + 1 .. k
    BY <1>4, <1>7
  <2>2. ~Blocked(e, Received(n), i)
    BY <2>1
  <2>3. Received(n)[i] = AllOps[i]
    BY <1>3, <1>4
  <2>4. <<e, AllOps[i].arg>> \in page.objs
    BY <2>2, <2>3 DEF Blocked
  <2> QED
    BY <1>1, <1>5, <2>4 DEF Stored
<1> QED
  BY <1>6, <1>7

LEMMA ExecuteNextStep ==
    ASSUME RenderInv, NEW t \in Tasks, ExecuteNext(t)
    PROVE  RenderInv'
<1> DEFINE e == task[t].eval
           ops == Received(page.state[e].chunks)
           len == Len(ops)
<1>1. /\ ListFits(list) /\ page \in PageRecords /\ task[t] \in TaskRecords
      /\ task \in [Tasks -> TaskRecords] /\ PageInv(page, LiveTasks, task, worker)
  BY DEF RenderInv, RenderTypes
<1>2. /\ Live(t) /\ task[t].graphics /\ task[t].promise = "pending" /\ e \in Evals
      /\ t \in LiveTasks /\ ~task[t].init
  BY DEF ExecuteNext, RenderInv, TaskInv, TaskAt, Live, LiveTasks
<1>3. page.state[e].chunks \in 0 .. NumChunks
  BY <1>1, <1>2 DEF PageRecords, IntentStates
<1>4. /\ Len(AllOps) \in Nat /\ len \in Nat /\ len <= Len(AllOps) /\ task[t].idx \in Nat
      /\ \A j \in 1 .. len : ops[j] = AllOps[j]
  BY <1>1, <1>3, ReceivedFacts DEF TaskRecords
<1>5. PICK run \in RunEnds(e, task[t].idx, ops) :
        LET atEnd    == run.idx = Len(ops)
            complete == IsComplete(e, run.idx)
            waits    == IF run.slice \/ atEnd THEN NotWaiting ELSE <<e, ops[run.idx + 1].arg>>
        IN  /\ task' = [task EXCEPT
                  ![t].idx = run.idx, ![t].scheduled = run.slice, ![t].running = ~atEnd,
                  ![t].promise = IF complete THEN Settled(t, "done") ELSE @]
            /\ inUse' = IF complete THEN inUse \ {task[t].canvas} ELSE inUse
            /\ IF complete THEN Complete(t, "done")
               ELSE page' = [page EXCEPT !.waits[t] = waits]
  BY DEF ExecuteNext
<1> DEFINE k == run.idx
           complete == IsComplete(e, k)
           waits == IF run.slice \/ k = len THEN NotWaiting ELSE <<e, ops[k + 1].arg>>
           r == [task[t] EXCEPT !.idx = k, !.scheduled = run.slice, !.running = ~(k = len),
                                !.promise = IF complete THEN "done" ELSE "pending"]
<1>6. /\ k \in 0 .. len /\ run.slice \in BOOLEAN
      /\ \A i \in task[t].idx + 1 .. k : ~Blocked(e, ops, i)
      /\ run.slice => k # len
      /\ ~run.slice /\ k # len => k + 1 \in 1 .. len /\ Blocked(e, ops, k + 1)
  <2> DEFINE from == task[t].idx
  <2>1. from \in Nat /\ len \in Nat /\ Len(ops) = len /\ run \in RunEnds(e, from, ops)
    BY <1>4
  <2> HIDE DEF from, len, ops, e, k
  <2>2. RunFits(e, from, len, ops, run)
    BY <2>1, RunsFacts
  <2> QED
    BY <2>2 DEF RunFits, from, k
<1>7. task' = [task EXCEPT ![t] = r]
  BY <1>1, <1>2, <1>5 DEF Settled
<1>8. complete \in BOOLEAN /\ (complete => k = len /\ page.state[e].last)
  BY DEF IsComplete
<1>9. k \in Nat /\ k \in 0 .. Len(AllOps) /\ k <= len
  <2> DEFINE la == Len(AllOps)
  <2>1. la \in Nat /\ len <= la
    BY <1>4
  <2> HIDE DEF la, len, k
  <2>2. k \in Nat /\ k \in 0 .. la /\ k <= len
    BY <1>4, <1>6, <2>1
  <2> QED
    BY <2>2 DEF la
<1>10. /\ r \in TaskRecords /\ r.promise = (IF complete THEN "done" ELSE "pending")
       /\ r.eval = e /\ r.canvas = task[t].canvas /\ r.init = task[t].init
       /\ r.graphics = task[t].graphics /\ r.scheduled = run.slice /\ r.idx = k
  <2> HIDE DEF k, complete, len
  <2> QED
    BY <1>1, <1>6, <1>9 DEF TaskRecords
<1>11. DrawnAt(t)' <=> /\ \A i \in 1 .. k : AllOps[i].fn = "dependency"
                                               => AllOps[i].arg \in worker[e].objs
                       /\ complete => /\ k = Len(Received(page'.state[e].chunks))
                                      /\ page'.state[e].chunks = NumChunks \/ worker[e].failed
  <2>1. task'[t] = r /\ worker' = worker /\ list' = list
    BY <1>1, <1>7 DEF ExecuteNext
  <2> HIDE DEF r, complete
  <2> QED
    BY <1>10, <2>1, ListStays DEF DrawnAt
<1>12. \A i \in 1 .. k : AllOps[i].fn = "dependency" => AllOps[i].arg \in worker[e].objs
  BY <1>2, <1>6, <1>9, PassedHasArrived
<1> HIDE DEF r
<1>13. /\ task' \in [Tasks -> TaskRecords] /\ task'[t] = r
       /\ \A u \in Tasks : u # t => task'[u] = task[u]
  BY <1>1, <1>7, <1>10
<1>14. UNCHANGED <<list, worker>>
  BY DEF ExecuteNext
<1>15. CASE complete
  <2>1. Complete(t, "done") /\ inUse' = inUse \ {task[t].canvas}
    BY <1>5, <1>15
  <2>2. r.promise = "done" /\ ~Live(t)' /\ ~run.slice
    BY <1>6, <1>8, <1>10, <1>13, <1>15 DEF Live
  <2>3. Kept(page, page', LiveTasks', task', worker)
    BY <1>2, <1>13, <2>1, <2>2, EndKeeps
  <2>4. page'.state[e].chunks = page.state[e].chunks
    BY <1>2, <2>3 DEF Kept, Same
  <2>5. page.state[e].chunks = NumChunks \/ worker[e].failed
    BY <1>2, <1>8, <1>15 DEF RenderInv, StreamInv
  <2>6. DrawnAt(t)'
    BY <1>8, <1>11, <1>12, <1>15, <2>4, <2>5
  <2>7. \A c \in inUse' : c \in inUse /\ task[t].canvas # c
    BY <2>1
  <2> QED
    BY <1>2, <1>10, <1>13, <1>14, <2>2, <2>3, <2>6, <2>7, OneTaskStep
<1>16. CASE ~complete
  <2>1. page' = [page EXCEPT !.waits[t] = waits] /\ inUse' = inUse
    BY <1>5, <1>16
  <2>2. r.promise = "pending" /\ Live(t)'
    BY <1>10, <1>13, <1>16 DEF Live
  <2>3. LiveTasks' = LiveTasks
    BY <1>2, <1>13, <2>2 DEF LiveTasks, Live
  <2>4. waits \in Objects \cup {NotWaiting}
    <3>1. CASE run.slice \/ k = len
      BY <3>1
    <3>2. CASE ~(run.slice \/ k = len)
      <4>1. k + 1 \in 1 .. len /\ ops[k + 1].fn = "dependency" /\ ops[k + 1] = AllOps[k + 1]
        BY <1>4, <1>6, <3>2 DEF Blocked
      <4>2. k + 1 \in 1 .. Len(AllOps)
        <5> DEFINE la == Len(AllOps)
        <5>1. la \in Nat /\ len \in Nat /\ len <= la /\ k \in Nat /\ k + 1 \in 1 .. len
          BY <1>4, <1>9, <4>1
        <5> HIDE DEF la, len, k
        <5>2. k + 1 \in 1 .. la
          BY <5>1
        <5> QED
          BY <5>2 DEF la
      <4>3. ops[k + 1].arg \in Images
        BY <1>1, <4>1, <4>2, DependencyIsImage
      <4> QED
        BY <1>2, <3>2, <4>3 DEF Objects
    <3> QED
      BY <3>1, <3>2
  <2> HIDE DEF waits
  <2>5. Kept(page, page', LiveTasks, task, worker)
    BY <1>1, <1>2, <2>1, <2>4, WaitKeeps
  <2>6. \A u \in LiveTasks : task'[u].eval = task[u].eval
                             /\ (task[u].graphics => task'[u].graphics)
    BY <1>10, <1>13 DEF LiveTasks
  <2>7. LiveTasks \in SUBSET Tasks
    BY DEF LiveTasks
  <2>8. PageInv(page', LiveTasks, task', worker)
    BY <2>5, <2>6, <2>7, TasksMayChange DEF Kept
  <2>9. Kept(page, page', LiveTasks', task', worker)
    BY <2>3, <2>5, <2>8 DEF Kept
  <2>10. DrawnAt(t)'
    BY <1>11, <1>12, <1>16
  <2>11. Drawing(t)' /\ r.promise # "none"
    BY <1>2, <1>10, <1>13, <2>2 DEF Drawing
  <2> QED
    BY <1>2, <1>10, <1>13, <1>14, <2>1, <2>2, <2>9, <2>10, <2>11, OneTaskStep
<1> QED
  BY <1>15, <1>16

-----------------------------------------------------------------------------
(* Steps that several tasks can see.                                       *)

\* What a task has drawn stays drawn as long as the worker takes nothing back.
LEMMA DrawnGrows ==
    ASSUME NEW t \in Tasks, DrawnAt(t), UNCHANGED list,
           task'[t].idx = task[t].idx, task'[t].eval = task[t].eval,
           task'[t].promise # "none" => task[t].promise # "none",
           task'[t].promise = "done" => task[t].promise = "done",
           task[t].promise # "none" =>
              /\ worker[task[t].eval].objs \subseteq worker'[task[t].eval].objs
              /\ worker[task[t].eval].failed => worker'[task[t].eval].failed,
           task[t].promise = "done" =>
              page'.state[task[t].eval].chunks = page.state[task[t].eval].chunks
    PROVE  DrawnAt(t)'
<1> SUFFICES ASSUME task'[t].promise # "none" PROVE DrawnAt(t)'
  BY DEF DrawnAt
<1>1. /\ AllOps' = AllOps /\ NumChunks' = NumChunks /\ \A n : Received(n)' = Received(n)
  BY ListStays
<1>2. \A i \in 1 .. task[t].idx : AllOps[i].fn = "dependency"
                                    => AllOps[i].arg \in worker'[task[t].eval].objs
  BY DEF DrawnAt
<1>3. task'[t].promise = "done" =>
        /\ task[t].idx = Len(Received(page'.state[task[t].eval].chunks))
        /\ page'.state[task[t].eval].chunks = NumChunks \/ worker'[task[t].eval].failed
  BY DEF DrawnAt
<1> QED
  BY <1>1, <1>2, <1>3 DEF DrawnAt

\* The page knows the worker's lists by their intents and by what they have brought.
LEMMA WorkerMayChange ==
    ASSUME NEW p \in PageRecords, NEW live, NEW tk, NEW w, NEW w2, PageInv(p, live, tk, w),
           \A t \in live : tk[t].eval \in Evals,
           \A x \in Evals : /\ w2[x].intent = w[x].intent /\ w2[x].objs = w[x].objs
                            /\ p.evals < x => w2[x].started = w[x].started
    PROVE  PageInv(p, live, tk, w2)
<1>1. Fed(p, live, tk, w2)
  BY DEF PageInv, Fed
<1>2. Stored(p, w2)
  <2>1. p.intentStates \in [Intents -> {None} \cup Evals]
    BY DEF PageRecords
  <2>2. \A i \in Intents : p.intentStates[i] # None => p.intentStates[i] \in Evals
    BY <2>1
  <2> QED
    BY <2>2 DEF PageInv, Stored
<1>3. Unused(p, w2)
  BY DEF PageInv, Unused
<1> QED
  BY <1>1, <1>2, <1>3 DEF PageInv

\* A state goes on with its list, for the tasks it has.
Moved(p, q, live, tk, w, e, s) ==
    /\ q \in PageRecords /\ PageInv(q, live, tk, w)
    /\ q.evals = p.evals /\ q.destroyed = p.destroyed /\ q.state[e] = s
    /\ \A x \in Evals : x # e => q.state[x] = p.state[x]

LEMMA StateMoves ==
    ASSUME NEW p \in PageRecords, NEW live, NEW tk, NEW w, PageInv(p, live, tk, w),
           NEW e \in Evals, NEW s \in IntentStates,
           s.tasks = p.state[e].tasks, s.timer = p.state[e].timer,
           s.reader = "open" \/ s.last,
           NEW q, q = [p EXCEPT !.state = [p.state EXCEPT ![e] = s]]
    PROVE  Moved(p, q, live, tk, w, e, s)
<1> DEFINE st == [p.state EXCEPT ![e] = s]
<1>1. /\ st \in [Evals -> IntentStates] /\ st[e] = s
      /\ \A x \in Evals : x # e => st[x] = p.state[x]
  BY DEF PageRecords
<1>2. q = [p EXCEPT !.state = st]
  OBVIOUS
<1> HIDE DEF st
<1>3. q \in PageRecords
  BY <1>1, <1>2 DEF PageRecords
<1>4. /\ q.state = st /\ q.intentStates = p.intentStates /\ q.objs = p.objs /\ q.waits = p.waits
      /\ q.evals = p.evals /\ q.destroyed = p.destroyed /\ q.delayed = p.delayed
  BY <1>2 DEF PageRecords
<1>5. \A x \in Evals : st[x].tasks = p.state[x].tasks /\ st[x].timer = p.state[x].timer
  BY <1>1
<1>6. Fed(q, live, tk, w) /\ OnlyLive(q, live, tk)
  BY <1>4, <1>5 DEF PageInv, Fed, OnlyLive
<1>7. On(q)
  <2> SUFFICES ASSUME ~p.destroyed, NEW i \in Intents, p.intentStates[i] # None
               PROVE  st[p.intentStates[i]].reader = "open" \/ st[p.intentStates[i]].last
    BY <1>4 DEF On
  <2>1. p.intentStates[i] \in Evals
    BY DEF PageRecords
  <2>2. p.state[p.intentStates[i]].reader = "open" \/ p.state[p.intentStates[i]].last
    BY DEF PageInv, On
  <2>3. CASE p.intentStates[i] = e
    BY <1>1, <2>3
  <2>4. CASE p.intentStates[i] # e
    BY <1>1, <2>1, <2>2, <2>4
  <2> QED
    BY <2>3, <2>4
<1>8. Stored(q, w) /\ IfDestroyed(q, live)
  BY <1>4 DEF PageInv, Stored, IfDestroyed
<1>9. Unused(q, w)
  BY <1>4, <1>5 DEF PageInv, Unused
<1> QED
  BY <1>1, <1>3, <1>4, <1>6, <1>7, <1>8, <1>9 DEF PageInv, Moved

\* operatorListChanged() starts only tasks that live and have graphics.
LEMMA NotifiedFacts ==
    ASSUME RenderInv, NEW e \in Evals, task' = Notified(page.state[e].tasks)
    PROVE  /\ task' \in [Tasks -> TaskRecords] /\ LiveTasks' = LiveTasks
           /\ \A t \in Tasks :
                 /\ task'[t].promise = task[t].promise /\ task'[t].eval = task[t].eval
                 /\ task'[t].canvas = task[t].canvas /\ task'[t].idx = task[t].idx
                 /\ task'[t].init = task[t].init /\ task'[t].graphics = task[t].graphics
                 /\ task'[t].cancelled = task[t].cancelled
                 /\ task'[t].scheduled => Live(t) /\ task[t].graphics
<1>1. task \in [Tasks -> TaskRecords] /\ TaskInv
  BY DEF RenderInv, RenderTypes
<1>2. \A t \in page.state[e].tasks : Live(t)
  BY DEF RenderInv, PageInv, OnlyLive, LiveTasks
<1>3. ASSUME NEW t \in Tasks
      PROVE  /\ task'[t] \in TaskRecords
             /\ task'[t].promise = task[t].promise /\ task'[t].eval = task[t].eval
             /\ task'[t].canvas = task[t].canvas /\ task'[t].idx = task[t].idx
             /\ task'[t].init = task[t].init /\ task'[t].graphics = task[t].graphics
             /\ task'[t].cancelled = task[t].cancelled
             /\ task'[t].scheduled => Live(t) /\ task[t].graphics
  <2>1. task[t] \in TaskRecords /\ TaskAt(t)
    BY <1>1 DEF TaskInv
  <2>2. CASE t \in page.state[e].tasks /\ task[t].graphics /\ ~task[t].running
    <3>1. task'[t] = [task[t] EXCEPT !.running = TRUE, !.scheduled = ~task[t].cancelled]
      BY <2>2 DEF Notified
    <3>2. Live(t)
      BY <1>2, <2>2
    <3> QED
      BY <2>1, <2>2, <3>1, <3>2 DEF TaskRecords
  <2>3. CASE ~(t \in page.state[e].tasks /\ task[t].graphics /\ ~task[t].running)
    <3>1. task'[t] = task[t]
      BY <2>3 DEF Notified
    <3> QED
      BY <2>1, <3>1 DEF TaskAt
  <2> QED
    BY <2>2, <2>3
<1>4. task' = [t \in Tasks |-> task'[t]]
  BY DEF Notified
<1>5. task' \in [Tasks -> TaskRecords]
  BY <1>3, <1>4
<1>6. LiveTasks' = LiveTasks
  BY <1>3 DEF LiveTasks, Live
<1> QED
  BY <1>3, <1>5, <1>6

\* A message of the worker for the tasks of a list.
LEMMA MessageStep ==
    ASSUME RenderInv, NEW e \in Evals, UNCHANGED <<list, inUse>>,
           worker' \in [Evals -> WorkerRecords],
           \A x \in Evals : /\ worker'[x].intent = worker[x].intent
                            /\ worker'[x].objs = worker[x].objs
                            /\ worker'[x].started = worker[x].started
                            /\ worker[x].failed => worker'[x].failed,
           task' = Notified(page.state[e].tasks),
           page' \in PageRecords, PageInv(page', LiveTasks, task, worker),
           page'.evals = page.evals, page'.destroyed = page.destroyed,
           \A t \in Tasks : task[t].promise = "done" =>
              page'.state[task[t].eval].chunks = page.state[task[t].eval].chunks,
           StreamInv'
    PROVE  RenderInv'
<1>1. /\ task' \in [Tasks -> TaskRecords] /\ LiveTasks' = LiveTasks
      /\ \A t \in Tasks :
            /\ task'[t].promise = task[t].promise /\ task'[t].eval = task[t].eval
            /\ task'[t].canvas = task[t].canvas /\ task'[t].idx = task[t].idx
            /\ task'[t].init = task[t].init /\ task'[t].graphics = task[t].graphics
            /\ task'[t].cancelled = task[t].cancelled
            /\ task'[t].scheduled => Live(t) /\ task[t].graphics
  BY NotifiedFacts
<1>2. RenderTypes'
  BY <1>1, TypesStay DEF RenderInv, RenderTypes
<1>3. PageInv(page, LiveTasks, task, worker)'
  <2>1. LiveTasks \in SUBSET Tasks
    BY DEF LiveTasks
  <2>2. PageInv(page', LiveTasks, task', worker)
    BY <1>1, <2>1, TasksMayChange
  <2>3. \A t \in LiveTasks : task'[t].eval \in Evals
    BY <1>1, <2>1 DEF RenderInv, PageInv, Fed
  <2>4. PageInv(page', LiveTasks, task', worker')
    BY <2>2, <2>3, WorkerMayChange
  <2> QED
    BY <1>1, <2>4, PageStays
<1>4. TaskInv'
  <2> SUFFICES ASSUME NEW t \in Tasks PROVE TaskAt(t)'
    BY DEF TaskInv
  <2>1. TaskAt(t) /\ task[t] \in TaskRecords
    BY DEF RenderInv, RenderTypes, TaskInv
  <2>2. Live(t)' <=> Live(t)
    BY <1>1 DEF Live
  <2>3. task[t].promise = "none" => ~task'[t].scheduled
    BY <1>1 DEF Live
  <2> QED
    BY <1>1, <2>1, <2>2, <2>3 DEF TaskAt
<1>5. CanvasInv'
  BY <1>1 DEF RenderInv, CanvasInv, Drawing, Live
<1>6. DrawnInv'
  <2> SUFFICES ASSUME NEW t \in Tasks PROVE DrawnAt(t)'
    BY DEF DrawnInv
  <2>1. DrawnAt(t) /\ (task[t].promise # "none" => task[t].eval \in Evals)
    BY DEF RenderInv, DrawnInv, TaskInv, TaskAt
  <2> QED
    BY <1>1, <2>1, DrawnGrows
<1> QED
  BY <1>2, <1>3, <1>4, <1>5, <1>6 DEF RenderInv

\* A list whose worker runs has been requested.
LEMMA RunsIsKnown ==
    ASSUME RenderInv, NEW e \in Evals, worker[e].intent # None \/ worker[e].started
    PROVE  e <= page.evals
<1>1. page.evals \in Nat /\ e \in Nat
  BY RenderAssumption DEF RenderInv, RenderTypes, PageRecords, Evals
<1>2. ~(page.evals < e)
  BY DEF RenderInv, PageInv, Unused
<1> QED
  BY <1>1, <1>2

LEMMA ReceiveChunkStep ==
    ASSUME RenderInv, NEW e \in Evals, ReceiveChunk(e)
    PROVE  RenderInv'
<1> DEFINE n == worker[e].sent + 1
           last == list.last[n]
           s == [page.state[e] EXCEPT !.chunks = n, !.last = last]
           p == [page EXCEPT !.state = [page.state EXCEPT ![e] = s]]
           wr == [worker[e] EXCEPT !.sent = n]
           p0 == [page EXCEPT !.state[e].chunks = n, !.state[e].last = last]
<1>1. /\ ListFits(list) /\ page \in PageRecords /\ worker \in [Evals -> WorkerRecords]
      /\ PageInv(page, LiveTasks, task, worker) /\ StreamInv
  BY DEF RenderInv, RenderTypes
<1>2. /\ NumChunks \in Nat /\ \A i \in 1 .. NumChunks : list.last[i] \in BOOLEAN
                                                         /\ (list.last[i] => i = NumChunks)
  BY <1>1 DEF ListFits, NumChunks
<1>3. /\ worker[e] \in WorkerRecords /\ page.state[e] \in IntentStates
      /\ worker[e].sent \in 0 .. NumChunks /\ page.state[e].chunks \in 0 .. NumChunks
  BY <1>1 DEF WorkerRecords, PageRecords, IntentStates
<1>4. /\ worker[e].sent < NumChunks /\ ~worker[e].failed /\ page.state[e].reader = "open"
      /\ worker' = [worker EXCEPT ![e].sent = @ + 1] /\ UNCHANGED <<list, inUse>>
  BY DEF ReceiveChunk, Runs
<1>5. n \in 1 .. NumChunks /\ n \in 0 .. NumChunks /\ page.state[e].chunks # NumChunks
  BY <1>1, <1>2, <1>3, <1>4 DEF StreamInv
<1>6. last \in BOOLEAN /\ (last => n = NumChunks)
  BY <1>2, <1>5
<1>7. wr \in WorkerRecords /\ wr.sent = n /\ wr.intent = worker[e].intent /\ wr.objs = worker[e].objs
      /\ wr.started = worker[e].started /\ wr.failed = worker[e].failed
  <2> HIDE DEF n
  <2> QED
    BY <1>3, <1>5 DEF WorkerRecords
<1>8. worker' = [worker EXCEPT ![e] = wr]
  BY <1>1, <1>4
<1>9. s \in IntentStates /\ s.tasks = page.state[e].tasks /\ s.timer = page.state[e].timer
      /\ s.reader = "open" /\ s.chunks = n /\ s.last = last
  <2> HIDE DEF n, last
  <2> QED
    BY <1>3, <1>4, <1>5, <1>6 DEF IntentStates
<1>10. p0 = p
  BY <1>1 DEF PageRecords
<1>10a. /\ task' = Notified(p0.state[e].tasks)
        /\ page' = IF last THEN TryCleanup(p0, TRUE) ELSE p0
  BY DEF ReceiveChunk
<1> HIDE DEF p0
<1>10b. task' = Notified(p.state[e].tasks) /\ page' = IF last THEN TryCleanup(p, TRUE) ELSE p
  BY <1>10, <1>10a
<1>10c. p = [page EXCEPT !.state = [page.state EXCEPT ![e] = s]]
  OBVIOUS
<1> HIDE DEF s, wr, p, last
<1>11. /\ p \in PageRecords /\ PageInv(p, LiveTasks, task, worker)
       /\ p.evals = page.evals /\ p.destroyed = page.destroyed /\ p.state[e] = s
       /\ \A x \in Evals : x # e => p.state[x] = page.state[x]
  <2>1. Moved(page, p, LiveTasks, task, worker, e, s)
    BY <1>1, <1>9, <1>10c, StateMoves
  <2> QED
    BY <2>1 DEF Moved
<1>12. task' = Notified(page.state[e].tasks)
  BY <1>9, <1>10b, <1>11
<1>13. Kept(p, page', LiveTasks, task, worker)
  <2>1. CASE last
    <3>1. TRUE \in BOOLEAN
      OBVIOUS
    <3> QED
      BY <1>10b, <1>11, <2>1, <3>1, TryCleanupKeeps
  <2>2. CASE ~last
    BY <1>10b, <1>11, <2>2, NothingKeeps
  <2> QED
    BY <2>1, <2>2
<1>14. /\ worker' \in [Evals -> WorkerRecords] /\ worker'[e] = wr
       /\ \A x \in Evals : x # e => worker'[x] = worker[x]
  BY <1>1, <1>7, <1>8
<1>15. StreamInv'
  <2> SUFFICES ASSUME NEW x \in Evals
               PROVE  /\ page'.state[x].chunks <= worker'[x].sent
                      /\ page'.state[x].last => page'.state[x].chunks = NumChunks
                                                \/ worker'[x].failed
    BY <1>4, ListStays DEF StreamInv
  <2>1. page'.state[x].chunks = p.state[x].chunks /\ page'.state[x].last = p.state[x].last
    BY <1>13 DEF Kept, Same
  <2>2. CASE x = e
    <3>1. page'.state[x].chunks = n /\ page'.state[x].last = last /\ worker'[x].sent = n
      BY <1>7, <1>9, <1>11, <1>14, <2>1, <2>2
    <3>2. n <= n
      BY <1>3
    <3> HIDE DEF n
    <3> QED
      BY <1>6, <3>1, <3>2
  <2>3. CASE x # e
    BY <1>1, <1>11, <1>14, <2>1, <2>3 DEF StreamInv
  <2> QED
    BY <2>2, <2>3
<1>16. \A t \in Tasks : task[t].promise = "done" =>
          page'.state[task[t].eval].chunks = page.state[task[t].eval].chunks
  <2> SUFFICES ASSUME NEW t \in Tasks, task[t].promise = "done"
               PROVE  page'.state[task[t].eval].chunks = page.state[task[t].eval].chunks
    OBVIOUS
  <2>1. task[t].eval \in Evals
    BY DEF RenderInv, TaskInv, TaskAt
  <2>2. page.state[task[t].eval].chunks = NumChunks \/ worker[task[t].eval].failed
    BY DEF RenderInv, DrawnInv, DrawnAt
  <2>3. task[t].eval # e
    BY <1>4, <1>5, <2>2
  <2> QED
    BY <1>11, <1>13, <2>1, <2>3 DEF Kept, Same
<1>17. page' \in PageRecords /\ PageInv(page', LiveTasks, task, worker)
       /\ page'.evals = page.evals /\ page'.destroyed = page.destroyed
  BY <1>11, <1>13 DEF Kept, Same
<1>18. \A x \in Evals : /\ worker'[x].intent = worker[x].intent
                        /\ worker'[x].objs = worker[x].objs
                        /\ worker'[x].started = worker[x].started
                        /\ worker[x].failed => worker'[x].failed
  BY <1>7, <1>14
<1> QED
  BY <1>4, <1>12, <1>14, <1>15, <1>16, <1>17, <1>18, MessageStep

LEMMA ReceiveErrorStep ==
    ASSUME RenderInv, NEW e \in Evals, ReceiveError(e)
    PROVE  RenderInv'
<1> DEFINE ready == IF page.state[e].ready = "pending" THEN "rejected" ELSE page.state[e].ready
           s == [page.state[e] EXCEPT !.reader = "none", !.last = TRUE, !.ready = ready]
           p == [page EXCEPT !.state = [page.state EXCEPT ![e] = s]]
           wr == [worker[e] EXCEPT !.failed = TRUE]
           p0 == [page EXCEPT !.state[e].reader = "none", !.state[e].last = TRUE,
                              !.state[e].ready = IF @ = "pending" THEN "rejected" ELSE @]
<1>1. /\ ListFits(list) /\ page \in PageRecords /\ worker \in [Evals -> WorkerRecords]
      /\ PageInv(page, LiveTasks, task, worker) /\ StreamInv
  BY DEF RenderInv, RenderTypes
<1>2. worker[e] \in WorkerRecords /\ page.state[e] \in IntentStates
  BY <1>1 DEF PageRecords
<1>3. worker' = [worker EXCEPT ![e].failed = TRUE] /\ UNCHANGED <<list, inUse>>
  BY DEF ReceiveError
<1>4. wr \in WorkerRecords /\ wr.sent = worker[e].sent /\ wr.intent = worker[e].intent
      /\ wr.objs = worker[e].objs /\ wr.started = worker[e].started /\ wr.failed = TRUE
  BY <1>2 DEF WorkerRecords
<1>5. worker' = [worker EXCEPT ![e] = wr]
  BY <1>1, <1>3
<1>6. ready \in {"pending", "resolved", "rejected"}
  BY <1>2 DEF IntentStates
<1>7. s \in IntentStates /\ s.tasks = page.state[e].tasks /\ s.timer = page.state[e].timer
      /\ s.chunks = page.state[e].chunks /\ s.last
  <2> HIDE DEF ready
  <2> QED
    BY <1>2, <1>6 DEF IntentStates
<1>8. p0 = p
  BY <1>1, <1>2 DEF PageRecords
<1>9. task' = Notified(p0.state[e].tasks) /\ page' = TryCleanup(p0, TRUE)
  BY DEF ReceiveError
<1>10. task' = Notified(p.state[e].tasks) /\ page' = TryCleanup(p, TRUE) /\ TRUE \in BOOLEAN
  BY <1>8, <1>9
<1>10c. p = [page EXCEPT !.state = [page.state EXCEPT ![e] = s]]
  OBVIOUS
<1> HIDE DEF s, wr, p0, p
<1>11. /\ p \in PageRecords /\ PageInv(p, LiveTasks, task, worker)
       /\ p.evals = page.evals /\ p.destroyed = page.destroyed /\ p.state[e] = s
       /\ \A x \in Evals : x # e => p.state[x] = page.state[x]
  <2>1. Moved(page, p, LiveTasks, task, worker, e, s)
    BY <1>1, <1>7, <1>10c, StateMoves
  <2> QED
    BY <2>1 DEF Moved
<1>12. task' = Notified(page.state[e].tasks)
  BY <1>7, <1>10, <1>11
<1>13. Kept(p, page', LiveTasks, task, worker)
  BY <1>10, <1>11, TryCleanupKeeps
<1>14. /\ worker' \in [Evals -> WorkerRecords] /\ worker'[e] = wr
       /\ \A x \in Evals : x # e => worker'[x] = worker[x]
  BY <1>1, <1>4, <1>5
<1>15. StreamInv'
  <2> SUFFICES ASSUME NEW x \in Evals
               PROVE  /\ page'.state[x].chunks <= worker'[x].sent
                      /\ page'.state[x].last => page'.state[x].chunks = NumChunks
                                                \/ worker'[x].failed
    BY <1>3, ListStays DEF StreamInv
  <2>1. page'.state[x].chunks = p.state[x].chunks /\ page'.state[x].last = p.state[x].last
    BY <1>13 DEF Kept, Same
  <2>2. CASE x = e
    BY <1>1, <1>4, <1>7, <1>11, <1>14, <2>1, <2>2 DEF StreamInv
  <2>3. CASE x # e
    BY <1>1, <1>11, <1>14, <2>1, <2>3 DEF StreamInv
  <2> QED
    BY <2>2, <2>3
<1>16. \A t \in Tasks : task[t].promise = "done" =>
          page'.state[task[t].eval].chunks = page.state[task[t].eval].chunks
  <2> SUFFICES ASSUME NEW t \in Tasks, task[t].promise = "done"
               PROVE  page'.state[task[t].eval].chunks = page.state[task[t].eval].chunks
    OBVIOUS
  <2>1. task[t].eval \in Evals
    BY DEF RenderInv, TaskInv, TaskAt
  <2> QED
    BY <1>7, <1>11, <1>13, <2>1 DEF Kept, Same
<1>17. page' \in PageRecords /\ PageInv(page', LiveTasks, task, worker)
       /\ page'.evals = page.evals /\ page'.destroyed = page.destroyed
  BY <1>11, <1>13 DEF Kept, Same
<1>18. \A x \in Evals : /\ worker'[x].intent = worker[x].intent
                        /\ worker'[x].objs = worker[x].objs
                        /\ worker'[x].started = worker[x].started
                        /\ worker[x].failed => worker'[x].failed
  BY <1>4, <1>14
<1> QED
  BY <1>3, <1>12, <1>14, <1>15, <1>16, <1>17, <1>18, MessageStep

LEMMA ReadyKeeps ==
    ASSUME NEW p \in PageRecords, NEW live, NEW tk, NEW w, PageInv(p, live, tk, w),
           NEW e \in Evals, NEW q, q = [p EXCEPT !.state[e].ready = "resolved"]
    PROVE  Kept(p, q, live, tk, w)
<1> DEFINE s == [p.state[e] EXCEPT !.ready = "resolved"]
           st == [p.state EXCEPT ![e] = s]
<1>0. q = [p EXCEPT !.state = st]
  BY DEF PageRecords
<1>1. p.state[e] \in IntentStates /\ p.intentStates \in [Intents -> {None} \cup Evals]
  BY DEF PageRecords
<1>2. /\ s \in IntentStates /\ s.tasks = p.state[e].tasks /\ s.chunks = p.state[e].chunks
      /\ s.last = p.state[e].last /\ s.timer = p.state[e].timer /\ s.reader = p.state[e].reader
  BY <1>1 DEF IntentStates
<1> HIDE DEF s
<1>3. /\ st \in [Evals -> IntentStates]
      /\ \A x \in Evals : /\ st[x].tasks = p.state[x].tasks /\ st[x].chunks = p.state[x].chunks
                          /\ st[x].last = p.state[x].last /\ st[x].timer = p.state[x].timer
                          /\ st[x].reader = p.state[x].reader
  BY <1>2 DEF PageRecords
<1> HIDE DEF st
<1>4. q \in PageRecords
  BY <1>0, <1>3 DEF PageRecords
<1>5. /\ q.state = st /\ q.intentStates = p.intentStates /\ q.objs = p.objs /\ q.waits = p.waits
      /\ q.evals = p.evals /\ q.destroyed = p.destroyed /\ q.delayed = p.delayed
  BY <1>0 DEF PageRecords
<1>6. Fed(q, live, tk, w) /\ OnlyLive(q, live, tk)
  BY <1>3, <1>5 DEF PageInv, Fed, OnlyLive
<1>7. On(q)
  BY <1>1, <1>3, <1>5 DEF PageInv, On
<1>8. Stored(q, w) /\ IfDestroyed(q, live)
  BY <1>5 DEF PageInv, Stored, IfDestroyed
<1>9. Unused(q, w)
  BY <1>3, <1>5 DEF PageInv, Unused
<1>10. Same(p, q)
  BY <1>3, <1>5 DEF Same
<1> QED
  BY <1>4, <1>6, <1>7, <1>8, <1>9, <1>10 DEF Kept, PageInv

LEMMA StartRenderPageStep ==
    ASSUME RenderInv, NEW e \in Evals, StartRenderPage(e)
    PROVE  RenderInv'
<1> DEFINE now == page.intentStates[worker[e].intent]
           wr == [worker[e] EXCEPT !.started = TRUE]
<1>1. /\ ListFits(list) /\ page \in PageRecords /\ worker \in [Evals -> WorkerRecords]
      /\ PageInv(page, LiveTasks, task, worker) /\ StreamInv
      /\ task \in [Tasks -> TaskRecords] /\ inUse \subseteq Canvases
  BY DEF RenderInv, RenderTypes
<1>2. worker[e] \in WorkerRecords
  BY <1>1
<1>3. /\ UNCHANGED <<list, task, inUse>> /\ worker' = [worker EXCEPT ![e].started = TRUE]
      /\ worker[e].intent # None
      /\ page' = IF page.destroyed \/ now = None \/ page.state[now].ready # "pending" THEN page
                 ELSE [page EXCEPT !.state[now].ready = "resolved"]
  BY DEF StartRenderPage, Runs
<1>4. wr \in WorkerRecords /\ wr.sent = worker[e].sent /\ wr.intent = worker[e].intent
      /\ wr.objs = worker[e].objs /\ wr.failed = worker[e].failed
  BY <1>2 DEF WorkerRecords
<1>5. worker' = [worker EXCEPT ![e] = wr]
  BY <1>1, <1>3
<1> HIDE DEF wr
<1>6. /\ worker' \in [Evals -> WorkerRecords]
      /\ \A x \in Evals : /\ worker'[x].sent = worker[x].sent
                          /\ worker'[x].intent = worker[x].intent
                          /\ worker'[x].objs = worker[x].objs
                          /\ worker'[x].failed = worker[x].failed
                          /\ x # e => worker'[x] = worker[x]
  BY <1>1, <1>4, <1>5
<1>7. Kept(page, page', LiveTasks, task, worker)
  <2>1. CASE page.destroyed \/ now = None \/ page.state[now].ready # "pending"
    BY <1>1, <1>3, <2>1, NothingKeeps
  <2>2. CASE ~(page.destroyed \/ now = None \/ page.state[now].ready # "pending")
    <3>1. worker[e].intent \in Intents
      BY <1>2, <1>3 DEF WorkerRecords
    <3>2. now \in Evals
      BY <1>1, <2>2, <3>1 DEF PageRecords
    <3>3. page' = [page EXCEPT !.state[now].ready = "resolved"]
      BY <1>3, <2>2
    <3> HIDE DEF now
    <3> QED
      BY <1>1, <3>2, <3>3, ReadyKeeps
  <2> QED
    BY <2>1, <2>2
<1>8. /\ page' \in PageRecords /\ PageInv(page', LiveTasks, task, worker)
      /\ Same(page, page')
  BY <1>7 DEF Kept
<1>9. LiveTasks' = LiveTasks
  BY <1>3 DEF LiveTasks, Live
<1>10. RenderTypes'
  BY <1>1, <1>3, <1>6, <1>8, TypesStay DEF RenderInv
<1>11. PageInv(page, LiveTasks, task, worker)'
  <2>1. e <= page.evals
    BY <1>3, RunsIsKnown
  <2>2. page.evals \in Nat /\ page'.evals = page.evals /\ e \in Nat
    BY <1>1, <1>8, RenderAssumption DEF Same, PageRecords, Evals
  <2>3. \A x \in Evals : page'.evals < x => worker'[x].started = worker[x].started
    <3> SUFFICES ASSUME NEW x \in Evals, page.evals < x
                 PROVE  worker'[x].started = worker[x].started
      BY <2>2
    <3>1. x # e
      BY <2>1, <2>2
    <3> QED
      BY <1>6, <3>1
  <2>4. \A t \in LiveTasks : task[t].eval \in Evals
    BY <1>1 DEF PageInv, Fed
  <2>5. PageInv(page', LiveTasks, task, worker')
    BY <1>6, <1>8, <2>3, <2>4, WorkerMayChange
  <2> QED
    BY <1>3, <1>9, <2>5, PageStays
<1>12. TaskInv'
  BY <1>3, <1>8, TaskStays DEF RenderInv, TaskInv, Same
<1>13. CanvasInv'
  BY <1>3 DEF RenderInv, CanvasInv, Drawing, Live
<1>14. StreamInv'
  <2> SUFFICES ASSUME NEW x \in Evals
               PROVE  /\ page'.state[x].chunks <= worker'[x].sent
                      /\ page'.state[x].last => page'.state[x].chunks = NumChunks
                                                \/ worker'[x].failed
    BY <1>3, ListStays DEF StreamInv
  <2>1. /\ page'.state[x].chunks = page.state[x].chunks /\ worker'[x].sent = worker[x].sent
        /\ page'.state[x].last = page.state[x].last /\ worker'[x].failed = worker[x].failed
    BY <1>6, <1>8 DEF Same
  <2> QED
    BY <1>1, <2>1 DEF StreamInv
<1>15. DrawnInv'
  <2> SUFFICES ASSUME NEW t \in Tasks PROVE DrawnAt(t)'
    BY DEF DrawnInv
  <2>1. DrawnAt(t) /\ (task[t].promise # "none" => task[t].eval \in Evals)
    BY DEF RenderInv, DrawnInv, TaskInv, TaskAt
  <2> QED
    BY <1>3, <1>6, <1>8, <2>1, DrawnGrows DEF Same
<1> QED
  BY <1>10, <1>11, <1>12, <1>13, <1>14, <1>15 DEF RenderInv

LEMMA ReceiveObjStep ==
    ASSUME RenderInv, NEW e \in Evals, NEW d \in Images, ReceiveObj(e, d)
    PROVE  RenderInv'
<1> DEFINE o == <<e, d>>
           wr == [worker[e] EXCEPT !.objs = worker[e].objs \cup {d}]
           woken == {t \in Tasks : page.waits[t] = o}
           objs == page.objs \cup {o}
           large == page.large \/ d \in Large
           ws == [t \in Tasks |-> IF t \in woken THEN NotWaiting ELSE page.waits[t]]
           q == [page EXCEPT !.objs = objs, !.large = large, !.waits = ws]
<1>1. /\ ListFits(list) /\ page \in PageRecords /\ worker \in [Evals -> WorkerRecords]
      /\ PageInv(page, LiveTasks, task, worker) /\ StreamInv /\ TaskInv /\ DrawnInv
      /\ task \in [Tasks -> TaskRecords] /\ inUse \subseteq Canvases
  BY DEF RenderInv, RenderTypes
<1>2. worker[e] \in WorkerRecords
  BY <1>1
<1>3. /\ UNCHANGED <<list, inUse>> /\ worker[e].started
      /\ worker' = [worker EXCEPT ![e].objs = @ \cup {d}]
  BY DEF ReceiveObj
<1>4. wr \in WorkerRecords /\ wr.sent = worker[e].sent /\ wr.intent = worker[e].intent
      /\ wr.objs = worker[e].objs \cup {d} /\ wr.failed = worker[e].failed
      /\ wr.started = worker[e].started
  BY <1>2 DEF WorkerRecords
<1>5. worker' = [worker EXCEPT ![e] = wr]
  BY <1>1, <1>3
<1> HIDE DEF wr
<1>6. /\ worker' \in [Evals -> WorkerRecords] /\ worker'[e].objs = worker[e].objs \cup {d}
      /\ \A x \in Evals : /\ worker'[x].sent = worker[x].sent
                          /\ worker'[x].intent = worker[x].intent
                          /\ worker'[x].started = worker[x].started
                          /\ worker'[x].failed = worker[x].failed
                          /\ worker[x].objs \subseteq worker'[x].objs
                          /\ x # e => worker'[x] = worker[x]
  BY <1>1, <1>4, <1>5
<1>7. e <= page.evals /\ page.evals \in Nat /\ e \in Nat
  BY <1>1, <1>3, RunsIsKnown, RenderAssumption DEF PageRecords, Evals
<1>8. /\ Fed(page, LiveTasks, task, worker') /\ Unused(page, worker')
  <2>1. Fed(page, LiveTasks, task, worker')
    BY <1>1, <1>6 DEF PageInv, Fed
  <2>2. \A x \in Evals : page.evals < x => x # e
    BY <1>7
  <2>3. Unused(page, worker')
    BY <1>1, <1>6, <2>2 DEF PageInv, Unused
  <2> QED
    BY <2>1, <2>3
<1>9. \A x \in Evals : \A y \in Images : <<x, y>> \in page.objs => y \in worker'[x].objs
  BY <1>1, <1>6 DEF PageInv, Stored
<1>10. \A t \in Tasks : page.waits[t] = o => Live(t) /\ task[t].graphics
  <2>1. o # NotWaiting
    BY DEF NotWaiting, None, Evals
  <2> QED
    BY <1>1, <2>1 DEF PageInv, OnlyLive, LiveTasks
<1>11. /\ page' \in PageRecords /\ Same(page, page') /\ PageInv(page', LiveTasks, task, worker')
       /\ task' \in [Tasks -> TaskRecords]
       /\ \A t \in Tasks : \/ task'[t] = task[t]
                           \/ /\ Live(t) /\ task[t].graphics
                              /\ task'[t] = [task[t] EXCEPT !.scheduled = TRUE]
  <2>1. CASE KeepsObj(o)
    <3>1. task' = [t \in Tasks |-> IF t \in woken THEN [task[t] EXCEPT !.scheduled = TRUE]
                                   ELSE task[t]]
      BY <2>1 DEF ReceiveObj
    <3>2. page' = [page EXCEPT !.objs = @ \cup {o}, !.large = @ \/ d \in Large,
                      !.waits = [t \in Tasks |-> IF t \in woken THEN NotWaiting ELSE @[t]]]
      BY <2>1 DEF ReceiveObj
    <3>3. page' = q
      BY <1>1, <3>2 DEF PageRecords
    <3>4. /\ ws \in [Tasks -> Objects \cup {NotWaiting, Forgotten}] /\ large \in BOOLEAN
          /\ \A t \in Tasks : ws[t] = NotWaiting \/ ws[t] = page.waits[t]
      BY <1>1 DEF PageRecords
    <3>5. objs \in SUBSET Objects
      BY <1>1 DEF PageRecords, Objects
    <3>6. ~page.destroyed
      BY <2>1 DEF KeepsObj
    <3> HIDE DEF ws, large, objs
    <3>7. page' \in PageRecords
      BY <1>1, <3>3, <3>4, <3>5 DEF PageRecords
    <3>8. /\ page'.state = page.state /\ page'.intentStates = page.intentStates
          /\ page'.objs = objs /\ page'.waits = ws /\ page'.evals = page.evals
          /\ page'.destroyed = page.destroyed /\ page'.delayed = page.delayed
      BY <1>1, <3>3 DEF PageRecords
    <3>9. Fed(page', LiveTasks, task, worker') /\ On(page') /\ Unused(page', worker')
      BY <1>1, <1>8, <3>8 DEF PageInv, Fed, On, Unused
    <3>10. OnlyLive(page', LiveTasks, task)
      BY <1>1, <3>4, <3>8 DEF PageInv, OnlyLive
    <3>11. Stored(page', worker')
      <4>1. \A x \in Evals : \A y \in Images : <<x, y>> \in objs => y \in worker'[x].objs
        BY <1>6, <1>9 DEF objs
      <4>2. ASSUME NEW i \in Intents, NEW y \in Images, page.intentStates[i] # None,
                   y \in worker'[page.intentStates[i]].objs
            PROVE  <<page.intentStates[i], y>> \in objs
        <5>1. page.intentStates[i] \in Evals
          BY <1>1, <4>2 DEF PageRecords
        <5>2. CASE page.intentStates[i] = e /\ y = d
          BY <5>2 DEF objs
        <5>3. CASE ~(page.intentStates[i] = e /\ y = d)
          <6>1. y \in worker[page.intentStates[i]].objs
            BY <1>6, <4>2, <5>1, <5>3
          <6>2. <<page.intentStates[i], y>> \in page.objs
            BY <1>1, <3>6, <4>2, <6>1 DEF PageInv, Stored
          <6> QED
            BY <6>2 DEF objs
        <5> QED
          BY <5>2, <5>3
      <4> QED
        BY <3>8, <4>1, <4>2 DEF Stored
    <3>12. IfDestroyed(page', LiveTasks)
      BY <3>6, <3>8 DEF IfDestroyed
    <3>13. \A t \in Tasks : t \in woken => Live(t) /\ task[t].graphics
      BY <1>10
    <3>14. \A t \in Tasks : task'[t] = IF t \in woken THEN [task[t] EXCEPT !.scheduled = TRUE]
                                       ELSE task[t]
      BY <3>1
    <3>15. \A t \in Tasks : task[t] \in TaskRecords
                            /\ [task[t] EXCEPT !.scheduled = TRUE] \in TaskRecords
      BY <1>1 DEF TaskRecords
    <3> HIDE DEF woken
    <3>16. task' \in [Tasks -> TaskRecords]
      BY <3>1, <3>15
    <3> QED
      BY <3>7, <3>8, <3>9, <3>10, <3>11, <3>12, <3>13, <3>14, <3>16 DEF Same, PageInv
  <2>2. CASE ~KeepsObj(o)
    <3>1. page' = page /\ task' = task
      BY <2>2 DEF ReceiveObj
    <3>2. Stored(page, worker')
      <4>1. ASSUME ~page.destroyed, NEW i \in Intents, NEW y \in Images,
                   page.intentStates[i] # None, y \in worker'[page.intentStates[i]].objs
            PROVE  <<page.intentStates[i], y>> \in page.objs
        <5>1. page.intentStates[i] \in Evals
          BY <1>1, <4>1 DEF PageRecords
        <5>2. CASE page.intentStates[i] = e /\ y = d
          <6>1. page.intentStates[i] \in Registered(page)
            BY <4>1 DEF Registered
          <6>2. o \in page.objs
            BY <2>2, <4>1, <6>1 DEF KeepsObj
          <6> QED
            BY <5>2, <6>2
        <5>3. CASE ~(page.intentStates[i] = e /\ y = d)
          <6>1. y \in worker[page.intentStates[i]].objs
            BY <1>6, <4>1, <5>1, <5>3
          <6> QED
            BY <1>1, <4>1, <6>1 DEF PageInv, Stored
        <5> QED
          BY <5>2, <5>3
      <4> QED
        BY <1>9, <4>1 DEF Stored
    <3>3. PageInv(page, LiveTasks, task, worker')
      BY <1>1, <1>8, <3>2 DEF PageInv
    <3> QED
      BY <1>1, <3>1, <3>3 DEF Same
  <2> QED
    BY <2>1, <2>2
<1>12. \A t \in Tasks :
          /\ task'[t].promise = task[t].promise /\ task'[t].eval = task[t].eval
          /\ task'[t].canvas = task[t].canvas /\ task'[t].idx = task[t].idx
          /\ task'[t].init = task[t].init /\ task'[t].graphics = task[t].graphics
          /\ task'[t].cancelled = task[t].cancelled
          /\ task'[t].scheduled => Live(t) /\ task[t].graphics
  <2> SUFFICES ASSUME NEW t \in Tasks
               PROVE  /\ task'[t].promise = task[t].promise /\ task'[t].eval = task[t].eval
                      /\ task'[t].canvas = task[t].canvas /\ task'[t].idx = task[t].idx
                      /\ task'[t].init = task[t].init /\ task'[t].graphics = task[t].graphics
                      /\ task'[t].cancelled = task[t].cancelled
                      /\ task'[t].scheduled => Live(t) /\ task[t].graphics
    OBVIOUS
  <2>1. task[t] \in TaskRecords /\ TaskAt(t)
    BY <1>1 DEF TaskInv
  <2>2. CASE task'[t] = task[t]
    BY <2>1, <2>2 DEF TaskAt
  <2>3. CASE /\ Live(t) /\ task[t].graphics
             /\ task'[t] = [task[t] EXCEPT !.scheduled = TRUE]
    <3> DEFINE r == task[t]
    <3>1. LET s == [r EXCEPT !.scheduled = TRUE]
          IN  /\ s.promise = r.promise /\ s.eval = r.eval /\ s.canvas = r.canvas
              /\ s.idx = r.idx /\ s.init = r.init /\ s.graphics = r.graphics
              /\ s.cancelled = r.cancelled
      BY <2>1 DEF TaskRecords
    <3> QED
      BY <2>3, <3>1
  <2> QED
    BY <1>11, <2>2, <2>3
<1>13. LiveTasks' = LiveTasks
  BY <1>12 DEF LiveTasks, Live
<1>14. RenderTypes'
  BY <1>1, <1>3, <1>6, <1>11, TypesStay DEF RenderInv
<1>15. PageInv(page, LiveTasks, task, worker)'
  <2>1. LiveTasks \in SUBSET Tasks /\ \A t \in LiveTasks : t \in Tasks
    BY DEF LiveTasks
  <2>2. PageInv(page', LiveTasks, task', worker')
    BY <1>11, <1>12, <2>1, TasksMayChange
  <2> QED
    BY <1>3, <1>13, <2>2, PageStays
<1>16. TaskInv'
  <2> SUFFICES ASSUME NEW t \in Tasks PROVE TaskAt(t)'
    BY DEF TaskInv
  <2>1. TaskAt(t) /\ task[t] \in TaskRecords
    BY <1>1 DEF TaskInv
  <2>2. Live(t)' <=> Live(t)
    BY <1>12 DEF Live
  <2>3. task[t].promise = "none" => ~task'[t].scheduled
    BY <1>12 DEF Live
  <2>4. page'.evals = page.evals /\ page'.destroyed = page.destroyed
    BY <1>11 DEF Same
  <2> QED
    BY <1>12, <2>1, <2>2, <2>3, <2>4 DEF TaskAt
<1>17. CanvasInv'
  BY <1>3, <1>12 DEF RenderInv, CanvasInv, Drawing, Live
<1>18. StreamInv'
  BY <1>1, <1>3, <1>6, <1>11, ListStays DEF StreamInv, Same
<1>19. DrawnInv'
  <2> SUFFICES ASSUME NEW t \in Tasks PROVE DrawnAt(t)'
    BY DEF DrawnInv
  <2>1. DrawnAt(t) /\ (task[t].promise # "none" => task[t].eval \in Evals)
    BY <1>1 DEF DrawnInv, TaskInv, TaskAt
  <2> QED
    BY <1>3, <1>6, <1>11, <1>12, <2>1, DrawnGrows DEF Same
<1> QED
  BY <1>14, <1>15, <1>16, <1>17, <1>18, <1>19 DEF RenderInv

-----------------------------------------------------------------------------
(* A new render, and the end of the page.                                  *)

\* What a page that takes a task is afterwards.
Wanted(p, q, n, live, tk, w) ==
    /\ q \in PageRecords /\ PageInv(q, live, tk, w) /\ q.evals = n /\ q.destroyed = p.destroyed
    /\ \A x \in Evals : /\ q.state[x].chunks = p.state[x].chunks
                        /\ q.state[x].last = p.state[x].last

\* The page q is p with one more task in state e of intent i, which is found or made.
Takes(p, q, t, i, e, n, s) ==
    /\ \/ p.intentStates[i] = e /\ n = p.evals
       \/ p.intentStates[i] = None /\ e = p.evals + 1 /\ n = e
    /\ s.tasks = p.state[e].tasks \cup {t} /\ ~s.timer
    /\ s.chunks = p.state[e].chunks /\ s.last = p.state[e].last
    /\ s.reader = "open" \/ (s.reader = p.state[e].reader /\ p.intentStates[i] = e)
    /\ q = [p EXCEPT !.pendingCleanup = FALSE, !.delayed = FALSE, !.evals = n,
                     !.intentStates = [p.intentStates EXCEPT ![i] = e],
                     !.state = [p.state EXCEPT ![e] = s]]

\* The task draws list e, and the worker makes it for intent i.
Asks(live, tk, tk2, w, w2, t, i, e) ==
    /\ tk2[t].eval = e
    /\ \A u \in live : tk2[u].eval = tk[u].eval /\ (tk[u].graphics => tk2[u].graphics)
    /\ \A x \in Evals : /\ w2[x].started = w[x].started /\ w2[x].objs = w[x].objs
                         /\ w2[x].intent = IF x = e THEN i ELSE w[x].intent

\* The state of an intent takes one more task, whether it is found or made.
LEMMA StateTakesTask ==
    ASSUME NEW p \in PageRecords, NEW live, NEW tk, NEW w, PageInv(p, live, tk, w), ~p.destroyed,
           NEW t \in Tasks, t \notin live, NEW i \in Intents, NEW e \in Evals,
           NEW n \in 0 .. MaxEvals, NEW s \in IntentStates, NEW tk2, NEW w2, NEW q,
           Takes(p, q, t, i, e, n, s), Asks(live, tk, tk2, w, w2, t, i, e)
    PROVE  Wanted(p, q, n, live \cup {t}, tk2, w2)
<1> DEFINE f == [p.intentStates EXCEPT ![i] = e]
           st == [p.state EXCEPT ![e] = s]
<1>0. q = [p EXCEPT !.pendingCleanup = FALSE, !.delayed = FALSE, !.evals = n,
                    !.intentStates = f, !.state = st]
  BY DEF Takes
<1>0a. /\ \/ p.intentStates[i] = e /\ n = p.evals
          \/ p.intentStates[i] = None /\ e = p.evals + 1 /\ n = e
       /\ s.tasks = p.state[e].tasks \cup {t} /\ ~s.timer
       /\ s.chunks = p.state[e].chunks /\ s.last = p.state[e].last
       /\ s.reader = "open" \/ (s.reader = p.state[e].reader /\ p.intentStates[i] = e)
  BY DEF Takes
<1>0b. /\ tk2[t].eval = e
       /\ \A u \in live : tk2[u].eval = tk[u].eval /\ (tk[u].graphics => tk2[u].graphics)
       /\ \A x \in Evals : /\ w2[x].started = w[x].started /\ w2[x].objs = w[x].objs
                            /\ w2[x].intent = IF x = e THEN i ELSE w[x].intent
  BY DEF Asks
<1>1. /\ p.intentStates \in [Intents -> {None} \cup Evals] /\ p.state \in [Evals -> IntentStates]
      /\ p.evals \in Nat /\ \A x \in Evals : x \in Nat /\ x # None
  BY RenderAssumption DEF PageRecords, Evals, None
<1>2. /\ f \in [Intents -> {None} \cup Evals] /\ f[i] = e
      /\ \A j \in Intents : j # i => f[j] = p.intentStates[j]
  BY <1>1
<1>3. /\ st \in [Evals -> IntentStates] /\ st[e] = s
      /\ \A x \in Evals : x # e => st[x] = p.state[x]
  BY <1>1
<1> HIDE DEF f, st
<1>4. q \in PageRecords
  BY <1>0, <1>2, <1>3 DEF PageRecords
<1>5. /\ q.state = st /\ q.intentStates = f /\ q.objs = p.objs /\ q.waits = p.waits
      /\ q.evals = n /\ q.destroyed = p.destroyed /\ q.delayed = FALSE
  BY <1>0 DEF PageRecords
<1>6. /\ \A j \in Intents : p.intentStates[j] <= p.evals
      /\ \A x \in Evals : p.evals < x => /\ ~p.state[x].timer /\ ~w[x].started
                                         /\ w[x].objs = {} /\ w[x].intent = None
  BY DEF PageInv, Unused
<1>7. e <= n /\ p.evals <= n /\ n \in Nat /\ e \in Nat
  BY <1>0a, <1>1, <1>6, RenderAssumption
<1>8. Fed(q, live \cup {t}, tk2, w2)
  <2> SUFFICES ASSUME NEW u \in live \cup {t}
               PROVE  /\ tk2[u].eval \in Evals /\ w2[tk2[u].eval].intent \in Intents
                      /\ f[w2[tk2[u].eval].intent] = tk2[u].eval
                      /\ u \in st[tk2[u].eval].tasks
    BY <1>5 DEF Fed
  <2>1. CASE u = t
    BY <1>0a, <1>0b, <1>2, <1>3, <2>1
  <2>2. CASE u # t
    <3> DEFINE x == tk[u].eval
    <3>1. /\ x \in Evals /\ w[x].intent \in Intents /\ p.intentStates[w[x].intent] = x
          /\ u \in p.state[x].tasks /\ tk2[u].eval = x
      BY <1>0b, <2>2 DEF PageInv, Fed
    <3> HIDE DEF x
    <3>2. CASE x = e
      BY <1>0a, <1>0b, <1>2, <1>3, <3>1, <3>2
    <3>3. CASE x # e
      <4>1. w[x].intent # i
        BY <1>0a, <1>1, <3>1, <3>3
      <4>2. w2[x].intent = w[x].intent /\ f[w[x].intent] = x
        BY <1>0b, <1>2, <3>1, <3>3, <4>1
      <4> QED
        BY <1>3, <3>1, <3>3, <4>2
    <3> QED
      BY <3>2, <3>3
  <2> QED
    BY <2>1, <2>2
<1>9. OnlyLive(q, live \cup {t}, tk2)
  <2>1. ASSUME NEW x \in Evals
        PROVE  /\ st[x].timer => st[x].tasks = {}
               /\ \A u \in st[x].tasks : u \in live \cup {t} /\ tk2[u].eval = x
    <3>1. /\ p.state[x].timer => p.state[x].tasks = {}
          /\ \A u \in p.state[x].tasks : u \in live /\ tk2[u].eval = x
      BY <1>0b DEF PageInv, OnlyLive
    <3>2. CASE x = e
      BY <1>0a, <1>0b, <1>3, <3>1, <3>2
    <3>3. CASE x # e
      BY <1>3, <3>1, <3>3
    <3> QED
      BY <3>2, <3>3
  <2>2. \A u \in Tasks : p.waits[u] # NotWaiting =>
            p.waits[u] # Forgotten /\ u \in live \cup {t} /\ tk2[u].graphics
    BY <1>0b DEF PageInv, OnlyLive
  <2>3. \A x \in Evals : /\ st[x].timer => st[x].tasks = {}
                         /\ \A u \in st[x].tasks : u \in live \cup {t} /\ tk2[u].eval = x
    BY <2>1
  <2>4. q.state = st /\ q.waits = p.waits
    BY <1>5
  <2>5. \A x \in Evals : /\ q.state[x].timer => q.state[x].tasks = {}
                         /\ \A u \in q.state[x].tasks : u \in live \cup {t} /\ tk2[u].eval = x
    BY <2>3, <2>4, Zenon
  <2>6. \A u \in Tasks : q.waits[u] # NotWaiting =>
            q.waits[u] # Forgotten /\ u \in live \cup {t} /\ tk2[u].graphics
    BY <2>2, <2>4, Zenon
  <2> QED
    BY <2>5, <2>6 DEF OnlyLive
<1>10. On(q)
  <2> SUFFICES ASSUME NEW j \in Intents, f[j] # None
               PROVE  st[f[j]].reader = "open" \/ st[f[j]].last
    BY <1>5 DEF On
  <2>1. f[j] \in Evals
    BY <1>2
  <2>2. \A k \in Intents : p.intentStates[k] # None =>
             p.state[p.intentStates[k]].reader = "open" \/ p.state[p.intentStates[k]].last
    BY DEF PageInv, On
  <2>3. CASE f[j] = e
    <3>1. CASE s.reader = "open"
      BY <1>3, <2>3, <3>1
    <3>2. CASE s.reader = p.state[e].reader /\ p.intentStates[i] = e
      <4>1. p.state[e].reader = "open" \/ p.state[e].last
        BY <1>1, <2>2, <3>2
      <4> QED
        BY <1>0a, <1>3, <2>3, <3>2, <4>1
    <3> QED
      BY <1>0a, <3>1, <3>2
  <2>4. CASE f[j] # e
    <3>1. f[j] = p.intentStates[j] /\ st[f[j]] = p.state[f[j]]
      BY <1>2, <1>3, <2>1, <2>4
    <3> QED
      BY <2>2, <3>1
  <2> QED
    BY <2>3, <2>4
<1>11. Stored(q, w2)
  <2>1. \A x \in Evals : \A d \in Images : <<x, d>> \in p.objs => d \in w2[x].objs
    BY <1>0b DEF PageInv, Stored
  <2>2. ASSUME NEW j \in Intents, NEW d \in Images, f[j] # None, d \in w2[f[j]].objs
        PROVE  <<f[j], d>> \in p.objs
    <3>1. f[j] \in Evals /\ d \in w[f[j]].objs
      BY <1>0b, <1>2, <2>2
    <3>2. f[j] = p.intentStates[j]
      <4>1. CASE j # i
        BY <1>2, <4>1
      <4>2. CASE j = i /\ p.intentStates[i] = e
        BY <1>2, <4>2
      <4>3. CASE j = i /\ e = p.evals + 1
        <5>1. p.evals < e
          BY <1>1, <4>3
        <5>2. d \in w[e].objs
          BY <1>2, <3>1, <4>3
        <5> QED
          BY <1>6, <5>1, <5>2
      <4> QED
        BY <1>0a, <4>1, <4>2, <4>3
    <3> QED
      BY <2>2, <3>1, <3>2 DEF PageInv, Stored
  <2> QED
    BY <1>5, <2>1, <2>2 DEF Stored
<1>12. Unused(q, w2)
  <2>1. \A j \in Intents : f[j] <= n
    <3> SUFFICES ASSUME NEW j \in Intents PROVE f[j] <= n
      OBVIOUS
    <3>1. CASE j = i
      BY <1>2, <1>7, <3>1
    <3>2. CASE j # i
      <4> DEFINE x == p.intentStates[j]
      <4>1. x \in Nat /\ x <= p.evals /\ f[j] = x
        BY <1>1, <1>2, <1>6, <3>2 DEF None
      <4> HIDE DEF x
      <4> QED
        BY <1>1, <1>7, <4>1
    <3> QED
      BY <3>1, <3>2
  <2>2. ASSUME NEW x \in Evals, n < x
        PROVE  ~st[x].timer /\ ~w2[x].started /\ w2[x].objs = {} /\ w2[x].intent = None
    <3>1. p.evals < x /\ x # e
      BY <1>1, <1>7, <2>2
    <3> QED
      BY <1>0b, <1>3, <1>6, <3>1
  <2> QED
    BY <1>5, <2>1, <2>2 DEF Unused
<1>13. IfDestroyed(q, live \cup {t})
  BY <1>5 DEF IfDestroyed
<1>14. \A x \in Evals : st[x].chunks = p.state[x].chunks /\ st[x].last = p.state[x].last
  BY <1>0a, <1>3
<1> QED
  BY <1>4, <1>5, <1>8, <1>9, <1>10, <1>11, <1>12, <1>13, <1>14 DEF Wanted, PageInv

\* A render takes state s of list e; n lists have been requested by then.
MadeBy(t, i, c, e, n, s) ==
    /\ Takes(page, page', t, i, e, n, s)
    /\ task' = [task EXCEPT ![t].promise = "pending", ![t].eval = e,
                            ![t].canvas = c, ![t].init = TRUE]
    /\ worker' = [worker EXCEPT ![e].intent = i]

LEMMA RenderMakes ==
    ASSUME page \in PageRecords, PageInv(page, LiveTasks, task, worker),
           NEW t \in Tasks, NEW i \in Intents, NEW c, Render(t, i, c)
    PROVE  \E e \in Evals : \E n \in 0 .. MaxEvals : \E s \in IntentStates :
             MadeBy(t, i, c, e, n, s)
<1> DEFINE p0 == [page EXCEPT !.pendingCleanup = FALSE, !.delayed = FALSE]
           p == StateForRender(p0, i)
           e0 == p.intentStates[i]
<1>1. /\ page.intentStates[i] = None => page.evals < MaxEvals
      /\ page' = [p EXCEPT !.state[e0].tasks = @ \cup {t}]
      /\ task' = [task EXCEPT ![t].promise = "pending", ![t].eval = e0,
                              ![t].canvas = c, ![t].init = TRUE]
      /\ worker' = [worker EXCEPT ![e0].intent = i]
  BY DEF Render
<1>2. /\ page.intentStates \in [Intents -> {None} \cup Evals] /\ page.state \in [Evals -> IntentStates]
      /\ page.evals \in 0 .. MaxEvals /\ page.evals \in Nat /\ MaxEvals \in Nat
  BY RenderAssumption DEF PageRecords
<1>3. /\ p0.intentStates = page.intentStates /\ p0.state = page.state /\ p0.evals = page.evals
  BY DEF PageRecords
<1>4. CASE page.intentStates[i] # None
  <2> DEFINE e == page.intentStates[i]
             s == [page.state[e] EXCEPT !.timer = FALSE, !.tasks = page.state[e].tasks \cup {t}]
  <2>1. e \in Evals
    BY <1>2, <1>4
  <2>2. p = [p0 EXCEPT !.state[e].timer = FALSE]
    BY <1>3, <1>4 DEF StateForRender
  <2>3. e0 = e
    BY <1>3, <2>2 DEF PageRecords
  <2>4. page.state[e] \in IntentStates
    BY <1>2, <2>1
  <2>5. page' = [page EXCEPT !.pendingCleanup = FALSE, !.delayed = FALSE, !.evals = page.evals,
                             !.intentStates = [page.intentStates EXCEPT ![i] = e],
                             !.state = [page.state EXCEPT ![e] = s]]
    <3>1. page' = [p EXCEPT !.state[e].tasks = @ \cup {t}]
      BY <1>1, <2>3
    <3>2. [page.intentStates EXCEPT ![i] = e] = page.intentStates
      BY <1>2
    <3> DEFINE st == [page.state EXCEPT ![e] = [page.state[e] EXCEPT !.timer = FALSE]]
    <3>3. p = [page EXCEPT !.pendingCleanup = FALSE, !.delayed = FALSE, !.state = st]
      BY <2>2 DEF PageRecords
    <3>4. st[e] = [page.state[e] EXCEPT !.timer = FALSE] /\ st[e].tasks = page.state[e].tasks
      BY <1>2, <2>1, <2>4 DEF IntentStates
    <3>5. [st EXCEPT ![e] = s] = [page.state EXCEPT ![e] = s]
      BY <1>2, <2>1
    <3>6. s = [st[e] EXCEPT !.tasks = st[e].tasks \cup {t}]
      BY <2>4, <3>4 DEF IntentStates
    <3> HIDE DEF st, s, p, p0, e
    <3>7. p.state = st
      BY <3>3 DEF PageRecords
    <3>8. page' = [p EXCEPT !.state = [st EXCEPT ![e] = s]]
      BY <3>1, <3>6, <3>7
    <3> QED
      BY <3>2, <3>3, <3>5, <3>8 DEF PageRecords
  <2>6. /\ s \in IntentStates /\ s.tasks = page.state[e].tasks \cup {t} /\ ~s.timer
        /\ s.chunks = page.state[e].chunks /\ s.last = page.state[e].last
        /\ s.reader = page.state[e].reader
    BY <2>4 DEF IntentStates
  <2> HIDE DEF s, p, p0, e
  <2>7. MadeBy(t, i, c, e, page.evals, s)
    <3>1. page.intentStates[i] = e
      BY DEF e
    <3> QED
      BY <1>1, <2>3, <2>5, <2>6, <3>1 DEF MadeBy, Takes
  <2> QED
    BY <1>2, <2>1, <2>6, <2>7
<1>5. CASE page.intentStates[i] = None
  <2> DEFINE e == page.evals + 1
             s == [page.state[e] EXCEPT !.reader = "open", !.tasks = page.state[e].tasks \cup {t}]
  <2>1. e \in Evals /\ e \in 0 .. MaxEvals /\ page.evals < e
    BY <1>1, <1>2, <1>5 DEF Evals
  <2>2. p = [p0 EXCEPT !.evals = page.evals + 1, !.intentStates[i] = page.evals + 1,
                       !.state[page.evals + 1].reader = "open"]
    BY <1>3, <1>5 DEF StateForRender
  <2>3. e0 = e
    <3>1. p.intentStates = [page.intentStates EXCEPT ![i] = page.evals + 1]
      BY <2>2 DEF PageRecords
    <3> QED
      BY <1>2, <3>1
  <2>4. page.state[e] \in IntentStates /\ ~page.state[e].timer
    BY <1>2, <2>1 DEF PageInv, Unused
  <2>5. page' = [page EXCEPT !.pendingCleanup = FALSE, !.delayed = FALSE, !.evals = e,
                             !.intentStates = [page.intentStates EXCEPT ![i] = e],
                             !.state = [page.state EXCEPT ![e] = s]]
    <3>1. page' = [p EXCEPT !.state[e].tasks = @ \cup {t}]
      BY <1>1, <2>3
    <3> HIDE DEF e
    <3>2. p = [p0 EXCEPT !.evals = e, !.intentStates[i] = e, !.state[e].reader = "open"]
      BY <2>2 DEF e
    <3> DEFINE st == [page.state EXCEPT ![e] = [page.state[e] EXCEPT !.reader = "open"]]
               f == [page.intentStates EXCEPT ![i] = e]
    <3>3. p = [page EXCEPT !.pendingCleanup = FALSE, !.delayed = FALSE, !.evals = e,
                           !.intentStates = f, !.state = st]
      BY <3>2 DEF PageRecords
    <3>4. st[e] = [page.state[e] EXCEPT !.reader = "open"] /\ st[e].tasks = page.state[e].tasks
      BY <1>2, <2>1, <2>4 DEF IntentStates
    <3>5. [st EXCEPT ![e] = s] = [page.state EXCEPT ![e] = s]
      BY <1>2, <2>1
    <3>6. s = [st[e] EXCEPT !.tasks = st[e].tasks \cup {t}]
      BY <2>4, <3>4 DEF IntentStates
    <3> HIDE DEF st, s, p, p0, f
    <3>7. p.state = st
      BY <3>3 DEF PageRecords
    <3>8. page' = [p EXCEPT !.state = [st EXCEPT ![e] = s]]
      BY <3>1, <3>6, <3>7
    <3> QED
      BY <3>3, <3>5, <3>8 DEF PageRecords, f
  <2>6. /\ s \in IntentStates /\ s.tasks = page.state[e].tasks \cup {t}
        /\ s.timer = page.state[e].timer /\ ~s.timer
        /\ s.chunks = page.state[e].chunks /\ s.last = page.state[e].last /\ s.reader = "open"
    BY <2>4 DEF IntentStates
  <2> HIDE DEF s, p, p0, e
  <2>7. MadeBy(t, i, c, e, e, s)
    <3>1. e = page.evals + 1
      BY DEF e
    <3> QED
      BY <1>1, <1>5, <2>3, <2>5, <2>6, <3>1 DEF MadeBy, Takes
  <2> QED
    BY <2>1, <2>6, <2>7
<1> QED
  BY <1>4, <1>5

LEMMA RenderStep ==
    ASSUME RenderInv, NEW t \in Tasks, NEW i \in Intents, NEW c \in 1 .. t, Render(t, i, c)
    PROVE  RenderInv'
<1>1. /\ ListFits(list) /\ page \in PageRecords /\ worker \in [Evals -> WorkerRecords]
      /\ PageInv(page, LiveTasks, task, worker) /\ StreamInv /\ TaskInv /\ DrawnInv
      /\ task \in [Tasks -> TaskRecords] /\ inUse \subseteq Canvases
  BY DEF RenderInv, RenderTypes
<1>2. /\ task[t].promise = "none" /\ ~page.destroyed /\ UNCHANGED <<list, inUse>>
  BY DEF Render
<1>3. t \notin LiveTasks /\ ~task[t].graphics /\ ~task[t].scheduled /\ task[t].idx = 0
  BY <1>1, <1>2 DEF LiveTasks, Live, TaskInv, TaskAt
<1>4. c \in Canvases
  BY RenderAssumption DEF Canvases, Tasks
<1>5. PICK e \in Evals, n \in 0 .. MaxEvals, s \in IntentStates : MadeBy(t, i, c, e, n, s)
  BY <1>1, RenderMakes
<1>5a. /\ task' = [task EXCEPT ![t].promise = "pending", ![t].eval = e,
                               ![t].canvas = c, ![t].init = TRUE]
       /\ worker' = [worker EXCEPT ![e].intent = i]
       /\ n = page.evals \/ (n = page.evals + 1 /\ e = n)
       /\ page.intentStates[i] = e \/ e = n
  BY <1>5 DEF MadeBy, Takes
<1> DEFINE r == [task[t] EXCEPT !.promise = "pending", !.eval = e, !.canvas = c, !.init = TRUE]
           wr == [worker[e] EXCEPT !.intent = i]
<1>6. /\ task' = [task EXCEPT ![t] = r] /\ worker' = [worker EXCEPT ![e] = wr]
      /\ task[t] \in TaskRecords /\ worker[e] \in WorkerRecords
  BY <1>1, <1>5a
<1>7. /\ r \in TaskRecords /\ r.promise = "pending" /\ r.eval = e /\ r.canvas = c /\ r.init
      /\ r.graphics = task[t].graphics /\ r.scheduled = task[t].scheduled /\ r.idx = task[t].idx
  BY <1>4, <1>6 DEF TaskRecords
<1>8. /\ wr \in WorkerRecords /\ wr.intent = i /\ wr.sent = worker[e].sent
      /\ wr.objs = worker[e].objs /\ wr.failed = worker[e].failed
      /\ wr.started = worker[e].started
  BY <1>6 DEF WorkerRecords
<1> HIDE DEF r, wr
<1>9. /\ task' \in [Tasks -> TaskRecords] /\ task'[t] = r
      /\ \A u \in Tasks : u # t => task'[u] = task[u]
  BY <1>1, <1>6, <1>7
<1>10. /\ worker' \in [Evals -> WorkerRecords]
       /\ \A x \in Evals : /\ worker'[x].started = worker[x].started
                           /\ worker'[x].objs = worker[x].objs
                           /\ worker'[x].sent = worker[x].sent
                           /\ worker'[x].failed = worker[x].failed
                           /\ worker'[x].intent = IF x = e THEN i ELSE worker[x].intent
  BY <1>1, <1>6, <1>8
<1>11. LiveTasks' = LiveTasks \cup {t} /\ Live(t)'
  BY <1>7, <1>9 DEF LiveTasks, Live
<1>12. Wanted(page, page', n, LiveTasks \cup {t}, task', worker')
  <2>1. Takes(page, page', t, i, e, n, s)
    BY <1>5 DEF MadeBy
  <2>2. Asks(LiveTasks, task, task', worker, worker', t, i, e)
    BY <1>3, <1>7, <1>9, <1>10 DEF LiveTasks, Asks
  <2> QED
    BY <1>1, <1>2, <1>3, <2>1, <2>2, StateTakesTask
<1>13. /\ page' \in PageRecords /\ PageInv(page', LiveTasks', task', worker')
       /\ page'.evals = n /\ page'.destroyed = page.destroyed
       /\ \A x \in Evals : /\ page'.state[x].chunks = page.state[x].chunks
                           /\ page'.state[x].last = page.state[x].last
  BY <1>11, <1>12 DEF Wanted
<1>14. RenderTypes'
  BY <1>1, <1>2, <1>9, <1>10, <1>13, TypesStay DEF RenderInv
<1>15. PageInv(page, LiveTasks, task, worker)'
  BY <1>2, <1>13, PageStays
<1>16. TaskInv'
  <2> SUFFICES ASSUME NEW u \in Tasks PROVE TaskAt(u)'
    BY DEF TaskInv
  <2>1. page.evals \in Nat /\ n \in Nat /\ page.evals <= n /\ e <= n /\ e \in Nat
    BY <1>1, <1>5a, RenderAssumption DEF PageRecords, Evals, PageInv, Unused
  <2>2. CASE u = t
    <3>1. /\ task'[u].promise = "pending" /\ task'[u].eval = e /\ task'[u].canvas = c
          /\ ~task'[u].graphics /\ ~task'[u].scheduled
      BY <1>3, <1>7, <1>9, <2>2
    <3> QED
      BY <1>4, <1>11, <1>13, <2>1, <2>2, <3>1 DEF TaskAt
  <2>3. CASE u # t
    <3>1. TaskAt(u) /\ task'[u] = task[u]
      BY <1>1, <1>9, <2>3 DEF TaskInv
    <3>2. task[u].promise # "none" => task[u].eval <= n
      <4> SUFFICES ASSUME task[u].promise # "none" PROVE task[u].eval <= n
        OBVIOUS
      <4> DEFINE x == task[u].eval
      <4>1. x \in Nat /\ x <= page.evals
        BY <3>1 DEF TaskAt, Evals
      <4> HIDE DEF x
      <4>2. x <= n
        BY <2>1, <4>1
      <4> QED
        BY <4>2 DEF x
    <3> QED
      BY <1>13, <3>1, <3>2 DEF TaskAt, Live
  <2> QED
    BY <2>2, <2>3
<1>17. CanvasInv'
  <2> SUFFICES ASSUME NEW x \in inUse PROVE \E u \in Tasks : Drawing(u)' /\ task'[u].canvas = x
    BY <1>2 DEF CanvasInv
  <2>1. PICK u \in Tasks : Drawing(u) /\ task[u].canvas = x
    BY DEF RenderInv, CanvasInv
  <2>2. u # t
    BY <1>3, <2>1 DEF Drawing
  <2> QED
    BY <1>9, <2>1, <2>2 DEF Drawing, Live
<1>18. StreamInv'
  BY <1>1, <1>2, <1>10, <1>13, ListStays DEF StreamInv
<1>19. DrawnInv'
  <2> SUFFICES ASSUME NEW u \in Tasks PROVE DrawnAt(u)'
    BY DEF DrawnInv
  <2>1. CASE u = t
    <3>1. task'[u].promise = "pending" /\ task'[u].idx = 0
      BY <1>3, <1>7, <1>9, <2>1
    <3> QED
      BY <3>1 DEF DrawnAt
  <2>2. CASE u # t
    <3>1. DrawnAt(u) /\ (task[u].promise # "none" => task[u].eval \in Evals)
      BY <1>1 DEF DrawnInv, TaskInv, TaskAt
    <3>2. task'[u] = task[u]
      BY <1>9, <2>2
    <3> QED
      BY <1>2, <1>10, <1>13, <3>1, <3>2, DrawnGrows
  <2> QED
    BY <2>1, <2>2
<1> QED
  BY <1>14, <1>15, <1>16, <1>17, <1>18, <1>19 DEF RenderInv

LEMMA DestroyStep ==
    ASSUME RenderInv, Destroy
    PROVE  RenderInv'
<1> DEFINE live == UNION {page.state[e].tasks : e \in Registered(page)}
           ends == [e \in Evals |->
                      IF e \in Registered(page)
                      THEN [page.state[e] EXCEPT !.tasks = {}, !.timer = FALSE,
                              !.reader = IF @ = "open" THEN "cancelled" ELSE @]
                      ELSE page.state[e]]
           ws == [t \in Tasks |-> NotWaiting]
<1>1. /\ ListFits(list) /\ page \in PageRecords /\ worker \in [Evals -> WorkerRecords]
      /\ PageInv(page, LiveTasks, task, worker) /\ StreamInv /\ TaskInv /\ DrawnInv /\ CanvasInv
      /\ task \in [Tasks -> TaskRecords] /\ inUse \subseteq Canvases
  BY DEF RenderInv, RenderTypes
<1>2. /\ page' = [ObjsCleared(page) EXCEPT
                    !.destroyed = TRUE, !.pendingCleanup = FALSE, !.delayed = FALSE,
                    !.state = ends, !.waits = [t \in Tasks |-> NotWaiting]]
      /\ task' = [t \in Tasks |->
                    IF t \in live THEN [Cancelled(t)[t] EXCEPT !.promise = Settled(t, "cancelled")]
                    ELSE task[t]]
      /\ inUse' = inUse \ {task[t].canvas : t \in live}
      /\ UNCHANGED <<list, worker>>
  BY DEF Destroy
<1>3. page' = [page EXCEPT !.objs = {}, !.destroyed = TRUE, !.pendingCleanup = FALSE,
                           !.delayed = FALSE, !.state = ends, !.waits = ws]
  BY <1>1, <1>2 DEF ObjsCleared, PageRecords
<1>4. /\ page.state \in [Evals -> IntentStates]
      /\ page.intentStates \in [Intents -> {None} \cup Evals]
  BY <1>1 DEF PageRecords
<1>5. ASSUME NEW t \in Tasks, Live(t)
      PROVE  t \in live
  <2> DEFINE e == task[t].eval
  <2>1. /\ e \in Evals /\ worker[e].intent \in Intents
        /\ page.intentStates[worker[e].intent] = e /\ t \in page.state[e].tasks
    BY <1>1, <1>5 DEF PageInv, Fed, LiveTasks
  <2>2. e \in Registered(page)
    BY <2>1 DEF Registered, Evals, None
  <2> QED
    BY <2>1, <2>2
<1>6. \A t \in live : t \in Tasks /\ Live(t)
  <2> SUFFICES ASSUME NEW e \in Registered(page), NEW t \in page.state[e].tasks
               PROVE  t \in Tasks /\ Live(t)
    OBVIOUS
  <2>1. e \in Evals
    BY <1>4 DEF Registered
  <2> QED
    BY <1>1, <2>1 DEF PageInv, OnlyLive, LiveTasks
<1>7. \A e \in Evals : /\ ends[e] \in IntentStates /\ ends[e].tasks = {}
                       /\ ends[e].chunks = page.state[e].chunks
                       /\ ends[e].last = page.state[e].last
                       /\ ends[e].timer => page.state[e].timer
  <2> SUFFICES ASSUME NEW e \in Evals
               PROVE  /\ ends[e] \in IntentStates /\ ends[e].tasks = {}
                      /\ ends[e].chunks = page.state[e].chunks
                      /\ ends[e].last = page.state[e].last
                      /\ ends[e].timer => page.state[e].timer
    OBVIOUS
  <2> DEFINE s == page.state[e]
             reader == IF s.reader = "open" THEN "cancelled" ELSE s.reader
  <2>1. s \in IntentStates /\ reader \in {"none", "open", "cancelled"}
    BY <1>4 DEF IntentStates
  <2>2. CASE e \in Registered(page)
    <3>1. ends[e] = [s EXCEPT !.tasks = {}, !.timer = FALSE, !.reader = reader]
      BY <2>2
    <3> HIDE DEF ends, s, reader
    <3>2. ends[e] \in IntentStates /\ ends[e].tasks = {} /\ ends[e].chunks = s.chunks
          /\ ends[e].last = s.last /\ ends[e].timer = FALSE
      BY <2>1, <3>1 DEF IntentStates
    <3> QED
      BY <3>2 DEF s
  <2>3. CASE e \notin Registered(page)
    <3>1. ends[e] = s
      BY <2>3
    <3>2. s.tasks = {}
      <4> SUFFICES ASSUME NEW t \in s.tasks PROVE FALSE
        OBVIOUS
      <4>1. t \in Tasks /\ Live(t) /\ task[t].eval = e
        BY <1>1, <2>1 DEF PageInv, OnlyLive, LiveTasks
      <4>2. /\ worker[e].intent \in Intents /\ page.intentStates[worker[e].intent] = e
        BY <1>1, <4>1 DEF PageInv, Fed, LiveTasks
      <4> QED
        BY <2>3, <4>2 DEF Registered, Evals, None
    <3> QED
      BY <2>1, <3>1, <3>2
  <2> QED
    BY <2>2, <2>3
<1>8. ends \in [Evals -> IntentStates]
  BY <1>7
<1>9. ws \in [Tasks -> Objects \cup {NotWaiting, Forgotten}] /\ {} \in SUBSET Objects
      /\ \A t \in Tasks : ws[t] = NotWaiting
  OBVIOUS
<1> HIDE DEF ends, ws
<1>10. page' \in PageRecords
  BY <1>1, <1>3, <1>8, <1>9 DEF PageRecords
<1>11. /\ page'.state = ends /\ page'.intentStates = page.intentStates /\ page'.objs = {}
       /\ page'.waits = ws /\ page'.evals = page.evals /\ page'.destroyed = TRUE
       /\ page'.delayed = FALSE
  BY <1>1, <1>3 DEF PageRecords
<1>12. ASSUME NEW t \in Tasks
       PROVE  /\ task'[t] \in TaskRecords /\ task'[t].eval = task[t].eval
              /\ task'[t].canvas = task[t].canvas /\ task'[t].idx = task[t].idx
              /\ task'[t].init = task[t].init /\ task'[t].graphics = task[t].graphics
              /\ ~task'[t].scheduled /\ ~Live(t)'
              /\ task'[t].promise = (IF Live(t) THEN "cancelled" ELSE task[t].promise)
  <2>1. task[t] \in TaskRecords /\ TaskAt(t)
    BY <1>1 DEF TaskInv
  <2>2. CASE Live(t)
    <3>1. task'[t] = [Cancelled(t)[t] EXCEPT !.promise = Settled(t, "cancelled")]
      BY <1>2, <1>5, <2>2
    <3>2. Settled(t, "cancelled") = "cancelled"
      BY <2>2 DEF Settled, Live
    <3>3. Cancelled(t)[t] = [task[t] EXCEPT !.running = FALSE, !.cancelled = TRUE,
                                            !.scheduled = FALSE]
      BY <1>1 DEF Cancelled
    <3>4. task'[t] = [task[t] EXCEPT !.running = FALSE, !.cancelled = TRUE,
                                     !.scheduled = FALSE, !.promise = "cancelled"]
      BY <2>1, <3>1, <3>2, <3>3 DEF TaskRecords
    <3> QED
      BY <2>1, <2>2, <3>4 DEF TaskRecords, Live
  <2>3. CASE ~Live(t)
    <3>1. task'[t] = task[t]
      BY <1>2, <1>6, <2>3
    <3> QED
      BY <2>1, <2>3, <3>1 DEF TaskAt, Live
  <2> QED
    BY <2>2, <2>3
<1>13. task' \in [Tasks -> TaskRecords]
  <2>1. task' = [t \in Tasks |-> task'[t]]
    BY <1>2
  <2> QED
    BY <1>12, <2>1
<1>14. LiveTasks' = {}
  BY <1>12 DEF LiveTasks
<1>15. inUse' = {}
  <2> SUFFICES ASSUME NEW c \in inUse' PROVE FALSE
    OBVIOUS
  <2>1. PICK t \in Tasks : Drawing(t) /\ task[t].canvas = c
    BY <1>1, <1>2 DEF CanvasInv
  <2>2. t \in live
    BY <1>5, <2>1 DEF Drawing
  <2> QED
    BY <1>2, <2>1, <2>2
<1>16. RenderTypes'
  BY <1>2, <1>10, <1>13, <1>15, <1>1, TypesStay DEF RenderInv
<1>17. PageInv(page, LiveTasks, task, worker)'
  <2>1. Fed(page', LiveTasks', task', worker') /\ IfDestroyed(page', LiveTasks') /\ On(page')
    BY <1>11, <1>14 DEF Fed, IfDestroyed, On
  <2>2. OnlyLive(page', LiveTasks', task')
    BY <1>7, <1>9, <1>11 DEF OnlyLive
  <2>3. Stored(page', worker')
    BY <1>11 DEF Stored
  <2>4. Unused(page', worker')
    BY <1>1, <1>2, <1>7, <1>11 DEF PageInv, Unused
  <2>5. PageInv(page', LiveTasks', task', worker')
    BY <2>1, <2>2, <2>3, <2>4 DEF PageInv
  <2> QED
    BY <1>2, <2>5, PageStays
<1>18. TaskInv'
  <2> SUFFICES ASSUME NEW t \in Tasks PROVE TaskAt(t)'
    BY DEF TaskInv
  <2>1. TaskAt(t) /\ task[t] \in TaskRecords
    BY <1>1 DEF TaskInv
  <2>2. task'[t].promise = "none" => task[t].promise = "none"
    BY <1>12
  <2>3. task'[t].promise # "none" => task[t].promise # "none"
    BY <1>12 DEF Live
  <2> QED
    BY <1>11, <1>12, <2>1, <2>2, <2>3 DEF TaskAt
<1>19. CanvasInv'
  BY <1>15 DEF CanvasInv
<1>20. StreamInv'
  BY <1>1, <1>2, <1>7, <1>11, ListStays DEF StreamInv
<1>21. DrawnInv'
  <2> SUFFICES ASSUME NEW t \in Tasks PROVE DrawnAt(t)'
    BY DEF DrawnInv
  <2>1. DrawnAt(t) /\ (task[t].promise # "none" => task[t].eval \in Evals)
    BY <1>1 DEF DrawnInv, TaskInv, TaskAt
  <2>2. /\ task'[t].promise # "none" => task[t].promise # "none"
        /\ task'[t].promise = "done" => task[t].promise = "done"
    BY <1>12 DEF Live
  <2>3. task[t].promise = "done" =>
            page'.state[task[t].eval].chunks = page.state[task[t].eval].chunks
    BY <1>7, <1>11, <2>1
  <2> QED
    BY <1>2, <1>12, <2>1, <2>2, <2>3, DrawnGrows
<1> QED
  BY <1>16, <1>17, <1>18, <1>19, <1>20, <1>21 DEF RenderInv

-----------------------------------------------------------------------------
(* The invariant holds.                                                    *)

LEMMA RenderInit ==
    ASSUME Init
    PROVE  RenderInv
<1> DEFINE s0 == [reader |-> "none", timer |-> FALSE, ready |-> "pending",
                  chunks |-> 0, last |-> FALSE, tasks |-> {}]
           t0 == [promise |-> "none", eval |-> None, canvas |-> None, init |-> FALSE,
                  graphics |-> FALSE, running |-> FALSE, cancelled |-> FALSE,
                  scheduled |-> FALSE, idx |-> 0]
           w0 == [intent |-> None, failed |-> FALSE, started |-> FALSE, sent |-> 0, objs |-> {}]
<1>1. ListFits(list)
  BY RenderAssumption DEF Init
<1>2. NumChunks \in Nat /\ 0 \in 0 .. NumChunks
  BY <1>1 DEF ListFits, NumChunks
<1>3. Len(AllOps) \in Nat /\ 0 \in 0 .. Len(AllOps)
  BY <1>1, <1>2, ReceivedFacts
<1>4. /\ task = [t \in Tasks |-> t0] /\ worker = [e \in Evals |-> w0] /\ inUse = {}
      /\ page = [intentStates |-> [i \in Intents |-> None], state |-> [e \in Evals |-> s0],
                 objs |-> {}, waits |-> [t \in Tasks |-> NotWaiting], evals |-> 0,
                 pendingCleanup |-> FALSE, delayed |-> FALSE, large |-> FALSE,
                 destroyed |-> FALSE]
  BY DEF Init
<1>5. s0 \in IntentStates /\ s0.tasks = {} /\ s0.timer = FALSE /\ s0.last = FALSE /\ s0.chunks = 0
  BY <1>2 DEF IntentStates
<1>6. t0 \in TaskRecords /\ t0.promise = "none" /\ t0.init = FALSE /\ t0.graphics = FALSE
      /\ t0.scheduled = FALSE /\ t0.idx = 0
  BY <1>3 DEF TaskRecords
<1>7. w0 \in WorkerRecords /\ w0.started = FALSE /\ w0.objs = {} /\ w0.intent = None /\ w0.sent = 0
  BY <1>2 DEF WorkerRecords
<1> HIDE DEF s0, t0, w0
<1>8. /\ page.intentStates = [i \in Intents |-> None] /\ page.state = [e \in Evals |-> s0]
      /\ page.objs = {} /\ page.waits = [t \in Tasks |-> NotWaiting] /\ page.evals = 0
      /\ page.destroyed = FALSE /\ page.delayed = FALSE
  BY <1>4
<1>9. RenderTypes
  <2>1. /\ task \in [Tasks -> TaskRecords] /\ worker \in [Evals -> WorkerRecords]
        /\ inUse \subseteq Canvases
    BY <1>4, <1>6, <1>7
  <2>2. /\ [i \in Intents |-> None] \in [Intents -> {None} \cup Evals]
        /\ [e \in Evals |-> s0] \in [Evals -> IntentStates] /\ {} \in SUBSET Objects
        /\ [t \in Tasks |-> NotWaiting] \in [Tasks -> Objects \cup {NotWaiting, Forgotten}]
        /\ 0 \in 0 .. MaxEvals
    BY <1>5, RenderAssumption
  <2>3. page \in PageRecords
    BY <1>4, <2>2 DEF PageRecords
  <2> QED
    BY <1>1, <2>1, <2>3 DEF RenderTypes
<1>10. \A t \in Tasks : task[t].promise = "none" /\ ~task[t].init /\ ~task[t].graphics
                        /\ ~task[t].scheduled /\ task[t].idx = 0
  BY <1>4, <1>6
<1>11. LiveTasks = {}
  BY <1>10 DEF LiveTasks, Live
<1>12. PageInv(page, LiveTasks, task, worker)
  <2>1. Fed(page, LiveTasks, task, worker) /\ On(page) /\ IfDestroyed(page, LiveTasks)
    BY <1>8, <1>11 DEF Fed, On, IfDestroyed
  <2>2. OnlyLive(page, LiveTasks, task)
    BY <1>5, <1>8 DEF OnlyLive
  <2>3. Stored(page, worker)
    BY <1>8 DEF Stored
  <2>4. \A i \in Intents : page.intentStates[i] <= page.evals
    BY <1>8 DEF None
  <2>5. Unused(page, worker)
    BY <1>4, <1>5, <1>7, <1>8, <2>4 DEF Unused
  <2> QED
    BY <2>1, <2>2, <2>3, <2>5 DEF PageInv
<1>13. TaskInv
  BY <1>10 DEF TaskInv, TaskAt
<1>14. CanvasInv
  BY <1>4 DEF CanvasInv
<1>15. StreamInv
  BY <1>4, <1>5, <1>7, <1>8 DEF StreamInv
<1>16. DrawnInv
  BY <1>10 DEF DrawnInv, DrawnAt
<1> QED
  BY <1>9, <1>12, <1>13, <1>14, <1>15, <1>16 DEF RenderInv

LEMMA RenderStutter ==
    ASSUME RenderInv, UNCHANGED vars
    PROVE  RenderInv'
<1>1. Kept(page, page', LiveTasks, task, worker)
  BY NothingKeeps DEF RenderInv, RenderTypes, vars
<1> QED
  BY <1>1, PageOnlyStep DEF vars

LEMMA RenderNext ==
    ASSUME RenderInv, [Next]_vars
    PROVE  RenderInv'
<1>1. ASSUME NEW t \in Tasks, NEW i \in Intents, NEW c \in 1 .. t, Render(t, i, c)
      PROVE  RenderInv'
  BY <1>1, RenderStep
<1>2. ASSUME NEW t \in Tasks,
             Cancel(t) \/ Initialize(t) \/ InitializeFails(t) \/ ExecuteNext(t) \/ NextThrows(t)
      PROVE  RenderInv'
  BY <1>2, CancelStep, InitializeStep, InitializeFailsStep, ExecuteNextStep, NextThrowsStep
<1>3. ASSUME NEW e \in Evals, CancelTimeout(e)
      PROVE  RenderInv'
  BY <1>3, CancelTimeoutStep
<1>4. ASSUME NEW e \in Evals, StartRenderPage(e) \/ ReceiveChunk(e) \/ ReceiveError(e)
      PROVE  RenderInv'
  BY <1>4, StartRenderPageStep, ReceiveChunkStep, ReceiveErrorStep
<1>5. ASSUME NEW e \in Evals, NEW d \in Images, ReceiveObj(e, d)
      PROVE  RenderInv'
  BY <1>5, ReceiveObjStep
<1>6. CASE CallCleanup \/ DelayedCleanup \/ Destroy
  BY <1>6, CallCleanupStep, DelayedCleanupStep, DestroyStep
<1>7. CASE UNCHANGED vars
  BY <1>7, RenderStutter
<1> QED
  BY <1>1, <1>2, <1>3, <1>4, <1>5, <1>6, <1>7 DEF Next, WorkerNext

\* The invariant of the page and its render tasks, after any calls of the application.
THEOREM RenderInvHolds == Spec => []RenderInv
<1>1. Init => RenderInv
  BY RenderInit
<1>2. RenderInv /\ [Next]_vars => RenderInv'
  BY RenderNext
<1> QED
  BY <1>1, <1>2, PTL DEF Spec

-----------------------------------------------------------------------------
(* What the invariant says.                                                *)

LEMMA RenderTypeOK ==
    ASSUME RenderInv
    PROVE  TypeOK
<1>1. /\ ListFits(list) /\ page \in PageRecords /\ task \in [Tasks -> TaskRecords]
      /\ worker \in [Evals -> WorkerRecords] /\ inUse \subseteq Canvases
      /\ PageInv(page, LiveTasks, task, worker) /\ StreamInv
  BY DEF RenderInv, RenderTypes
<1>2. page.intentStates \in [Intents -> {None} \cup 1 .. page.evals]
  <2>1. /\ page.intentStates \in [Intents -> {None} \cup Evals] /\ page.evals \in Nat
    BY <1>1, RenderAssumption DEF PageRecords
  <2>2. \A i \in Intents : page.intentStates[i] \in {None} \cup 1 .. page.evals
    BY <1>1, <2>1 DEF PageInv, Unused, Evals
  <2> QED
    BY <2>1, <2>2
<1>3. \A e \in Evals :
         /\ page.state[e].reader \in {"none", "open", "cancelled"}
         /\ page.state[e].ready \in {"pending", "resolved", "rejected"}
         /\ page.state[e].chunks <= worker[e].sent /\ page.state[e].tasks \subseteq Tasks
         /\ worker[e].sent \in 0 .. NumChunks
         /\ page.state[e].last => page.state[e].chunks = NumChunks \/ worker[e].failed
  BY <1>1 DEF StreamInv, PageRecords, IntentStates, WorkerRecords
<1>4. page.objs \subseteq Objects /\ page.waits \in [Tasks -> Objects \cup {NotWaiting, Forgotten}]
  BY <1>1 DEF PageRecords
<1>5. \A t \in Tasks :
         /\ task[t].promise \in {"none", "pending", "done", "failed", "cancelled"}
         /\ task[t].idx \in 0 .. Len(AllOps)
  BY <1>1 DEF TaskRecords
<1> QED
  BY <1>1, <1>2, <1>3, <1>4, <1>5 DEF TypeOK

\* The operators a task has not reached yet name images of the list.
LEMMA RestIsOfTheList ==
    ASSUME ListFits(list), NEW k \in 0 .. Len(AllOps),
           NEW d \in DependenciesOf(SubSeq(AllOps, k + 1, Len(AllOps)))
    PROVE  d \in Images
<1> DEFINE la == Len(AllOps)
           rest == SubSeq(AllOps, k + 1, Len(AllOps))
<1>1. NumChunks \in Nat
  BY DEF ListFits, NumChunks
<1>2. AllOps \in Seq(ToSet(AllOps)) /\ la \in Nat
  BY <1>1 DEF ListFits, NumChunks, Received, AllOps
<1>3. PICK op \in ToSet(rest) : op.fn = "dependency" /\ d = op.arg
  BY DEF DependenciesOf
<1>4. PICK j \in DOMAIN rest : op = rest[j]
  BY <1>3 DEF ToSet
<1>5. /\ Len(rest) = la - k /\ DOMAIN rest = 1 .. la - k
      /\ \A x \in 1 .. la - k : rest[x] = AllOps[k + x]
  BY <1>2
<1>6. k + j \in 1 .. Len(AllOps)
  <2> HIDE DEF la, rest
  <2>1. k \in Nat /\ k <= la /\ la \in Nat /\ j \in 1 .. la - k
    BY <1>2, <1>4, <1>5 DEF la
  <2>2. k + j \in 1 .. la
    BY <2>1
  <2> QED
    BY <2>2 DEF la
<1>7. op = AllOps[k + j]
  BY <1>4, <1>5
<1> QED
  BY <1>3, <1>6, <1>7, DependencyIsImage

LEMMA TasksAreFed ==
    ASSUME RenderInv
    PROVE  LiveTasksAreFed
<1>1. /\ ListFits(list) /\ page \in PageRecords /\ task \in [Tasks -> TaskRecords]
      /\ PageInv(page, LiveTasks, task, worker)
  BY DEF RenderInv, RenderTypes
<1>2. ASSUME NEW t \in Tasks, Live(t), NEW e, e = task[t].eval
      PROVE  /\ t \in page.state[e].tasks /\ page.intentStates[worker[e].intent] = e
             /\ page.state[e].reader = "open" \/ page.state[e].last
             /\ ~page.state[e].timer /\ page.waits[t] # Forgotten
             /\ \A d \in DependenciesOf(SubSeq(AllOps, task[t].idx + 1, Len(AllOps))) :
                  <<e, d>> \in page.objs \/ d \notin worker[e].objs
  <2>1. t \in LiveTasks /\ ~page.destroyed
    BY <1>1, <1>2 DEF LiveTasks, PageInv, IfDestroyed
  <2>2. /\ e \in Evals /\ worker[e].intent \in Intents /\ e # None
        /\ page.intentStates[worker[e].intent] = e /\ t \in page.state[e].tasks
    BY <1>1, <1>2, <2>1 DEF PageInv, Fed, Evals, None
  <2>3. page.state[e].reader = "open" \/ page.state[e].last
    BY <1>1, <2>1, <2>2 DEF PageInv, On
  <2>4. ~page.state[e].timer
    BY <1>1, <2>2 DEF PageInv, OnlyLive
  <2>5. page.waits[t] # Forgotten
    BY <1>1 DEF PageInv, OnlyLive, Forgotten, NotWaiting
  <2>6. ASSUME NEW d \in DependenciesOf(SubSeq(AllOps, task[t].idx + 1, Len(AllOps))),
               d \in worker[e].objs
        PROVE  <<e, d>> \in page.objs
    <3>1. task[t].idx \in 0 .. Len(AllOps)
      BY <1>1 DEF TaskRecords
    <3>2. d \in Images
      BY <1>1, <3>1, RestIsOfTheList
    <3> QED
      BY <1>1, <2>1, <2>2, <2>6, <3>2 DEF PageInv, Stored
  <2> QED
    BY <2>2, <2>3, <2>4, <2>5, <2>6
<1> QED
  BY <1>2, RenderTypeOK DEF LiveTasksAreFed

LEMMA DoneIsDrawn ==
    ASSUME RenderInv
    PROVE  DoneMeansDrawn
<1>1. ListFits(list) /\ task \in [Tasks -> TaskRecords] /\ DrawnInv
  BY DEF RenderInv, RenderTypes
<1>2. NumChunks \in Nat /\ Len(AllOps) \in Nat
  <2>1. NumChunks \in Nat
    BY <1>1 DEF ListFits, NumChunks
  <2>2. 0 \in 0 .. NumChunks
    BY <2>1
  <2> QED
    BY <1>1, <2>1, <2>2, ReceivedFacts
<1>3. ASSUME NEW t \in Tasks, task[t].promise # "none", NEW e, e = task[t].eval
      PROVE  /\ task[t].promise = "done" =>
                  task[t].idx = Len(IF worker[e].failed THEN Received(page.state[e].chunks)
                                    ELSE AllOps)
             /\ \A i \in 1 .. task[t].idx :
                  AllOps[i].fn = "paint" => AllOps[i].arg \in worker[e].objs
  <2>1. /\ \A i \in 1 .. task[t].idx :
              AllOps[i].fn = "dependency" => AllOps[i].arg \in worker[e].objs
        /\ task[t].promise = "done" => /\ task[t].idx = Len(Received(page.state[e].chunks))
                                       /\ page.state[e].chunks = NumChunks \/ worker[e].failed
    BY <1>1, <1>3 DEF DrawnInv, DrawnAt
  <2>2. task[t].promise = "done" =>
            task[t].idx = Len(IF worker[e].failed THEN Received(page.state[e].chunks) ELSE AllOps)
    BY <2>1 DEF AllOps
  <2>3. ASSUME NEW i \in 1 .. task[t].idx, AllOps[i].fn = "paint"
        PROVE  AllOps[i].arg \in worker[e].objs
    <3> DEFINE la == Len(AllOps)
               idx == task[t].idx
    <3>1. idx \in 0 .. la /\ la \in Nat
      BY <1>1, <1>2 DEF TaskRecords
    <3> HIDE DEF la, idx
    <3>2. i \in 1 .. la /\ i \in 1 .. idx
      <4>1. i \in 1 .. idx
        BY DEF idx
      <4> QED
        BY <3>1, <4>1
    <3>3. \A x \in 1 .. la : AllOps[x].fn = "paint" =>
             \E j \in 1 .. x : AllOps[j].fn = "dependency" /\ AllOps[j].arg = AllOps[x].arg
      BY <1>1 DEF ListFits, NumChunks, Received, AllOps, la
    <3>4. PICK j \in 1 .. i : AllOps[j].fn = "dependency" /\ AllOps[j].arg = AllOps[i].arg
      BY <2>3, <3>2, <3>3
    <3>5. j \in 1 .. idx
      BY <3>1, <3>2
    <3> QED
      BY <2>1, <3>4, <3>5 DEF idx
  <2> QED
    BY <2>2, <2>3
<1> QED
  BY <1>3 DEF DoneMeansDrawn

LEMMA DestroyedKeepsQuiet ==
    ASSUME RenderInv
    PROVE  DestroyedIsQuiet
<1> SUFFICES ASSUME page.destroyed
             PROVE  inUse = {} /\ page.objs = {} /\ ~page.delayed /\ \A t \in Tasks : ~Live(t)
  BY DEF DestroyedIsQuiet
<1>1. LiveTasks = {} /\ page.objs = {} /\ ~page.delayed
  BY DEF RenderInv, PageInv, IfDestroyed
<1>2. \A t \in Tasks : ~Live(t)
  BY <1>1 DEF LiveTasks
<1>3. inUse = {}
  BY <1>2 DEF RenderInv, CanvasInv, Drawing
<1> QED
  BY <1>1, <1>2, <1>3

\* A render task that has not settled gets the rest of its operators and images, whatever the
\* renders, cancellations, timeouts and clean-ups beside it do (_abortOperatorList, #tryCleanup,
\* onObj).
THEOREM WaitingTasksAreFed == Spec => []LiveTasksAreFed
BY RenderInvHolds, TasksAreFed, PTL

\* A promise of render() that is resolved has drawn the list, and nothing is painted before it
\* has arrived (InternalRenderTask._next, addDependency).
THEOREM ResolvedIsDrawn == Spec => []DoneMeansDrawn
BY RenderInvHolds, DoneIsDrawn, PTL

\* After _destroy() no render waits, no canvas is in use and no object is kept, for good.
THEOREM DestroyedPageIsQuiet == Spec => []DestroyedIsQuiet
BY RenderInvHolds, DestroyedKeepsQuiet, PTL

==============================================================================
