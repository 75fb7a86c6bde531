---------------------------- MODULE PageDrawing ----------------------------
(***************************************************************************)
(* A page is drawn: the worker adds the operators of its content to a list *)
(* that QueueOptimizer rewrites and hands over in chunks (PartialEvaluator *)
(* .getOperatorList), and the render task executes what has arrived on the *)
(* canvas of the application (InternalRenderTask).  It may be cancelled    *)
(* between any two operators.                                              *)
(***************************************************************************)
EXTENDS QueueOptimizer, CanvasGraphics

CONSTANTS Contents     \* pages: the operators of each, and whether blending is needed

VARIABLES
    drawing,        \* the page
    added,          \* how many of its operators the worker has added
    queue,          \* the worker's list and its optimizer
    operatorList,   \* of the page: the operators that have come, and lastChunk
    gfx,            \* CanvasGraphics of the render task
    executed,       \* operatorListIdx
    rendering,      \* "running", "complete" or "cancelled"
    meant           \* history: the marks of the operators added, on the page and elsewhere

drawingVars == <<drawing, added, queue, operatorList, gfx, executed, rendering, meant>>

Ops == drawing.ops

\* The canvas of the application, which has drawn before and has a state of its own.
PageCanvas == CtxSave(NewCanvas(<<[shape |-> "screen", at |-> 0]>>))

------------------------------------------------------------------------------
(* What the content of a page means.  Some operators open and close        *)
(* brackets; what another sets is in force until the bracket it stands in  *)
(* is closed, or an annotation begins.  Each annotation begins anew.       *)

Fn(i)  == Ops[i].fn
Arg(i) == Ops[i].arg

\* How many brackets are open after operator i.
OpenAfter(i, opening, closing) ==
    Cardinality({k \in 1 .. i : Fn(k) \in opening}) - Cardinality({k \in 1 .. i : Fn(k) \in closing})

Level(i) == OpenAfter(i, {"save", "paintFormXObjectBegin", "beginGroup"},
                         {"restore", "paintFormXObjectEnd", "endGroup"})
MarkLevel(i) == OpenAfter(i, {"beginMarkedContentProps"}, {"endMarkedContent"})

Latest(indices) == IF indices = {} THEN 0 ELSE CHOOSE k \in indices : \A l \in indices : l <= k

\* Where the annotation of operator i begins; 0 in the page's own content.
AnnotationOf(i) == Latest({k \in 1 .. i : Fn(k) = "beginAnnotation"})

InForce(i, fns) ==
    {j \in 1 .. i - 1 : /\ Fn(j) \in fns
                        /\ j >= AnnotationOf(i)
                        /\ \A k \in j .. i - 1 : Level(k) >= Level(j)}

InForceInOrder(i, fns) == SelectSeq([k \in 1 .. i - 1 |-> k], LAMBDA k : k \in InForce(i, fns))

LastSet(i, fns, default) ==
    LET j == Latest(InForce(i, fns)) IN IF j = 0 THEN default ELSE Arg(j)

Hidden(i) ==
    \E j \in 1 .. i - 1 : /\ Fn(j) = "beginMarkedContentProps" /\ ~Arg(j)
                          /\ \A k \in j .. i - 1 : MarkLevel(k) >= MarkLevel(j)

OnOwnCanvas(i) == AnnotationOf(i) # 0 /\ Arg(AnnotationOf(i)).ownCanvas

Base(i) == IF OnOwnCanvas(i) THEN <<ToOwn>> ELSE PageCanvas.now.ctm \o <<ToPage>>

TransformsAt(i) ==
    LET moves == InForceInOrder(i, {"transform", "paintFormXObjectBegin", "beginAnnotation"})
    IN  Base(i) \o [k \in DOMAIN moves |->
            IF Fn(moves[k]) = "beginAnnotation" THEN Arg(moves[k]).matrix ELSE Arg(moves[k])]

PathEnds == {"fill", "stroke", "fillStroke", "endPath", "paintFormXObjectBegin", "beginAnnotation"}

PathAt(i) ==
    {<<Arg(k), TransformsAt(k)>> :
        k \in {j \in 1 .. i - 1 : /\ Fn(j) = "constructPath"
                                  /\ \A l \in j + 1 .. i - 1 : Fn(l) \notin PathEnds}}

ClipsAt(i) ==
    {PathAt(j) : j \in {l \in InForce(i, PathEnds) : l > 1 /\ Fn(l - 1) = "clip"}}
    \cup {{<<"bbox", TransformsAt(j + 1)>>} : j \in InForce(i, {"paintFormXObjectBegin"})}
    \cup {{<<"rect", Base(j)>>} : j \in {l \in InForce(i, {"beginAnnotation"}) : ~OnOwnCanvas(l)}}

\* A group is drawn opaque, and put on the page with the alpha it was begun with.
AlphaAt(i, fn) ==
    LET j == Latest(InForce(i, {fn, "beginGroup"}))
    IN  IF j = 0 \/ Fn(j) = "beginGroup" THEN Opaque ELSE Arg(j)

AlphasAt(i, fn) ==
    LET groups == InForceInOrder(i, {"beginGroup"})
        all    == Append([k \in DOMAIN groups |-> AlphaAt(groups[k], "setFillAlpha")], AlphaAt(i, fn))
    IN  SelectSeq(all, LAMBDA alpha : alpha # Opaque)

ColorAt(i) == LastSet(i, {"setFillRGBColor"}, Black)

Meant(i, pieces, fn, color) ==
    <<[what |-> pieces, clips |-> ClipsAt(i), alphas |-> AlphasAt(i, fn), color |-> color]>>

Filled(i)  == Meant(i, PathAt(i), "setFillAlpha", ColorAt(i))
Stroked(i) == Meant(i, PathAt(i), "setStrokeAlpha", NoColor)

\* The glyphs stand where the last matrix of the same text put them.
TextAt(i) ==
    LET j == Latest(InForce(i, {"beginText", "setTextMatrix"}))
    IN  {<<LastSet(i, {"setFont"}, "") \o Arg(i),
           TransformsAt(i) \o (IF Fn(j) = "setTextMatrix" THEN <<Arg(j)>> ELSE <<>>)>>}

\* The marks that operator i is to leave.
MarksOf(i) ==
    CASE Hidden(i)            -> <<>>
      [] ~Hidden(i) /\ Fn(i) = "fill"       -> Filled(i)
      [] ~Hidden(i) /\ Fn(i) = "stroke"     -> Stroked(i)
      [] ~Hidden(i) /\ Fn(i) = "fillStroke" -> Filled(i) \o Stroked(i)
      [] ~Hidden(i) /\ Fn(i) \in {"paintImageXObject", "paintInlineImageXObject"} ->
             Meant(i, {<<Arg(i), TransformsAt(i)>>}, "setFillAlpha", NoColor)
      [] ~Hidden(i) /\ Fn(i) = "paintImageMaskXObject" ->
             Meant(i, {<<Arg(i), TransformsAt(i)>>}, "setFillAlpha", ColorAt(i))
      [] ~Hidden(i) /\ Fn(i) = "showText" -> Meant(i, TextAt(i), "setFillAlpha", ColorAt(i))
      [] OTHER -> <<>>

Adding(i) ==
    [meant EXCEPT ![IF OnOwnCanvas(i) THEN "annotation" ELSE "page"] = @ \o MarksOf(i)]

------------------------------------------------------------------------------

DrawingInit ==
    /\ drawing \in Contents
    /\ added = 0
    /\ queue = NewQueue
    /\ operatorList = [ops |-> <<>>, lastChunk |-> FALSE]
    /\ gfx = BeginDrawing(PageCanvas, drawing.transparency)
    /\ executed = 0
    /\ rendering = "running"
    /\ meant = [page |-> <<>>, annotation |-> <<>>]

\* The chunks that a call has flushed come to the page (_renderPageChunk).
Send(worked) ==
    /\ queue' = [worked EXCEPT !.list.chunks = <<>>]
    /\ operatorList' =
         FoldLeft(LAMBDA list, chunk : [ops |-> list.ops \o chunk.ops, lastChunk |-> chunk.last],
                  operatorList, worked.list.chunks)

AddOperator ==
    /\ added < Len(Ops)
    /\ Send(AddToQueue(queue, Ops[added + 1]))
    /\ added' = added + 1
    /\ meant' = Adding(added + 1)
    /\ UNCHANGED <<drawing, gfx, executed, rendering>>

FinishList ==
    /\ added = Len(Ops)
    /\ ~operatorList.lastChunk
    /\ Send(FlushQueue(queue, TRUE))
    /\ UNCHANGED <<drawing, added, gfx, executed, rendering, meant>>

\* One turn of executeOperatorList; the task may yield after any.
ExecuteOperator ==
    /\ rendering = "running"
    /\ executed < Len(operatorList.ops)
    /\ gfx' = Execute(gfx, operatorList.ops[executed + 1])
    /\ executed' = executed + 1
    /\ UNCHANGED <<drawing, added, queue, operatorList, rendering, meant>>

\* _next: all has been executed, and the last chunk has come.
Finish ==
    /\ rendering = "running"
    /\ executed = Len(operatorList.ops)
    /\ operatorList.lastChunk
    /\ gfx' = EndDrawing(gfx)
    /\ rendering' = "complete"
    /\ UNCHANGED <<drawing, added, queue, operatorList, executed, meant>>

\* InternalRenderTask.cancel
Cancel ==
    /\ rendering = "running"
    /\ gfx' = EndDrawing(gfx)
    /\ rendering' = "cancelled"
    /\ UNCHANGED <<drawing, added, queue, operatorList, executed, meant>>

DrawingNext == AddOperator \/ FinishList \/ ExecuteOperator \/ Finish \/ Cancel

DrawingSpec == DrawingInit /\ [][DrawingNext]_drawingVars

------------------------------------------------------------------------------

\* Whatever the chunks and the rewriting, a page that is complete shows what its content
\* means: transforms, clips, alphas and colours as they were in force, the annotations'
\* too; a page that is cancelled shows a beginning of it.
DrawnAsWritten ==
    rendering # "running" =>
        LET page == gfx.canvases["page"].marks
            own  == gfx.canvases["annotation"].marks
        IN  /\ IsPrefix(page, meant.page)
            /\ IsPrefix(own, meant.annotation)
            /\ rendering = "complete" => page = meant.page /\ own = meant.annotation

\* The context of the application is left with the transform, the clips and the saved
\* states it had, also by a rendering that is cancelled, unless that is in the middle of a
\* group or of an annotation with a canvas of its own.
ContextGivenBack ==
    (rendering # "running" /\ gfx.groupStack = <<>> /\ gfx.annotationOn = "") =>
        LET page == gfx.canvases["page"]
        IN  /\ page.saved = PageCanvas.saved
            /\ page.now.ctm = PageCanvas.now.ctm
            /\ page.now.clips = PageCanvas.now.clips

\* Only whole groups are replaced: what has been sent stands for the content
\* (operator_list.ts: "At this point, i is the index of the first op past the last valid
\* quartet.").
OnlyWholeGroupsAreReplaced ==
    operatorList.lastChunk =>
        FlattenSeq([k \in DOMAIN operatorList.ops |-> Unfolded(operatorList.ops[k])]) = Ops
=============================================================================
