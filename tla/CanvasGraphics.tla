---------------------------- MODULE CanvasGraphics ----------------------------
(***************************************************************************)
(* CanvasGraphics of the viewer (display/canvas.ts): what an operator does *)
(* to the canvases and to the state kept beside them.  A canvas is what    *)
(* has been drawn on it, its own state and the stack of that state; a mark *)
(* is a set of named pieces, each with the transforms it was drawn under,  *)
(* with the clips, the alphas (opaque ones left out) and the colour.       *)
(*                                                                         *)
(* Left out: soft masks (composing under one throws, see the README), line *)
(* styles, patterns, the layout of text, sizes and pixels.  Paths are not  *)
(* empty, and lie in the page.                                             *)
(***************************************************************************)
EXTENDS Naturals, Sequences, SequencesExt

Opaque == 1
Black  == "black"
NoColor  == "-"       \* the colour of what has colours of its own

\* Transforms that belong to the viewer: of the page, of the canvas of an annotation,
\* and the offset of the canvas of a group, with its inverse.
ToPage  == [shape |-> "page", at |-> 0]
ToOwn   == [shape |-> "own", at |-> 0]
Offset  == [shape |-> "offset", at |-> 0]
BackOffset == [shape |-> "inverse", at |-> 0]

Compose(outer, inner) ==
    IF outer # <<>> /\ inner # <<>> /\ Last(outer) = Offset /\ Head(inner) = BackOffset
    THEN Front(outer) \o Tail(inner)
    ELSE outer \o inner

------------------------------------------------------------------------------
(* A canvas and its context, as the browser keeps them.                     *)

Default == [ctm |-> <<>>, clips |-> {}, alpha |-> Opaque, color |-> Black]

NewCanvas(ctm) ==
    [marks |-> <<>>, now |-> [Default EXCEPT !.ctm = ctm], saved |-> <<>>, path |-> {}]

CtxSave(c) == [c EXCEPT !.saved = Append(@, c.now)]

\* restore(), n times; on an empty stack it does nothing.
CtxRestoreTimes(c, n) ==
    IF n = 0 \/ c.saved = <<>> THEN c
    ELSE LET left == IF n >= Len(c.saved) THEN 0 ELSE Len(c.saved) - n
         IN  [c EXCEPT !.now = c.saved[left + 1], !.saved = SubSeq(@, 1, left)]

CtxRestore(c) == CtxRestoreTimes(c, 1)

CtxSetTransform(c, ctm) == [c EXCEPT !.now.ctm = ctm]

Piece(c, name) == <<name, c.now.ctm>>

CtxClip(c) == [c EXCEPT !.now.clips = @ \cup {c.path}]

Alphas(c) == IF c.now.alpha = Opaque THEN <<>> ELSE <<c.now.alpha>>

CtxDraw(c, pieces, color) ==
    [c EXCEPT !.marks = Append(@, [what |-> pieces, clips |-> c.now.clips,
                                   alphas |-> Alphas(c), color |-> color])]

\* drawImage of another canvas.
CtxDrawCanvas(c, other) ==
    LET Moved(pieces) == {<<p[1], Compose(c.now.ctm, p[2])>> : p \in pieces}
        Drawn(m) == [what   |-> Moved(m.what),
                     clips  |-> c.now.clips \cup {Moved(path) : path \in m.clips},
                     alphas |-> Alphas(c) \o m.alphas,
                     color  |-> m.color]
    IN  [c EXCEPT !.marks = @ \o [k \in DOMAIN other.marks |-> Drawn(other.marks[k])]]

\* resetCtxToDefault
CtxReset(c) == [c EXCEPT !.now.alpha = Opaque, !.now.color = Black]

------------------------------------------------------------------------------
(* CanvasGraphics                                                           *)

\* CanvasExtraState; hasPath: not isEmptyClip().
ExtraState == [fillAlpha |-> Opaque, strokeAlpha |-> Opaque, fillColor |-> Black,
               font |-> "", textMatrix |-> <<>>, hasPath |-> FALSE]

Canvases    == {"page", "transparent", "annotation", "group0", "group1", "group2"}
GroupCanvas == <<"group0", "group1", "group2">>     \* cachedCanvases, "groupAt" + level

Ctx(g)       == g.canvases[g.ctx]
OnCtx(g, F(_)) == [g EXCEPT !.canvases[g.ctx] = F(@)]

\* beginDrawing, on the canvas the application gives.
BeginDrawing(page, transparency) ==
    LET ctx    == IF transparency THEN "transparent" ELSE "page"
        target == IF transparency
                  THEN CtxSetTransform(CtxSave(NewCanvas(<<>>)), page.now.ctm)
                  ELSE page
        ctm    == Append(target.now.ctm, ToPage)
        ready  == CtxSetTransform(CtxReset(CtxSave(target)), ctm)
    IN  [ctx |-> ctx, transparent |-> transparency,
         canvases |-> [id \in Canvases |-> CASE id = ctx    -> ready
                                             [] id # ctx /\ id = "page" -> page
                                             [] OTHER -> NewCanvas(<<>>)],
         current |-> ExtraState, stateStack |-> <<>>, pendingClip |-> FALSE,
         baseTransform |-> ctm, baseTransformStack |-> <<>>,
         groupStack |-> <<>>, annotationOn |-> "",
         marked |-> <<>>, visible |-> TRUE]

Save(g) == [OnCtx(g, CtxSave) EXCEPT !.stateStack = Append(@, g.current)]

Restore(g) ==
    IF g.stateStack = <<>> THEN g
    ELSE [OnCtx(g, CtxRestore) EXCEPT !.current = Last(g.stateStack), !.stateStack = Front(@),
                                      !.pendingClip = FALSE]

\* #restoreInitialState: every state is restored, on the canvas that is drawn on now.
RestoreInitialState(g) ==
    LET n    == Len(g.stateStack)
        back == [OnCtx(g, LAMBDA c : CtxRestoreTimes(c, n + 1)) EXCEPT
                    !.current = IF n = 0 THEN @ ELSE Head(g.stateStack),
                    !.stateStack = <<>>, !.pendingClip = n = 0 /\ @]
        page == g.canvases["page"]
    IN  IF ~g.transparent THEN back
        ELSE [back EXCEPT
                !.ctx = "page", !.transparent = FALSE,
                !.canvases["page"] = CtxRestore(CtxDrawCanvas(CtxSetTransform(CtxSave(page), <<>>),
                                                              g.canvases["transparent"]))]

\* Mutant: the states that are open are not restored.
EndDrawingOnce(g) == IF g.transparent THEN RestoreInitialState(g) ELSE OnCtx(g, CtxRestore)
EndDrawing(g) == RestoreInitialState(g)

TransformBy(g, t) == OnCtx(g, LAMBDA c : CtxSetTransform(c, Append(c.now.ctm, t)))

SetAlpha(g, alpha) ==
    [OnCtx(g, LAMBDA c : [c EXCEPT !.now.alpha = alpha]) EXCEPT !.current.fillAlpha = alpha]
SetStrokeAlpha(g, alpha) == [g EXCEPT !.current.strokeAlpha = alpha]
SetFillColor(g, color) ==
    [OnCtx(g, LAMBDA c : [c EXCEPT !.now.color = color]) EXCEPT !.current.fillColor = color]

\* Paths: constructPath, clip, endPath.
ConstructPath(g, name) ==
    [OnCtx(g, LAMBDA c : [c EXCEPT !.path = @ \cup {Piece(c, name)}]) EXCEPT !.current.hasPath = TRUE]

ClipPath(g) == [g EXCEPT !.pendingClip = TRUE]

ConsumePath(g) ==
    LET clips == g.pendingClip /\ g.current.hasPath
    IN  [OnCtx(g, LAMBDA c : [IF clips THEN CtxClip(c) ELSE c EXCEPT !.path = {}]) EXCEPT
            !.current.hasPath = FALSE, !.pendingClip = FALSE]

FillPath(g) ==
    IF g.visible /\ g.current.hasPath THEN OnCtx(g, LAMBDA c : CtxDraw(c, c.path, c.now.color)) ELSE g

WithAlpha(c, alpha) == [c EXCEPT !.now.alpha = alpha]

StrokePath(g) ==
    IF ~g.visible \/ Ctx(g).path = {} THEN g
    ELSE OnCtx(g, LAMBDA c : CtxDraw(WithAlpha(c, g.current.strokeAlpha), c.path, NoColor))

Stroke(g) == OnCtx(ConsumePath(StrokePath(g)), LAMBDA c : WithAlpha(c, g.current.fillAlpha))
Fill(g)   == ConsumePath(FillPath(g))
FillStroke(g) ==
    ConsumePath(OnCtx(StrokePath(FillPath(g)), LAMBDA c : WithAlpha(c, g.current.fillAlpha)))

------------------------------------------------------------------------------
(* Forms and groups.  While nothing is visible neither is begun nor ended.  *)

FormBegin(g, matrix) ==
    IF ~g.visible THEN g
    ELSE LET moved == TransformBy(Save([g EXCEPT !.baseTransformStack = Append(@, g.baseTransform)]), matrix)
             based == [moved EXCEPT !.baseTransform = Ctx(moved).now.ctm]
         IN  ConsumePath(ClipPath(ConstructPath(based, "bbox")))

FormEnd(g) ==
    IF ~g.visible THEN g
    ELSE [Restore(g) EXCEPT !.baseTransform = Last(g.baseTransformStack),
                            !.baseTransformStack = Front(@)]

\* Mutant: the group is drawn under the alpha it is put on the page with.
GroupBeginKeepsAlpha(g) ==
    IF ~g.visible THEN g
    ELSE LET saved  == Save(g)
             id     == GroupCanvas[Len(g.groupStack) + 1]
             ctx    == Ctx(saved)
             canvas == [NewCanvas(<<BackOffset>> \o ctx.now.ctm) EXCEPT !.now.color = ctx.now.color]
             placed == OnCtx(saved, LAMBDA c : CtxSave(CtxSetTransform(c, <<Offset>>)))
         IN  SetAlpha([placed EXCEPT
                !.groupStack = Append(@, g.ctx), !.ctx = id, !.canvases[id] = canvas,
                !.current.hasPath = FALSE], g.current.fillAlpha)

\* beginGroup: what follows is drawn on a canvas of its own, which takes over the state
\* of the one before (copyCtxState) but not its alphas.
GroupBegin(g) ==
    IF ~g.visible THEN g
    ELSE LET saved  == Save(g)
             id     == GroupCanvas[Len(g.groupStack) + 1]
             ctx    == Ctx(saved)
             canvas == [NewCanvas(<<BackOffset>> \o ctx.now.ctm) EXCEPT !.now.color = ctx.now.color]
             placed == OnCtx(saved, LAMBDA c : CtxSave(CtxSetTransform(c, <<Offset>>)))
         IN  SetStrokeAlpha(SetAlpha([placed EXCEPT
                !.groupStack = Append(@, g.ctx), !.ctx = id, !.canvases[id] = canvas,
                !.current.hasPath = FALSE], Opaque), Opaque)

\* endGroup: that canvas is drawn where the group began, in the state of then.
GroupEnd(g) ==
    IF ~g.visible THEN g
    ELSE LET back  == OnCtx([g EXCEPT !.ctx = Last(g.groupStack), !.groupStack = Front(@)],
                            CtxRestore)
             place == Ctx(back).now.ctm
             Put(c) == CtxRestore(CtxDrawCanvas(CtxSetTransform(CtxSave(c), place), Ctx(g)))
         IN  OnCtx(Restore(back), Put)

------------------------------------------------------------------------------
(* Annotations, marked content, images and text.                            *)

\* beginAnnotation: on the canvas of the page, clipped, or on one of its own.
AnnotationBegin(g, annotation) ==
    LET clean == OnCtx(RestoreInitialState(g), CtxReset)
        based == Save(OnCtx(clean, CtxSave))
        saved == OnCtx(based, LAMBDA c : CtxSetTransform(c, g.baseTransform))
        path  == ConstructPath(ConsumePath(saved), "rect")
        clip  == OnCtx(path, LAMBDA c : [CtxClip(c) EXCEPT !.path = {}])
        own   == [saved EXCEPT !.annotationOn = saved.ctx, !.ctx = "annotation",
                    !.canvases["annotation"] =
                        CtxSetTransform(CtxSave(NewCanvas(<<>>)), <<ToOwn>>)]
    IN  TransformBy([IF annotation.ownCanvas THEN own ELSE clip EXCEPT !.current = ExtraState],
                    annotation.matrix)

AnnotationEnd(g) ==
    IF g.annotationOn = "" THEN g
    ELSE [OnCtx(g, CtxRestore) EXCEPT !.ctx = g.annotationOn, !.annotationOn = ""]

SetMarked(g, marked) == [g EXCEPT !.marked = marked, !.visible = \A k \in DOMAIN marked : marked[k]]

BeginMarkedContent(g, shown) == SetMarked(g, Append(g.marked, shown))
EndMarkedContent(g) == SetMarked(g, IF g.marked = <<>> THEN g.marked ELSE Front(g.marked))

PaintAt(g, name, t, color) ==
    OnCtx(g, LAMBDA c : CtxDraw(c, {<<name, c.now.ctm \o t>>}, color))

\* The image is painted between a save() and a restore() of its own.
PaintImage(g, name) ==
    IF ~g.visible THEN g ELSE [PaintAt(g, name, <<>>, NoColor) EXCEPT !.pendingClip = FALSE]

PaintImageMask(g, name) == IF ~g.visible THEN g ELSE PaintAt(g, name, <<>>, g.current.fillColor)

PaintEach(g, entries, color) ==
    IF ~g.visible THEN g
    ELSE OnCtx(g, LAMBDA c : [c EXCEPT !.marks = @ \o [k \in DOMAIN entries |->
            Last(CtxDraw(c, {<<entries[k].what, Append(c.now.ctm, entries[k].t)>>}, color).marks)]])

EntriesOf(arg) ==
    [k \in DOMAIN arg.positions |->
        [what |-> arg.what, t |-> [shape |-> arg.shape, at |-> arg.positions[k]]]]

ShowText(g, glyphs) ==
    IF ~g.visible THEN g
    ELSE PaintAt(g, g.current.font \o glyphs, g.current.textMatrix, Ctx(g).now.color)

\* The operators of a list, as executeOperatorList calls them.
Execute(g, op) ==
    CASE op.fn = "save"                   -> Save(g)
      [] op.fn = "restore"                -> Restore(g)
      [] op.fn = "transform"              -> TransformBy(g, op.arg)
      [] op.fn = "setFillAlpha"           -> SetAlpha(g, op.arg)
      [] op.fn = "setStrokeAlpha"         -> SetStrokeAlpha(g, op.arg)
      [] op.fn = "setFillRGBColor"        -> SetFillColor(g, op.arg)
      [] op.fn = "constructPath"          -> ConstructPath(g, op.arg)
      [] op.fn = "clip"                   -> ClipPath(g)
      [] op.fn = "endPath"                -> ConsumePath(g)
      [] op.fn = "fill"                   -> Fill(g)
      [] op.fn = "stroke"                 -> Stroke(g)
      [] op.fn = "fillStroke"             -> FillStroke(g)
      [] op.fn = "paintFormXObjectBegin"  -> FormBegin(g, op.arg)
      [] op.fn = "paintFormXObjectEnd"    -> FormEnd(g)
      [] op.fn = "beginGroup"             -> GroupBegin(g)
      [] op.fn = "endGroup"               -> GroupEnd(g)
      [] op.fn = "beginAnnotation"        -> AnnotationBegin(g, op.arg)
      [] op.fn = "endAnnotation"          -> AnnotationEnd(g)
      [] op.fn = "beginMarkedContentProps" -> BeginMarkedContent(g, op.arg)
      [] op.fn = "endMarkedContent"       -> EndMarkedContent(g)
      [] op.fn \in {"paintImageXObject", "paintInlineImageXObject"} -> PaintImage(g, op.arg)
      [] op.fn = "paintImageMaskXObject"  -> PaintImageMask(g, op.arg)
      [] op.fn = "paintInlineImageXObjectGroup" -> PaintEach(g, op.arg, NoColor)
      [] op.fn = "paintImageXObjectRepeat"      -> PaintEach(g, EntriesOf(op.arg), NoColor)
      [] op.fn = "paintImageMaskXObjectGroup"   -> PaintEach(g, op.arg, g.current.fillColor)
      [] op.fn = "paintImageMaskXObjectRepeat"  -> PaintEach(g, EntriesOf(op.arg), g.current.fillColor)
      [] op.fn = "beginText"              -> [g EXCEPT !.current.textMatrix = <<>>]
      [] op.fn = "setFont"                -> [g EXCEPT !.current.font = op.arg]
      [] op.fn = "setTextMatrix"          -> [g EXCEPT !.current.textMatrix = <<op.arg>>]
      [] op.fn = "showText"               -> ShowText(g, op.arg)
      [] op.fn = "endText"                -> OnCtx(g, LAMBDA c : [c EXCEPT !.path = {}])
=============================================================================
