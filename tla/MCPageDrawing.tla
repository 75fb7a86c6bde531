---------------------------- MODULE MCPageDrawing ----------------------------
(***************************************************************************)
(* Pages for PageDrawing: of groups the optimizer may replace, of texts,   *)
(* and of paths in states, forms, groups, marked content and annotations.  *)
(***************************************************************************)
EXTENDS PageDrawing

T(shape, at) == [shape |-> shape, at |-> at]
Page(ops)    == [ops |-> ops, transparency |-> FALSE]
Blended(ops) == [ops |-> ops, transparency |-> TRUE]

O(fn) == <<DrawOp(fn, "-")>>
A(fn, arg) == <<DrawOp(fn, arg)>>

SeqOfUpTo(S, n) == UNION {[1 .. k -> S] : k \in 1 .. n}
Flat(s) == FlattenSeq(s)

Between == {A("setFillRGBColor", "red"), O("save") \o O("restore")}

ImageGroups ==
    {Group("paintImageXObject", "a", T("diagonal", 1)), Group("paintImageXObject", "a", T("diagonal", 2)),
     Group("paintImageXObject", "b", T("diagonal", 1)), Group("paintImageXObject", "a", T("wide", 2)),
     Group("paintImageXObject", "a", T("rotated", 1))}

MaskGroups ==
    {Group("paintImageMaskXObject", "m", T("symmetric", 1)), Group("paintImageMaskXObject", "m", T("symmetric", 2)),
     Group("paintImageMaskXObject", "n", T("diagonal", 1)), Group("paintImageMaskXObject", "m", T("rotated", 1))}

InlineGroups ==
    {Group("paintInlineImageXObject", "i", T("diagonal", 1)), Group("paintInlineImageXObject", "j", T("rotated", 2))}

SameGroups(n) ==
    {Flat([k \in 1 .. n |-> Group(what[1], what[2], T("diagonal", k))]) :
        what \in {<<"paintImageXObject", "a">>, <<"paintImageMaskXObject", "m">>, <<"paintInlineImageXObject", "i">>}}

RunPages ==
    {Page(Flat(s)) : s \in SeqOfUpTo(ImageGroups \cup Between, 3)
                        \cup SeqOfUpTo(MaskGroups \cup Between, 3)
                        \cup SeqOfUpTo(InlineGroups \cup Between, 3)}
    \cup {Page(s) : s \in UNION {SameGroups(n) : n \in 4 .. 6}}
    \cup {Page(Flat(s)) : s \in [1 .. 2 -> {Flat(<<g, g>>) : g \in ImageGroups \cup MaskGroups}]}

\* Incomplete groups behind whole ones.
BrokenPages ==
    {Page(g \o g \o SubSeq(g, 1, 3) \o x \o O("restore")) :
        g \in ImageGroups \cup MaskGroups \cup InlineGroups,
        x \in {A("setFillRGBColor", "red"), A("paintImageXObject", "b")}}

TextGroup(font, at, glyphs) ==
    O("beginText") \o A("setFont", font) \o A("setTextMatrix", T("text", at)) \o A("showText", glyphs) \o O("endText")

TextPages ==
    {Page(TextGroup("F", 1, "x") \o TextGroup(f, 2, "y") \o TextGroup("F", 3, "z") \o after) :
        f \in {"F", "G"}, after \in {<<>>, A("setFont", "G") \o O("beginText") \o A("showText", "w") \o O("endText")}}

------------------------------------------------------------------------------

PathOf(name) == A("constructPath", name)

Settings ==
    {<<>>, A("setFillAlpha", 2), A("setStrokeAlpha", 3), A("setFillRGBColor", "red"), A("transform", T("diagonal", 1)),
     PathOf("c") \o O("clip") \o O("endPath")}

Drawing == PathOf("p") \o O("fillStroke")
Ending == PathOf("q") \o O("stroke") \o PathOf("r") \o O("fill")

InState(ops) == O("save") \o ops \o O("restore")
InForm(ops)  == A("paintFormXObjectBegin", T("form", 1)) \o ops \o O("paintFormXObjectEnd")
InGroup(ops) == O("beginGroup") \o ops \o O("endGroup")
Marked(shown, ops) == A("beginMarkedContentProps", shown) \o ops \o O("endMarkedContent")

Wrapped(ops) == {InState(ops), InForm(ops), InGroup(ops), InGroup(InForm(ops)), Marked(TRUE, InGroup(ops))}

NestedPages ==
    {b \o s \o e : b \in Settings, e \in {Ending},
                   s \in UNION {Wrapped(t \o u) : t \in Settings,
                                u \in {Drawing} \cup Wrapped(A("setFillAlpha", 4) \o Drawing)}}

HiddenPages ==
    {Marked(shown, s \o Drawing \o Marked(TRUE, Drawing)) \o Ending : shown \in BOOLEAN, s \in Settings}
    \cup {Marked(TRUE, Drawing \o Marked(FALSE, s \o Drawing) \o Drawing) \o Ending : s \in Settings}
    \cup {Marked(FALSE, InGroup(Drawing) \o InForm(Drawing)) \o Ending}

Annotation(own, ops) ==
    A("beginAnnotation", [matrix |-> T("annotation", 1), ownCanvas |-> own]) \o ops \o O("endAnnotation")

AnnotationPages ==
    {O("save") \o s \o Drawing \o Annotation(own, t \o InGroup(Drawing) \o Drawing) \o Annotation(FALSE, InForm(Drawing)) :
        s \in Settings, t \in Settings, own \in BOOLEAN}

SomePages ==
    RunPages \cup TextPages
    \cup UNION {{Page(ops), Blended(ops)} : ops \in AnnotationPages \cup HiddenPages}
    \cup {Page(ops) : ops \in NestedPages}
==============================================================================
