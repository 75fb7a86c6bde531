---------------------------- MODULE QueueOptimizer ----------------------------
(***************************************************************************)
(* QueueOptimizer of the worker (parser/operator_list.ts): while operators *)
(* are added to the list of a page it looks for runs of groups, such as    *)
(* (save, transform, paintImageXObject, restore), and puts one operator in *)
(* the place of a run.  The search stops at the end of the list and goes   *)
(* on with the next operator; a flush ends it where it is.                 *)
(*                                                                         *)
(* A transform is a record: shape is "diagonal", "wide" (another diagonal  *)
(* one), "symmetric" (its second and third number are equal, and not zero) *)
(* or "rotated"; at is where it moves the origin.                          *)
(***************************************************************************)
EXTENDS OperatorList

CONSTANTS
    MinInline, MaxInline,   \* MIN_, MAX_IMAGES_IN_INLINE_IMAGES_BLOCK
    MinMasks, MaxMasks,     \* MIN_, MAX_IMAGES_IN_MASKS_BLOCK
    MaxSameMasks,           \* MAX_SAME_IMAGES_IN_MASKS_BLOCK
    MinImages, MaxImages,   \* MIN_, MAX_IMAGES_IN_BLOCK
    MinTexts, MaxTexts      \* MIN_, MAX_CHARS_IN_BLOCK

ASSUME OptimizerAssumption ==
    /\ MinInline \in 1 .. MaxInline /\ MinMasks \in 1 .. MaxMasks
    /\ MinMasks <= MaxSameMasks /\ MinImages \in 1 .. MaxImages /\ MinTexts \in 1 .. MaxTexts

DrawOp(fn, arg) == [fn |-> fn, arg |-> arg]

\* The groups that addState registers.
Patterns == [
    inline |-> <<"save", "transform", "paintInlineImageXObject", "restore">>,
    mask   |-> <<"save", "transform", "paintImageMaskXObject", "restore">>,
    image  |-> <<"save", "transform", "paintImageXObject", "restore">>,
    text   |-> <<"beginText", "setFont", "setTextMatrix", "showText", "endText">>]

NoRun == "none"

\* i is the operator the search has got to, path the beginning of a group that ends
\* before it, match the kind of the groups of a run, whose first ends at iCurr.
NewQueue == [list |-> EmptyList, i |-> 1, path |-> <<>>, match |-> NoRun, iCurr |-> 0]

GroupWidth(queue)    == Len(Patterns[queue.match])
FirstOfRun(queue)  == queue.iCurr - GroupWidth(queue) + 1
PlaceInRun(queue)    == (queue.i - FirstOfRun(queue)) % GroupWidth(queue)    \* counted from 0
OpAt(queue, k)    == queue.list.ops[k]

IsDiagonal(t)   == t.shape \in {"diagonal", "wide"}

\* iterateFn: the operator goes on with the run.  The one for text compares the
\* argument of showText with that of setFont, and they never are the same.
GoesOnWithRun(queue) ==
    LET op    == OpAt(queue, queue.i)
        first == FirstOfRun(queue)
    IN  /\ op.fn = Patterns[queue.match][PlaceInRun(queue) + 1]
        /\ queue.match = "image" =>
              /\ PlaceInRun(queue) = 1 => IsDiagonal(op.arg) /\ op.arg.shape = OpAt(queue, first + 1).arg.shape
              /\ PlaceInRun(queue) = 2 => op.arg = OpAt(queue, first + 2).arg
        /\ queue.match = "text" =>
              (PlaceInRun(queue) = 3 => op.arg = OpAt(queue, first + 1).arg)

\* The k-th group of a run, for k from 0: its transform and what it paints.
Transform(queue, k) == OpAt(queue, FirstOfRun(queue) + 4 * k + 1).arg
Painted(queue, k)   == OpAt(queue, FirstOfRun(queue) + 4 * k + 2).arg
PaintEntries(queue, n)   == [k \in 1 .. n |-> [what |-> Painted(queue, k - 1), t |-> Transform(queue, k - 1)]]
Positions(queue, n) == [k \in 1 .. n |-> Transform(queue, k - 1).at]

\* The first n groups of the run become one operator.
ReplaceGroups(queue, n, op) ==
    LET first == FirstOfRun(queue)
        ops   == queue.list.ops
    IN  [queue EXCEPT
            !.list.ops = SubSeq(ops, 1, first - 1) \o <<op>>
                            \o SubSeq(ops, first + n * GroupWidth(queue), Len(ops)),
            !.i = first + 1]

Repeated(queue, n, fn) ==
    ReplaceGroups(queue, n, DrawOp(fn, [what |-> Painted(queue, 0), shape |-> Transform(queue, 0).shape,
                                          positions |-> Positions(queue, n)]))

\* How many groups of masks, from the first, are of one mask and one transform; all of
\* them, when there are too few.
SameMasks(queue, count) ==
    LET Same(k)   == /\ Painted(queue, k) = Painted(queue, 0)
                     /\ Transform(queue, k).shape = Transform(queue, 0).shape
        differing == {k \in 1 .. count - 1 : ~Same(k)}
    IN  IF differing = {} THEN count ELSE CHOOSE k \in differing : \A l \in differing : k <= l

Smaller(a, b) == IF a <= b THEN a ELSE b

ReplaceMasks(queue, count) ==
    LET same == SameMasks(queue, count)
    IN  IF Transform(queue, 0).shape # "rotated" /\ (same = count \/ same >= MinMasks)
        THEN Repeated(queue, Smaller(same, MaxSameMasks), "paintImageMaskXObjectRepeat")
        ELSE ReplaceGroups(queue, Smaller(count, MaxMasks),
                DrawOp("paintImageMaskXObjectGroup", PaintEntries(queue, Smaller(count, MaxMasks))))

\* The groups of a run of texts, and one before them that only lacks beginText, lose
\* (endText, beginText, setFont) between each other.
ReplaceTexts(queue, count) ==
    LET ops    == queue.list.ops
        begin  == FirstOfRun(queue)
        Fn(k)  == ops[k].fn
        before == /\ begin > 4
                  /\ \A k \in 1 .. 4 : Fn(begin - 5 + k) = Patterns.text[k + 1]
                  /\ ops[begin - 4].arg = ops[begin + 1].arg
        first  == IF before THEN begin - 5 ELSE begin
        n      == IF before THEN count + 1 ELSE count
        lost   == {first + 5 * k + j : k \in 1 .. n - 1, j \in -1 .. 1}
        kept   == SelectSeq([k \in 1 .. Len(ops) |-> k], LAMBDA k : k \notin lost)
    IN  [queue EXCEPT !.list.ops = [k \in 1 .. Len(kept) |-> ops[kept[k]]],
                      !.i = first + 5 * n - 3 * (n - 1)]

LeastOf(kind) == [inline |-> MinInline, mask |-> MinMasks, image |-> MinImages, text |-> MinTexts][kind]

\* processFn: the run ends before end.
EndRun(queue, end) ==
    LET count == (end - FirstOfRun(queue)) \div GroupWidth(queue)
        done  ==
          CASE count < LeastOf(queue.match) -> [queue EXCEPT !.i = end - ((end - FirstOfRun(queue)) % GroupWidth(queue))]
            [] queue.match = "inline" ->
                 ReplaceGroups(queue, Smaller(count, MaxInline),
                    DrawOp("paintInlineImageXObjectGroup", PaintEntries(queue, Smaller(count, MaxInline))))
            [] queue.match = "mask"  -> ReplaceMasks(queue, count)
            [] queue.match = "image" -> Repeated(queue, Smaller(count, MaxImages), "paintImageXObjectRepeat")
            [] queue.match = "text"  -> ReplaceTexts(queue, Smaller(count, MaxTexts))
    IN  [done EXCEPT !.match = NoRun, !.path = <<>>]

\* Outside a run: does the operator go on with a group, or end the first one of a run?
\* A run of images must begin with a diagonal transform (checkFn).
Look(queue) ==
    LET path    == Append(queue.path, OpAt(queue, queue.i).fn)
        whole   == {kind \in DOMAIN Patterns : Patterns[kind] = path}
        begun   == \E kind \in DOMAIN Patterns : IsPrefix(path, Patterns[kind])
        checked == {kind \in whole : kind = "image" => IsDiagonal(OpAt(queue, queue.i - 2).arg)}
    IN  IF whole # {}
        THEN [queue EXCEPT !.i = @ + 1, !.path = <<>>, !.iCurr = queue.i,
                           !.match = IF checked = {} THEN NoRun ELSE CHOOSE kind \in checked : TRUE]
        ELSE [queue EXCEPT !.i = @ + 1, !.path = IF begun THEN path ELSE <<>>]

\* One turn of the loop of _optimize.  The run is ended one operator too late.
Turn(queue) ==
    CASE queue.match = NoRun                            -> Look(queue)
      [] queue.match # NoRun /\ GoesOnWithRun(queue)    -> [queue EXCEPT !.i = @ + 1]
      [] queue.match # NoRun /\ ~GoesOnWithRun(queue)   -> EndRun(queue, queue.i + 1)

\* The queue after the turns of a loop: as few as it takes to end it.
Loop(Step(_), Ends(_), queue) ==
    LET after[n \in Nat] == IF n = 0 THEN queue ELSE Step(after[n - 1])
        length == Len(queue.list.ops)
        turns  == CHOOSE n \in 0 .. length * (length + 1) :
                     Ends(after[n]) /\ \A m \in 0 .. n - 1 : ~Ends(after[m])
    IN  after[turns]

AtEnd(queue) == queue.i > Len(queue.list.ops)
Optimize(queue) == Loop(Turn, AtEnd, queue)

\* QueueOptimizer.flush: what has been found by now is replaced.
NothingFound(queue) == queue.match = NoRun
EndRuns(queue) ==
    Loop(LAMBDA q : Optimize(EndRun(q, Len(q.list.ops) + 1)), NothingFound, queue)

FlushQueue(queue, last) == [NewQueue EXCEPT !.list = Flush(EndRuns(queue).list, last)]

\* OperatorList.addOp with this optimizer.
AddToQueue(queue, op) ==
    LET pushed == Optimize([queue EXCEPT !.list.ops = Append(@, op), !.list.weight = @ + 1])
    IN  IF MustFlush(pushed.list, op) THEN FlushQueue(pushed, FALSE) ELSE pushed

------------------------------------------------------------------------------
(* What a replaced run stands for.                                          *)

Group(fn, what, t) ==
    <<DrawOp("save", "-"), DrawOp("transform", t), DrawOp(fn, what), DrawOp("restore", "-")>>

\* The operators that op has been put in the place of.
Unfolded(op) ==
    LET Groups(fn) == FlattenSeq([k \in 1 .. Len(op.arg) |-> Group(fn, op.arg[k].what, op.arg[k].t)])
        Repeats(fn) ==
            FlattenSeq([k \in 1 .. Len(op.arg.positions) |->
                Group(fn, op.arg.what, [shape |-> op.arg.shape, at |-> op.arg.positions[k]])])
    IN  CASE op.fn = "paintInlineImageXObjectGroup" -> Groups("paintInlineImageXObject")
          [] op.fn = "paintImageMaskXObjectGroup"   -> Groups("paintImageMaskXObject")
          [] op.fn = "paintImageMaskXObjectRepeat"  -> Repeats("paintImageMaskXObject")
          [] op.fn = "paintImageXObjectRepeat"      -> Repeats("paintImageXObject")
          [] OTHER -> <<op>>
=============================================================================
