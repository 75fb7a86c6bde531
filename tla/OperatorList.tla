---------------------------- MODULE OperatorList ----------------------------
(***************************************************************************)
(* OperatorList of the worker (parser/operator_list.ts): the list of       *)
(* drawing operators of one page, handed to the page in chunks.  An        *)
(* operator is a record; the list remembers which dependencies it has      *)
(* named since its last flush.  Here operators are kept as they come (that *)
(* is NullOptimizer); QueueOptimizer puts others in their place.           *)
(***************************************************************************)
EXTENDS Naturals, Sequences, SequencesExt

CONSTANTS
    ChunkSize,      \* OperatorList.CHUNK_SIZE
    ChunkSizeAbout  \* OperatorList.CHUNK_SIZE_ABOUT

ASSUME OperatorListAssumption ==
    /\ ChunkSize \in Nat \ {0}
    /\ ChunkSizeAbout \in 1 .. ChunkSize

Named(fn) == [fn |-> fn, arg |-> fn]
Paint(obj) == [fn |-> "paint", arg |-> obj]
Dependency(obj) == [fn |-> "dependency", arg |-> obj]

EmptyList == [ops |-> <<>>, dependencies |-> {}, weight |-> 0, chunks |-> <<>>]

\* Mutant: every chunk claims to be the last.
FlushMarksLast(list, last) ==
    [EmptyList EXCEPT !.chunks = Append(list.chunks, [ops |-> list.ops, last |-> TRUE])]

\* flush(lastChunk): what was collected goes to the sink and is forgotten.
Flush(list, last) ==
    [EmptyList EXCEPT !.chunks = Append(list.chunks, [ops |-> list.ops, last |-> last])]

\* The list is full, or nearly full at the end of a group of operators.
MustFlush(list, op) ==
    \/ list.weight >= ChunkSize
    \/ list.weight >= ChunkSizeAbout /\ op.fn \in {"restore", "endText"}

AddOp(list, op) ==
    LET added == [list EXCEPT !.ops = Append(@, op), !.weight = @ + 1]
    IN  IF MustFlush(added, op) THEN Flush(added, FALSE) ELSE added

\* A dependency is named once per chunk, in front of what needs it.
AddDependency(list, obj) ==
    IF obj \in list.dependencies THEN list
    ELSE AddOp([list EXCEPT !.dependencies = @ \cup {obj}], Dependency(obj))

\* What the evaluator adds for one piece of a page: an image is a dependency
\* and the operator that paints it, anything else is one operator.
AddItem(list, item) ==
    IF item.image THEN AddOp(AddDependency(list, item.name), Paint(item.name))
    ELSE AddOp(list, Named(item.name))

\* addOpList: the finished list of an annotation is copied into the page's.
AddOpList(list, other) ==
    FoldLeft(AddOp, [list EXCEPT !.dependencies = @ \cup other.dependencies], other.ops)

\* The list of an annotation has no sink: it is never flushed.
AnnotationList(items) ==
    LET Add(list, item) ==
          IF item.image
          THEN [list EXCEPT !.dependencies = @ \cup {item.name},
                  !.ops = (IF item.name \in list.dependencies THEN @
                           ELSE Append(@, Dependency(item.name))) \o <<Paint(item.name)>>]
          ELSE [list EXCEPT !.ops = Append(@, Named(item.name))]
    IN  FoldLeft(Add, EmptyList, items)

\* The chunks of a page: its content, then its annotations, then the last flush.
PageChunks(content, annotations) ==
    LET page == FoldLeft(AddItem, EmptyList, content)
        all  == FoldLeft(LAMBDA list, items : AddOpList(list, AnnotationList(items)),
                         page, annotations)
    IN  Flush(all, TRUE).chunks
=============================================================================
